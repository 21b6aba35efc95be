-------------------------- MODULE ClientLists_proofs --------------------------
(***************************************************************************)
(* Proofs about the messages of a chat (MessageList) and the contacts      *)
(* (Roster), and the lemmas on queues, lists and what changes lead to that *)
(* the proofs about the other parts of the client use as well.             *)
(***************************************************************************)
EXTENDS MessageList, Roster, TLAPS, SequenceTheorems, FiniteSetTheorems

-----------------------------------------------------------------------------
(* Sequences.                                                              *)

IsSequence(s) == s \in Seq(Range(s))

LEMMA SequenceOf ==
    ASSUME NEW S, NEW s \in Seq(S)
    PROVE  IsSequence(s)
<1>1. s \in [1..Len(s) -> S] /\ Len(s) \in Nat
  OBVIOUS
<1>2. s \in [1..Len(s) -> Range(s)]
  BY <1>1 DEF Range
<1>3. s \in Seq(Range(s))
  BY <1>1, <1>2, SeqDef
<1> QED BY <1>3 DEF IsSequence

\* The rest of a queue
LEMMA TailOf ==
    ASSUME NEW s, IsSequence(s), s # <<>>
    PROVE  /\ Len(s) \in Nat \ {0} /\ DOMAIN s = 1..Len(s)
           /\ IsSequence(Tail(s)) /\ Len(Tail(s)) = Len(s) - 1 /\ DOMAIN Tail(s) = 1..(Len(s) - 1)
           /\ \A i \in DOMAIN Tail(s) : i + 1 \in DOMAIN s /\ Tail(s)[i] = s[i + 1]
           /\ 1 \in DOMAIN s /\ Head(s) = s[1]
<1> DEFINE S == Range(s)
<1>1. s \in Seq(S)
  BY DEF IsSequence
<1> HIDE DEF S
<1>2. /\ Len(s) \in Nat \ {0} /\ DOMAIN s = 1..Len(s)
      /\ Tail(s) \in Seq(S) /\ Len(Tail(s)) = Len(s) - 1
      /\ \A i \in 1..(Len(s) - 1) : Tail(s)[i] = s[i + 1]
      /\ Head(s) = s[1]
  BY <1>1
<1>3. DOMAIN Tail(s) = 1..(Len(s) - 1)
  BY <1>2
<1>4. IsSequence(Tail(s))
  BY <1>2, SequenceOf
<1> QED BY <1>2, <1>3, <1>4

\* Two queues
LEMMA Joined ==
    ASSUME NEW s, NEW t, IsSequence(s), IsSequence(t)
    PROVE  /\ IsSequence(s \o t) /\ Len(s \o t) = Len(s) + Len(t)
           /\ Len(s) \in Nat /\ Len(t) \in Nat
           /\ DOMAIN s = 1..Len(s) /\ DOMAIN t = 1..Len(t)
           /\ DOMAIN (s \o t) = 1..(Len(s) + Len(t))
           /\ \A i \in DOMAIN s : i \in DOMAIN (s \o t) /\ (s \o t)[i] = s[i]
           /\ \A i \in DOMAIN t : /\ Len(s) + i \in DOMAIN (s \o t)
                                  /\ (s \o t)[Len(s) + i] = t[i]
           /\ \A i \in DOMAIN (s \o t) :
                 \/ i \in DOMAIN s /\ (s \o t)[i] = s[i]
                 \/ i > Len(s) /\ i - Len(s) \in DOMAIN t /\ (s \o t)[i] = t[i - Len(s)]
<1> DEFINE S == Range(s) \cup Range(t)
<1>1. s \in Seq(S) /\ t \in Seq(S)
  <2>1. s \in Seq(Range(s)) /\ t \in Seq(Range(t))
    BY DEF IsSequence
  <2> QED BY <2>1
<1> HIDE DEF S
<1>2. /\ s \o t \in Seq(S) /\ Len(s \o t) = Len(s) + Len(t)
      /\ Len(s) \in Nat /\ Len(t) \in Nat
      /\ DOMAIN s = 1..Len(s) /\ DOMAIN t = 1..Len(t)
      /\ \A i \in 1..(Len(s) + Len(t)) :
            (s \o t)[i] = IF i <= Len(s) THEN s[i] ELSE t[i - Len(s)]
  BY <1>1
<1>3. DOMAIN (s \o t) = 1..(Len(s) + Len(t))
  BY <1>2
<1>4. IsSequence(s \o t)
  BY <1>2, SequenceOf
<1> QED BY <1>2, <1>3, <1>4

\* One more element
LEMMA AppendOf ==
    ASSUME NEW s, NEW a, IsSequence(s)
    PROVE  /\ IsSequence(Append(s, a)) /\ Len(Append(s, a)) = Len(s) + 1
           /\ Len(s) \in Nat /\ DOMAIN s = 1..Len(s) /\ DOMAIN Append(s, a) = 1..(Len(s) + 1)
           /\ Append(s, a) # <<>>
           /\ Len(s) + 1 \in DOMAIN Append(s, a) /\ Append(s, a)[Len(s) + 1] = a
           /\ \A i \in DOMAIN s : i \in DOMAIN Append(s, a) /\ Append(s, a)[i] = s[i]
           /\ \A i \in DOMAIN Append(s, a) :
                 \/ i \in DOMAIN s /\ Append(s, a)[i] = s[i]
                 \/ i = Len(s) + 1 /\ Append(s, a)[i] = a
<1> DEFINE S == Range(s) \cup {a}
<1>1. s \in Seq(S)
  <2>1. s \in Seq(Range(s))
    BY DEF IsSequence
  <2> QED BY <2>1
<1>2. a \in S
  OBVIOUS
<1> HIDE DEF S
<1>3. /\ Append(s, a) \in Seq(S) /\ Len(Append(s, a)) = Len(s) + 1
      /\ Len(s) \in Nat /\ DOMAIN s = 1..Len(s)
      /\ \A i \in 1..Len(s) : Append(s, a)[i] = s[i]
      /\ Append(s, a)[Len(s) + 1] = a
  BY <1>1, <1>2
<1>4. DOMAIN Append(s, a) = 1..(Len(s) + 1)
  BY <1>3
<1>5. IsSequence(Append(s, a))
  BY <1>3, SequenceOf
<1> QED BY <1>3, <1>4, <1>5

\* Short queues
LEMMA EmptyQueue == IsSequence(<<>>) /\ DOMAIN <<>> = {} /\ Len(<<>>) = 0
<1>1. <<>> \in Seq(Range(<<>>))
  OBVIOUS
<1> QED BY <1>1 DEF IsSequence

LEMMA OneElement ==
    ASSUME NEW a
    PROVE  IsSequence(<<a>>) /\ DOMAIN <<a>> = {1} /\ <<a>>[1] = a /\ Len(<<a>>) = 1
<1>1. <<a>> \in Seq({a})
  OBVIOUS
<1>2. IsSequence(<<a>>)
  BY <1>1, SequenceOf
<1> QED BY <1>2

LEMMA TwoElements ==
    ASSUME NEW a, NEW b
    PROVE  /\ IsSequence(<<a, b>>) /\ DOMAIN <<a, b>> = {1, 2} /\ Len(<<a, b>>) = 2
           /\ <<a, b>>[1] = a /\ <<a, b>>[2] = b
<1>1. <<a, b>> \in Seq({a, b})
  OBVIOUS
<1>2. IsSequence(<<a, b>>)
  BY <1>1, SequenceOf
<1> QED BY <1>2


LEMMA JoinedOne ==
    ASSUME NEW s, IsSequence(s), NEW a
    PROVE  s \o <<a>> = Append(s, a) /\ s \o <<>> = s
<1> DEFINE S == Range(s) \cup {a}
<1>1. s \in Seq(S)
  <2>1. s \in Seq(Range(s))
    BY DEF IsSequence
  <2> QED BY <2>1
<1>2. a \in S
  OBVIOUS
<1> HIDE DEF S
<1> QED BY <1>1, <1>2

LEMMA JoinedSecond ==
    ASSUME NEW s, NEW t, IsSequence(s), IsSequence(t), NEW i \in DOMAIN t
    PROVE  Len(s) + i \in DOMAIN (s \o t) /\ (s \o t)[Len(s) + i] = t[i]
<1> DEFINE S == Range(s) \cup Range(t)
<1>1. s \in Seq(S) /\ t \in Seq(S)
  <2>1. s \in Seq(Range(s)) /\ t \in Seq(Range(t))
    BY DEF IsSequence
  <2> QED BY <2>1
<1> HIDE DEF S
<1>2. /\ s \o t \in Seq(S) /\ Len(s \o t) = Len(s) + Len(t)
      /\ Len(s) \in Nat /\ Len(t) \in Nat /\ DOMAIN t = 1..Len(t)
      /\ \A k \in 1..(Len(s) + Len(t)) :
            (s \o t)[k] = IF k <= Len(s) THEN s[k] ELSE t[k - Len(s)]
  BY <1>1
<1>3. DOMAIN (s \o t) = 1..(Len(s) + Len(t))
  BY <1>2
<1>4. /\ i \in Nat /\ Len(s) + i \in 1..(Len(s) + Len(t)) /\ ~(Len(s) + i <= Len(s))
      /\ (Len(s) + i) - Len(s) = i
  BY <1>2
<1> QED BY <1>2, <1>3, <1>4

\* The elements of a finite set as a queue
LEMMA SetToSeqOf ==
    ASSUME NEW S, IsFiniteSet(S)
    PROVE  /\ IsSequence(SetToSeq(S)) /\ Len(SetToSeq(S)) \in Nat
           /\ DOMAIN SetToSeq(S) = 1..Len(SetToSeq(S))
           /\ \A i \in DOMAIN SetToSeq(S) : SetToSeq(S)[i] \in S
           /\ \A i, j \in DOMAIN SetToSeq(S) : SetToSeq(S)[i] = SetToSeq(S)[j] => i = j
           /\ \A x \in S : \E i \in DOMAIN SetToSeq(S) : SetToSeq(S)[i] = x
<1> DEFINE n == Cardinality(S)
           I == 1..n
<1>1. n \in Nat /\ \E f : f \in Bijection(I, S)
  BY FS_CardinalityType DEF ExistsBijection
<1>2. IsFiniteSet(I) /\ Cardinality(I) = n
  BY <1>1, FS_Interval
<1>3. \E f \in [I -> S] : IsInjective(f)
  BY <1>1 DEF Bijection, Injection
<1>4. SetToSeq(S) = CHOOSE f \in [I -> S] : IsInjective(f)
  BY DEF SetToSeq
<1>5. SetToSeq(S) \in [I -> S] /\ IsInjective(SetToSeq(S))
  BY <1>3, <1>4
<1>6. SetToSeq(S) \in Injection(I, S)
  BY <1>5 DEF Injection
<1>7. SetToSeq(S) \in Surjection(I, S)
  BY <1>2, <1>6, FS_Injection
<1>8. \A x \in S : \E i \in I : SetToSeq(S)[i] = x
  BY <1>7 DEF Surjection
<1>9. SetToSeq(S) \in Seq(S)
  BY <1>1, <1>5, SeqDef
<1>10. Len(SetToSeq(S)) = n /\ DOMAIN SetToSeq(S) = I
  BY <1>1, <1>5, <1>9
<1>11. IsSequence(SetToSeq(S))
  BY <1>9, SequenceOf
<1>12. \A i \in I : SetToSeq(S)[i] \in S
  BY <1>5
<1>13. \A i, j \in I : SetToSeq(S)[i] = SetToSeq(S)[j] => i = j
  BY <1>5 DEF IsInjective
<1> QED BY <1>1, <1>8, <1>10, <1>11, <1>12, <1>13

LEMMA ImageFinite ==
    ASSUME NEW S, IsFiniteSet(S), NEW f, f = [x \in S |-> f[x]]
    PROVE  IsFiniteSet({f[x] : x \in S})
<1> DEFINE T == {f[x] : x \in S}
<1>1. f \in [S -> T]
  OBVIOUS
<1>2. f \in Surjection(S, T)
  BY <1>1 DEF Surjection
<1> HIDE DEF T
<1>3. IsFiniteSet(T)
  BY <1>2, FS_Surjection
<1> QED BY <1>3 DEF T

-----------------------------------------------------------------------------
(* What a queue of changes leads to, and how many elements of a kind it    *)
(* has.                                                                    *)

\* Something that is b becomes x by the first n changes of s, where val gives what those make of it
\* that are about it.
Leads(s, n, val, b, x) ==
    /\ \A i \in 1..n :
          s[i] \in DOMAIN val /\ (\A k \in 1..n : k > i => s[k] \notin DOMAIN val) => val[s[i]] = x
    /\ (\A i \in 1..n : s[i] \notin DOMAIN val) => b = x

LEMMA LeadsNone ==
    ASSUME NEW s, NEW val, NEW b, NEW x
    PROVE  Leads(s, 0, val, b, x) <=> b = x
BY DEF Leads

\* What a change makes of it does not depend on what was before.
LEMMA LeadsFromAny ==
    ASSUME NEW s, NEW n \in Nat, NEW val, NEW b, NEW c, NEW x, Leads(s, n, val, b, x),
           NEW i \in 1..n, s[i] \in DOMAIN val
    PROVE  Leads(s, n, val, c, x)
BY DEF Leads

LEMMA LeadsAppend ==
    ASSUME NEW s, IsSequence(s), NEW a, NEW val, NEW b, NEW x
    PROVE  /\ \A n \in 0..Len(s) : Leads(Append(s, a), n, val, b, x) <=> Leads(s, n, val, b, x)
           /\ Leads(s, Len(s), val, b, x) =>
                 Leads(Append(s, a), Len(s) + 1, val, b, IF a \in DOMAIN val THEN val[a] ELSE x)
<1> DEFINE p == Append(s, a)
           y == IF a \in DOMAIN val THEN val[a] ELSE x
           N == Len(s) + 1
<1>1. /\ Len(s) \in Nat /\ p[N] = a
      /\ \A i \in 1..Len(s) : p[i] = s[i]
  BY AppendOf
<1> HIDE DEF p
<1>2. ASSUME NEW n \in 0..Len(s)
      PROVE  Leads(p, n, val, b, x) <=> Leads(s, n, val, b, x)
  <2>1. \A i \in 1..n : p[i] = s[i]
    BY <1>1
  <2> QED BY <2>1 DEF Leads
<1>3. ASSUME Leads(s, Len(s), val, b, x)
      PROVE  Leads(p, N, val, b, y)
  <2>1. CASE a \in DOMAIN val
    <3>1. ASSUME NEW i \in 1..N, p[i] \in DOMAIN val, \A k \in 1..N : k > i => p[k] \notin DOMAIN val
          PROVE  val[p[i]] = y
      <4>1. ~(N > i)
        BY <1>1, <2>1, <3>1
      <4>2. i = N
        BY <1>1, <4>1
      <4> QED BY <1>1, <2>1, <4>2
    <3>2. N \in 1..N
      BY <1>1
    <3> QED BY <1>1, <2>1, <3>1, <3>2 DEF Leads
  <2>2. CASE a \notin DOMAIN val
    <3>1. ASSUME NEW i \in 1..N, p[i] \in DOMAIN val, \A k \in 1..N : k > i => p[k] \notin DOMAIN val
          PROVE  val[p[i]] = x
      <4>1. i \in 1..Len(s)
        BY <1>1, <2>2, <3>1
      <4>2. \A k \in 1..Len(s) : k > i => s[k] \notin DOMAIN val
        BY <1>1, <3>1
      <4>3. p[i] = s[i]
        BY <1>1, <4>1
      <4> QED BY <1>3, <3>1, <4>1, <4>2, <4>3 DEF Leads
    <3>2. (\A i \in 1..N : p[i] \notin DOMAIN val) => b = x
      <4>1. \A i \in 1..Len(s) : i \in 1..N /\ p[i] = s[i]
        BY <1>1
      <4> QED BY <1>3, <4>1 DEF Leads
    <3>3. y = x
      BY <2>2
    <3> QED BY <3>1, <3>2, <3>3 DEF Leads
  <2> QED BY <2>1, <2>2
<1> QED BY <1>2, <1>3 DEF p

LEMMA LeadsTail ==
    ASSUME NEW s, IsSequence(s), s # <<>>, NEW n \in 1..Len(s), NEW val, NEW b, NEW x,
           Leads(s, n, val, b, x)
    PROVE  Leads(Tail(s), n - 1, val, IF Head(s) \in DOMAIN val THEN val[Head(s)] ELSE b, x)
<1> DEFINE p == Tail(s)
           c == IF Head(s) \in DOMAIN val THEN val[Head(s)] ELSE b
<1>1. /\ Len(s) \in Nat /\ Head(s) = s[1]
      /\ \A i \in 1..(Len(s) - 1) : p[i] = s[i + 1]
  BY TailOf
<1> HIDE DEF p
<1>2. \A i \in 1..(n - 1) : i + 1 \in 1..n /\ p[i] = s[i + 1]
  BY <1>1
<1>3. ASSUME NEW i \in 1..(n - 1), p[i] \in DOMAIN val,
             \A k \in 1..(n - 1) : k > i => p[k] \notin DOMAIN val
      PROVE  val[p[i]] = x
  <2>1. ASSUME NEW k \in 1..n, k > i + 1
        PROVE  s[k] \notin DOMAIN val
    <3>1. k - 1 \in 1..(n - 1) /\ k - 1 > i /\ p[k - 1] = s[(k - 1) + 1] /\ (k - 1) + 1 = k
      BY <1>2, <2>1
    <3> QED BY <1>3, <3>1
  <2> QED BY <1>2, <1>3, <2>1 DEF Leads
<1>4. ASSUME \A i \in 1..(n - 1) : p[i] \notin DOMAIN val
      PROVE  c = x
  <2>1. ASSUME NEW k \in 1..n, k > 1
        PROVE  s[k] \notin DOMAIN val
    <3>1. k - 1 \in 1..(n - 1) /\ p[k - 1] = s[(k - 1) + 1] /\ (k - 1) + 1 = k
      BY <1>2, <2>1
    <3> QED BY <1>4, <3>1
  <2>2. 1 \in 1..n
    BY <1>1
  <2>3. CASE s[1] \in DOMAIN val
    BY <1>1, <2>1, <2>2, <2>3 DEF Leads
  <2>4. CASE s[1] \notin DOMAIN val
    <3>1. \A k \in 1..n : k = 1 \/ k > 1
      BY <1>1
    <3> QED BY <1>1, <2>1, <2>4, <3>1 DEF Leads
  <2> QED BY <2>3, <2>4
<1> QED BY <1>3, <1>4 DEF Leads, p

\* The last change decides.
LEMMA LeadsLast ==
    ASSUME NEW s, IsSequence(s), NEW a, NEW val, a \in DOMAIN val, NEW b
    PROVE  Leads(Append(s, a), Len(Append(s, a)), val, b, val[a])
<1> DEFINE p == Append(s, a)
           N == Len(s) + 1
<1>1. Len(s) \in Nat /\ Len(p) = N /\ p[N] = a
  BY AppendOf
<1> HIDE DEF p
<1>2. N \in 1..N /\ \A i \in 1..N : i = N \/ N > i
  BY <1>1
<1> HIDE DEF N
<1>3. Leads(p, N, val, b, val[a])
  BY <1>1, <1>2 DEF Leads
<1> QED BY <1>1, <1>3 DEF p

CountOf(s, V) == Cardinality({i \in DOMAIN s : s[i] \in V})

LEMMA CountNone ==
    ASSUME NEW V
    PROVE  CountOf(<<>>, V) = 0
<1>1. {i \in DOMAIN <<>> : <<>>[i] \in V} = {}
  BY EmptyQueue
<1> QED BY <1>1, FS_EmptySet DEF CountOf

LEMMA CountAppend ==
    ASSUME NEW s, IsSequence(s), NEW a, NEW V
    PROVE  /\ CountOf(s, V) \in Nat
           /\ CountOf(Append(s, a), V) = CountOf(s, V) + IF a \in V THEN 1 ELSE 0
<1> DEFINE p == Append(s, a)
           I == {i \in DOMAIN s : s[i] \in V}
           J == {i \in DOMAIN p : p[i] \in V}
           N == Len(s) + 1
<1>1. /\ Len(s) \in Nat /\ DOMAIN s = 1..Len(s) /\ DOMAIN p = 1..N /\ p[N] = a
      /\ \A i \in DOMAIN s : i \in DOMAIN p /\ p[i] = s[i]
  BY AppendOf
<1> HIDE DEF p
<1>2. IsFiniteSet(I)
  <2>1. IsFiniteSet(1..Len(s))
    BY <1>1, FS_Interval
  <2> QED BY <1>1, <2>1, FS_Subset
<1>3. N \notin I
  BY <1>1
<1>4. J = IF a \in V THEN I \cup {N} ELSE I
  <2>1. \A i \in 1..N : i \in 1..Len(s) \/ i = N
    BY <1>1
  <2> QED BY <1>1, <2>1
<1> HIDE DEF I, J
<1>5. Cardinality(I) \in Nat
  BY <1>2, FS_CardinalityType
<1>6. Cardinality(J) = Cardinality(I) + IF a \in V THEN 1 ELSE 0
  <2>1. N \notin I => Cardinality(I \cup {N}) = Cardinality(I) + 1
    BY <1>2, FS_AddElement
  <2> QED BY <1>3, <1>4, <1>5, <2>1
<1> QED BY <1>5, <1>6 DEF CountOf, I, J, p

LEMMA CountTail ==
    ASSUME NEW s, IsSequence(s), s # <<>>, NEW V
    PROVE  /\ CountOf(s, V) \in Nat /\ CountOf(Tail(s), V) \in Nat
           /\ CountOf(s, V) = CountOf(Tail(s), V) + IF Head(s) \in V THEN 1 ELSE 0
<1> DEFINE p == Tail(s)
           I == {i \in DOMAIN p : p[i] \in V}
           K == {i \in DOMAIN s : s[i] \in V /\ i # 1}
           J == {i \in DOMAIN s : s[i] \in V}
           f == [i \in I |-> i + 1]
<1>1. /\ Len(s) \in Nat \ {0} /\ DOMAIN s = 1..Len(s) /\ DOMAIN p = 1..(Len(s) - 1)
      /\ \A i \in DOMAIN p : i + 1 \in DOMAIN s /\ p[i] = s[i + 1]
      /\ 1 \in DOMAIN s /\ Head(s) = s[1]
  BY TailOf
<1> HIDE DEF p
<1>2. IsFiniteSet(I) /\ IsFiniteSet(K)
  <2>1. IsFiniteSet(1..Len(s)) /\ IsFiniteSet(1..(Len(s) - 1))
    BY <1>1, FS_Interval
  <2> QED BY <1>1, <2>1, FS_Subset
<1>3. f \in Bijection(I, K)
  <2>1. f \in [I -> K] /\ \A i, j \in I : f[i] = f[j] => i = j
    BY <1>1
  <2>2. ASSUME NEW k \in K
        PROVE  \E i \in I : f[i] = k
    <3>1. k - 1 \in DOMAIN p /\ (k - 1) + 1 = k
      BY <1>1
    <3>2. k - 1 \in I
      BY <1>1, <3>1
    <3> QED BY <3>1, <3>2
  <2>3. f \in Injection(I, K)
    BY <2>1 DEF Injection, IsInjective
  <2>4. f \in Surjection(I, K)
    BY <2>1, <2>2 DEF Surjection
  <2> QED BY <2>3, <2>4 DEF Bijection
<1>4. Cardinality(I) = Cardinality(K)
  BY <1>2, <1>3, FS_Bijection DEF ExistsBijection
<1>5. J = IF s[1] \in V THEN K \cup {1} ELSE K
  BY <1>1
<1>6. 1 \notin K
  OBVIOUS
<1> HIDE DEF I, J, K, f
<1>7. Cardinality(K) \in Nat
  BY <1>2, FS_CardinalityType
<1>8. Cardinality(J) = Cardinality(K) + IF s[1] \in V THEN 1 ELSE 0
  <2>1. 1 \notin K => Cardinality(K \cup {1}) = Cardinality(K) + 1
    BY <1>2, FS_AddElement
  <2> QED BY <1>5, <1>6, <1>7, <2>1
<1>9. /\ CountOf(s, V) = Cardinality(J) /\ CountOf(p, V) = Cardinality(I)
      /\ Head(s) = s[1]
  BY <1>1 DEF CountOf, I, J
<1>10. CountOf(s, V) = CountOf(p, V) + IF Head(s) \in V THEN 1 ELSE 0
  BY <1>4, <1>8, <1>9
<1>11. CountOf(s, V) \in Nat /\ CountOf(p, V) \in Nat
  BY <1>4, <1>7, <1>8, <1>9
<1> QED BY <1>10, <1>11 DEF p

LEMMA CountMore ==
    ASSUME NEW s, IsSequence(s), NEW a, NEW V
    PROVE  /\ CountOf(s, V) \in Nat
           /\ a \in V => CountOf(Append(s, a), V) = CountOf(s, V) + 1
           /\ a \notin V => CountOf(Append(s, a), V) = CountOf(s, V)
BY CountAppend

LEMMA CountLess ==
    ASSUME NEW s, IsSequence(s), s # <<>>, NEW V
    PROVE  /\ CountOf(s, V) \in Nat /\ CountOf(Tail(s), V) \in Nat
           /\ Head(s) \in V => CountOf(s, V) = CountOf(Tail(s), V) + 1
           /\ Head(s) \notin V => CountOf(s, V) = CountOf(Tail(s), V)
BY CountTail

-----------------------------------------------------------------------------
(* The elements of a finite set in an order.                               *)

\* The rank of an element is the number of those that R puts before it, including itself.
LEMMA RankOf ==
    ASSUME NEW K, IsFiniteSet(K), NEW R \in [K -> SUBSET K],
           \A t \in K : t \in R[t],
           \A s, t \in K : R[s] \subseteq R[t] \/ R[t] \subseteq R[s],
           \A s, t \in K : R[s] = R[t] => s = t
    PROVE  /\ Cardinality(K) \in Nat
           /\ \A t \in K : Cardinality(R[t]) \in 1..Cardinality(K)
           /\ \A s, t \in K : Cardinality(R[s]) = Cardinality(R[t]) => s = t
           /\ \A i \in 1..Cardinality(K) : \E t \in K : Cardinality(R[t]) = i
           /\ \A s, t \in K : Cardinality(R[s]) <= Cardinality(R[t]) => R[s] \subseteq R[t]
<1> DEFINE n == Cardinality(K)
           f == [t \in K |-> Cardinality(R[t])]
<1>1. n \in Nat
  BY FS_CardinalityType
<1>2. \A t \in K : IsFiniteSet(R[t]) /\ Cardinality(R[t]) <= n /\ Cardinality(R[t]) \in Nat
  <2> SUFFICES ASSUME NEW t \in K
               PROVE  IsFiniteSet(R[t]) /\ Cardinality(R[t]) <= n /\ Cardinality(R[t]) \in Nat
    OBVIOUS
  <2>1. R[t] \in SUBSET K
    OBVIOUS
  <2>2. IsFiniteSet(R[t]) /\ Cardinality(R[t]) <= Cardinality(K)
    BY <2>1, FS_Subset
  <2> QED BY <2>2, FS_CardinalityType
<1>3. \A t \in K : Cardinality(R[t]) \in 1..n
  <2> SUFFICES ASSUME NEW t \in K
               PROVE  Cardinality(R[t]) \in 1..n
    OBVIOUS
  <2>1. R[t] # {}
    OBVIOUS
  <2>2. Cardinality(R[t]) # 0
    BY <1>2, <2>1, FS_EmptySet
  <2> QED BY <1>1, <1>2, <2>2
<1>4. ASSUME NEW s \in K, NEW t \in K, Cardinality(R[s]) <= Cardinality(R[t])
      PROVE  R[s] \subseteq R[t]
  <2>1. CASE R[t] \subseteq R[s]
    <3>1. R[t] \in SUBSET R[s] /\ IsFiniteSet(R[s])
      BY <1>2, <2>1
    <3>2. Cardinality(R[t]) <= Cardinality(R[s]) /\ (Cardinality(R[s]) = Cardinality(R[t]) => R[s] = R[t])
      BY <3>1, FS_Subset
    <3>3. Cardinality(R[t]) \in Nat /\ Cardinality(R[s]) \in Nat
      BY <1>2
    <3>4. Cardinality(R[s]) = Cardinality(R[t])
      BY <1>4, <3>2, <3>3
    <3> QED BY <3>2, <3>4
  <2> QED BY <2>1
<1>5. ASSUME NEW s \in K, NEW t \in K, Cardinality(R[s]) = Cardinality(R[t])
      PROVE  s = t
  <2>1. Cardinality(R[t]) \in Nat
    BY <1>2
  <2>2. R[s] \subseteq R[t] /\ R[t] \subseteq R[s]
    BY <1>4, <1>5, <2>1
  <2>3. R[s] = R[t]
    BY <2>2
  <2> QED BY <2>3
<1>6. f \in Injection(K, 1..n)
  <2>1. f \in [K -> 1..n]
    BY <1>3
  <2>2. \A s, t \in K : f[s] = f[t] => s = t
    BY <1>5
  <2> QED BY <2>1, <2>2 DEF Injection, IsInjective
<1>7. IsFiniteSet(1..n) /\ Cardinality(1..n) = n
  <2>1. 1 \in Int /\ n \in Int /\ (IF 1 > n THEN 0 ELSE n - 1 + 1) = n
    BY <1>1
  <2> QED BY <2>1, FS_Interval
<1>8. f \in Surjection(K, 1..n)
  BY <1>6, <1>7, FS_Injection
<1>9. \A i \in 1..n : \E t \in K : Cardinality(R[t]) = i
  BY <1>8 DEF Surjection
<1> QED BY <1>1, <1>3, <1>4, <1>5, <1>9

\* A finite set of numbers is listed, the greatest one first.
Descending(s) == \A i, k \in DOMAIN s : i < k => s[i] > s[k]
Lists(s, S) == IsSequence(s) /\ Range(s) = S /\ Descending(s)

LEMMA NewestFirstOf ==
    ASSUME NEW S, S \subseteq Nat, IsFiniteSet(S)
    PROVE  Lists(NewestFirst(S), S) /\ Len(NewestFirst(S)) = Cardinality(S)
<1> DEFINE R == [t \in S |-> {u \in S : u >= t}]
           n == Cardinality(S)
           L == NewestFirst(S)
<1>1. /\ n \in Nat
      /\ \A t \in S : Cardinality(R[t]) \in 1..n
      /\ \A s, t \in S : Cardinality(R[s]) = Cardinality(R[t]) => s = t
      /\ \A i \in 1..n : \E t \in S : Cardinality(R[t]) = i
      /\ \A s, t \in S : Cardinality(R[s]) <= Cardinality(R[t]) => R[s] \subseteq R[t]
  <2>1. R \in [S -> SUBSET S] /\ \A t \in S : t \in R[t]
    OBVIOUS
  <2>2. \A s, t \in S : s >= t => R[s] \subseteq R[t]
    <3> SUFFICES ASSUME NEW s \in S, NEW t \in S, s >= t, NEW u \in S, u >= s
                 PROVE  u >= t
      OBVIOUS
    <3>1. u \in Nat /\ s \in Nat /\ t \in Nat
      OBVIOUS
    <3> QED BY <3>1
  <2>3. \A s, t \in S : R[s] \subseteq R[t] \/ R[t] \subseteq R[s]
    <3>1. \A s, t \in S : s >= t \/ t >= s
      OBVIOUS
    <3> QED BY <2>2, <3>1
  <2>4. \A s, t \in S : R[s] = R[t] => s = t
    <3>1. ASSUME NEW s \in S, NEW t \in S, R[s] = R[t]
          PROVE  s = t
      <4>1. s \in R[t] /\ t \in R[s]
        BY <2>1, <3>1
      <4>2. s >= t /\ t >= s /\ s \in Nat /\ t \in Nat
        BY <4>1
      <4> QED BY <4>2
    <3> HIDE DEF R
    <3> QED BY <3>1
  <2> HIDE DEF R
  <2> QED BY <2>1, <2>3, <2>4, RankOf
<1>2. \A s, t \in S : R[s] \subseteq R[t] => s >= t
  OBVIOUS
<1>3. L = [i \in 1..n |-> CHOOSE t \in S : Cardinality(R[t]) = i]
  <2> DEFINE c(i) == CHOOSE t \in S : Cardinality({u \in S : u >= t}) = i
             d(i) == CHOOSE t \in S : Cardinality(R[t]) = i
  <2>1. L = [i \in 1..n |-> c(i)]
    BY DEF NewestFirst
  <2>2. ASSUME NEW i
        PROVE  c(i) = d(i)
    <3>1. \A t \in S : Cardinality({u \in S : u >= t}) = Cardinality(R[t])
      OBVIOUS
    <3> HIDE DEF R
    <3> QED BY <3>1
  <2> HIDE DEF c, d
  <2>3. L = [i \in 1..n |-> d(i)]
    BY <2>1, <2>2
  <2> QED BY <2>3 DEF d
<1> HIDE DEF R, L, n
<1>4. \A i \in 1..n : L[i] \in S /\ Cardinality(R[L[i]]) = i
  BY <1>1, <1>3
<1>5. IsSequence(L) /\ DOMAIN L = 1..n /\ Len(L) = n
  <2>1. L \in [1..n -> S]
    BY <1>3, <1>4
  <2>2. L \in Seq(S)
    BY <1>1, <2>1
  <2> QED BY <1>1, <2>1, <2>2, SequenceOf
<1>6. Range(L) = S
  <2>1. ASSUME NEW t \in S
        PROVE  \E i \in 1..n : L[i] = t
    <3>1. Cardinality(R[t]) \in 1..n
      BY <1>1
    <3>2. L[Cardinality(R[t])] \in S /\ Cardinality(R[L[Cardinality(R[t])]]) = Cardinality(R[t])
      BY <1>4, <3>1
    <3>3. L[Cardinality(R[t])] = t
      BY <1>1, <3>2
    <3> QED BY <3>1, <3>3
  <2> QED BY <1>4, <1>5, <2>1 DEF Range
<1>7. Descending(L)
  <2> SUFFICES ASSUME NEW i \in DOMAIN L, NEW k \in DOMAIN L, i < k
               PROVE  L[i] > L[k]
    BY DEF Descending
  <2>1. L[i] \in S /\ L[k] \in S /\ Cardinality(R[L[i]]) = i /\ Cardinality(R[L[k]]) = k
        /\ i \in Nat /\ k \in Nat
    BY <1>1, <1>4, <1>5
  <2>2. Cardinality(R[L[i]]) <= Cardinality(R[L[k]])
    BY <2>1
  <2>3. R[L[i]] \subseteq R[L[k]]
    BY <1>1, <2>1, <2>2
  <2>4. L[i] >= L[k]
    BY <1>2, <2>1, <2>3
  <2>5. L[i] \in Nat /\ L[k] \in Nat
    BY <2>1
  <2>6. L[i] # L[k]
    BY <2>1
  <2> QED BY <2>4, <2>5, <2>6
<1> QED BY <1>5, <1>6, <1>7 DEF Lists, L, n

\* There is only one such list.
LEMMA ListIs ==
    ASSUME NEW S, S \subseteq Nat, NEW s, Lists(s, S)
    PROVE  IsFiniteSet(S) /\ s = NewestFirst(S) /\ Len(s) = Cardinality(S)
<1> DEFINE N == Len(s)
<1>1. N \in Nat /\ DOMAIN s = 1..N /\ s = [i \in 1..N |-> s[i]]
  BY DEF Lists, IsSequence
<1>2. \A i \in 1..N : s[i] \in S /\ s[i] \in Nat
  BY <1>1 DEF Lists, Range
<1>3. \A t \in S : \E i \in 1..N : s[i] = t
  BY <1>1 DEF Lists, Range
<1>4. \A i, k \in 1..N : i < k => s[i] > s[k]
  BY <1>1 DEF Lists, Descending
<1> HIDE DEF N
<1>5. \A i, k \in 1..N : i <= k <=> s[i] >= s[k]
  <2> SUFFICES ASSUME NEW i \in 1..N, NEW k \in 1..N
               PROVE  i <= k <=> s[i] >= s[k]
    OBVIOUS
  <2>1. i < k \/ i = k \/ k < i
    BY <1>1
  <2> QED BY <1>1, <1>2, <1>4, <2>1
<1>6. ASSUME NEW k \in 0..N
      PROVE  LET T == {s[i] : i \in 1..k} IN IsFiniteSet(T) /\ Cardinality(T) = k
  <2> DEFINE T == {s[i] : i \in 1..k}
             g == [i \in 1..k |-> s[i]]
  <2>1. g \in Bijection(1..k, T)
    <3>1. g \in [1..k -> T] /\ \A t \in T : \E i \in 1..k : g[i] = t
      OBVIOUS
    <3>2. \A i, j \in 1..k : g[i] = g[j] => i = j
      <4> SUFFICES ASSUME NEW i \in 1..k, NEW j \in 1..k, s[i] = s[j]
                   PROVE  i = j
        OBVIOUS
      <4>1. i \in 1..N /\ j \in 1..N
        BY <1>1
      <4>2. s[i] >= s[j] /\ s[j] >= s[i]
        BY <1>2, <4>1
      <4> QED BY <1>1, <1>5, <4>1, <4>2
    <3> QED BY <3>1, <3>2 DEF Bijection, Injection, Surjection, IsInjective
  <2>2. IsFiniteSet(1..k) /\ Cardinality(1..k) = k
    <3>1. 1 \in Int /\ k \in Int /\ (IF 1 > k THEN 0 ELSE k - 1 + 1) = k
      BY <1>1
    <3> QED BY <3>1, FS_Interval
  <2>3. ExistsBijection(1..k, T)
    BY <2>1 DEF ExistsBijection
  <2> QED BY <2>2, <2>3, FS_Bijection
<1>7. \A k \in 1..N : {u \in S : u >= s[k]} = {s[i] : i \in 1..k}
  <2> SUFFICES ASSUME NEW k \in 1..N
               PROVE  {u \in S : u >= s[k]} = {s[i] : i \in 1..k}
    OBVIOUS
  <2>1. ASSUME NEW u \in S, u >= s[k]
        PROVE  u \in {s[i] : i \in 1..k}
    <3>1. PICK i \in 1..N : s[i] = u
      BY <1>3
    <3>2. i <= k
      BY <1>5, <2>1, <3>1
    <3>3. i \in 1..k
      BY <1>1, <3>2
    <3> QED BY <3>1, <3>3
  <2>2. ASSUME NEW i \in 1..k
        PROVE  s[i] \in S /\ s[i] >= s[k]
    <3>1. i \in 1..N /\ i <= k
      BY <1>1
    <3> QED BY <1>2, <1>5, <3>1
  <2> QED BY <2>1, <2>2
<1>8. S = {s[i] : i \in 1..N}
  BY <1>2, <1>3
<1>9. IsFiniteSet(S) /\ Cardinality(S) = N
  <2>1. N \in 0..N
    BY <1>1
  <2> QED BY <1>6, <1>8, <2>1
<1>10. \A i \in 1..N : Cardinality({u \in S : u >= s[i]}) = i
  <2>1. \A i \in 1..N : i \in 0..N
    BY <1>1
  <2> QED BY <1>6, <1>7, <2>1
<1>11. s = NewestFirst(S)
  <2>1. ASSUME NEW i \in 1..N
        PROVE  (CHOOSE t \in S : Cardinality({u \in S : u >= t}) = i) = s[i]
    <3>1. ASSUME NEW t \in S, Cardinality({u \in S : u >= t}) = i
          PROVE  t = s[i]
      <4>1. PICK k \in 1..N : s[k] = t
        BY <1>3
      <4>2. k = i
        BY <1>10, <3>1, <4>1
      <4> QED BY <4>1, <4>2
    <3> QED BY <1>2, <1>10, <3>1
  <2>2. NewestFirst(S) = [i \in 1..N |-> CHOOSE t \in S : Cardinality({u \in S : u >= t}) = i]
    BY <1>9 DEF NewestFirst
  <2>3. NewestFirst(S) = [i \in 1..N |-> s[i]]
    BY <2>1, <2>2
  <2> QED BY <1>1, <2>3
<1> QED BY <1>9, <1>11 DEF N

\* Lists of which the first one has the newer messages make one list.
LEMMA ListsJoined ==
    ASSUME NEW S, S \subseteq Nat, NEW s, Lists(s, S), NEW T, T \subseteq Nat, NEW t, Lists(t, T),
           \A x \in S, y \in T : x > y
    PROVE  Lists(s \o t, S \cup T)
<1> DEFINE p == s \o t
<1>1. IsSequence(s) /\ IsSequence(t) /\ Len(s) \in Nat /\ Len(t) \in Nat
      /\ DOMAIN s = 1..Len(s) /\ DOMAIN t = 1..Len(t)
  BY DEF Lists, IsSequence
<1>2. /\ IsSequence(p) /\ Len(p) = Len(s) + Len(t) /\ DOMAIN p = 1..Len(p)
      /\ \A i \in DOMAIN s : i \in DOMAIN p /\ p[i] = s[i]
      /\ \A i \in DOMAIN t : Len(s) + i \in DOMAIN p /\ p[Len(s) + i] = t[i]
      /\ \A i \in DOMAIN p : \/ i \in DOMAIN s /\ p[i] = s[i]
                             \/ i - Len(s) \in DOMAIN t /\ p[i] = t[i - Len(s)]
  BY <1>1, Joined, SequenceOf
<1> HIDE DEF p
<1>3. Range(s) = S /\ Range(t) = T /\ Descending(s) /\ Descending(t)
  BY DEF Lists
<1>4. Range(p) = S \cup T
  <2>1. \A i \in DOMAIN p : p[i] \in S \cup T
    BY <1>2, <1>3 DEF Range
  <2>2. \A x \in S \cup T : \E i \in DOMAIN p : p[i] = x
    BY <1>2, <1>3 DEF Range
  <2> QED BY <2>1, <2>2 DEF Range
<1>5. Descending(p)
  <2> SUFFICES ASSUME NEW i \in DOMAIN p, NEW k \in DOMAIN p, i < k
               PROVE  p[i] > p[k]
    BY DEF Descending
  <2>1. CASE k \in DOMAIN s
    <3>1. i \in DOMAIN s
      BY <1>1, <1>2, <2>1
    <3> QED BY <1>2, <1>3, <2>1, <3>1 DEF Descending
  <2>2. CASE k \notin DOMAIN s /\ i \in DOMAIN s
    <3>1. p[k] \in T /\ p[i] \in S
      BY <1>2, <1>3, <2>2 DEF Range
    <3> QED BY <3>1
  <2>3. CASE i \notin DOMAIN s
    <3>1. /\ i - Len(s) \in DOMAIN t /\ p[i] = t[i - Len(s)]
          /\ k - Len(s) \in DOMAIN t /\ p[k] = t[k - Len(s)]
      BY <1>1, <1>2, <2>3
    <3>2. i - Len(s) < k - Len(s)
      BY <1>1, <1>2
    <3> QED BY <1>3, <3>1, <3>2 DEF Descending
  <2> QED BY <2>1, <2>2, <2>3
<1> QED BY <1>2, <1>4, <1>5 DEF Lists, p

\* What is left of a queue of operations keeps its order.
LEMMA AllButOf ==
    ASSUME NEW s, IsSequence(s), NEW op
    PROVE  /\ IsSequence(AllBut(s, op))
           /\ \E f \in [DOMAIN AllBut(s, op) -> DOMAIN s] :
                 /\ \A n \in DOMAIN AllBut(s, op) : AllBut(s, op)[n] = s[f[n]] /\ s[f[n]].op # op
                 /\ \A i \in DOMAIN s : s[i].op # op => \E n \in DOMAIN AllBut(s, op) : f[n] = i
                 /\ \A m, n \in DOMAIN AllBut(s, op) : m < n => f[m] < f[n]
<1> DEFINE K == {i \in DOMAIN s : s[i].op # op}
           R == [t \in K |-> {k \in K : k <= t}]
           N == Cardinality(K)
           d == AllBut(s, op)
           f == [n \in 1..N |-> CHOOSE i \in K : Cardinality(R[i]) = n]
<1>1. Len(s) \in Nat /\ DOMAIN s = 1..Len(s) /\ K \subseteq Nat
  BY DEF IsSequence
<1>2. IsFiniteSet(K)
  <2>1. 1 \in Int /\ Len(s) \in Int
    BY <1>1
  <2>2. IsFiniteSet(DOMAIN s) /\ K \in SUBSET DOMAIN s
    BY <1>1, <2>1, FS_Interval
  <2> QED BY <2>2, FS_Subset
<1>3. /\ N \in Nat
      /\ \A t \in K : Cardinality(R[t]) \in 1..N
      /\ \A i, t \in K : Cardinality(R[i]) = Cardinality(R[t]) => i = t
      /\ \A n \in 1..N : \E t \in K : Cardinality(R[t]) = n
      /\ \A i, t \in K : Cardinality(R[i]) <= Cardinality(R[t]) => R[i] \subseteq R[t]
  <2>1. R \in [K -> SUBSET K] /\ \A t \in K : t \in R[t]
    BY <1>1
  <2>2. \A i, t \in K : i <= t => R[i] \subseteq R[t]
    <3> SUFFICES ASSUME NEW i \in K, NEW t \in K, i <= t, NEW u \in K, u <= i
                 PROVE  u <= t
      OBVIOUS
    <3>1. u \in Nat /\ i \in Nat /\ t \in Nat
      BY <1>1
    <3> HIDE DEF K
    <3> QED BY <3>1
  <2>3. \A i, t \in K : R[i] \subseteq R[t] \/ R[t] \subseteq R[i]
    <3>1. \A i, t \in K : i <= t \/ t <= i
      BY <1>1
    <3> QED BY <2>2, <3>1
  <2>4. \A i, t \in K : R[i] = R[t] => i = t
    <3>1. ASSUME NEW i \in K, NEW t \in K, R[i] = R[t]
          PROVE  i = t
      <4>1. i \in R[t] /\ t \in R[i]
        BY <2>1, <3>1
      <4>2. i <= t /\ t <= i /\ i \in Nat /\ t \in Nat
        BY <1>1, <4>1
      <4> QED BY <4>2
    <3> HIDE DEF R
    <3> QED BY <3>1
  <2> HIDE DEF R, K
  <2> QED BY <1>2, <2>1, <2>3, <2>4, RankOf
<1>4. d = [n \in 1..N |-> s[f[n]]]
  <2> DEFINE c(n) == CHOOSE i \in K : Cardinality({k \in K : k <= i}) = n
  <2>1. d = [n \in 1..N |-> s[c(n)]]
    BY DEF AllBut
  <2>2. ASSUME NEW n \in 1..N
        PROVE  c(n) = f[n]
    <3>1. \A i \in K : Cardinality({k \in K : k <= i}) = Cardinality(R[i])
      OBVIOUS
    <3> HIDE DEF R, K
    <3> QED BY <3>1
  <2> HIDE DEF c, f, K, N
  <2>3. [n \in 1..N |-> s[c(n)]] = [n \in 1..N |-> s[f[n]]]
    BY <2>2
  <2> QED BY <2>1, <2>3
<1>5. \A i, t \in K : R[i] \subseteq R[t] => i <= t
  <2>1. \A i \in K : i \in R[i]
    BY <1>1
  <2>2. \A i, t \in K : i \in R[t] => i <= t
    OBVIOUS
  <2> HIDE DEF R, K
  <2> QED BY <2>1, <2>2
<1> HIDE DEF R, d
<1>6. \A n \in 1..N : f[n] \in K /\ Cardinality(R[f[n]]) = n
  BY <1>3
<1>7. \A i \in K : \E n \in 1..N : f[n] = i
  <2>1. ASSUME NEW i \in K
        PROVE  f[Cardinality(R[i])] = i /\ Cardinality(R[i]) \in 1..N
    BY <1>3, <1>6
  <2> QED BY <2>1
<1>8. f \in [1..N -> K] /\ K \subseteq DOMAIN s
  BY <1>6
<1>9. \A i \in DOMAIN s : s[i].op # op <=> i \in K
  OBVIOUS
<1> HIDE DEF f, K, N
<1>10. IsSequence(d) /\ DOMAIN d = 1..N
  <2>1. d \in [1..N -> Range(s)]
    BY <1>4, <1>8 DEF Range
  <2>2. d \in Seq(Range(s))
    BY <1>3, <2>1
  <2> QED BY <2>1, <2>2, SequenceOf
<1>11. \A m, n \in 1..N : m < n => f[m] < f[n]
  <2> SUFFICES ASSUME NEW m \in 1..N, NEW n \in 1..N, m < n
               PROVE  f[m] < f[n]
    OBVIOUS
  <2>1. f[m] \in K /\ f[n] \in K /\ Cardinality(R[f[m]]) = m /\ Cardinality(R[f[n]]) = n
    BY <1>6
  <2>2. m <= n
    BY <1>3
  <2>3. f[m] <= f[n]
    BY <1>3, <1>5, <2>1, <2>2
  <2>4. f[m] # f[n]
    BY <1>3, <2>1
  <2>5. f[m] \in Nat /\ f[n] \in Nat
    BY <1>1, <2>1
  <2> QED BY <2>3, <2>4, <2>5
<1>12. \A n \in 1..N : d[n] = s[f[n]] /\ f[n] \in DOMAIN s /\ s[f[n]].op # op
  BY <1>4, <1>8, <1>9
<1>13. \A i \in DOMAIN s : s[i].op # op => \E n \in DOMAIN d : f[n] = i
  BY <1>7, <1>9, <1>10
<1>14. f \in [DOMAIN d -> DOMAIN s]
  BY <1>8, <1>10, <1>12
<1> QED BY <1>10, <1>11, <1>12, <1>13, <1>14 DEF d

LEMMA SubSeqOf ==
    ASSUME NEW s, IsSequence(s), NEW a \in 1..(Len(s) + 1), NEW b \in 0..Len(s)
    PROVE  /\ IsSequence(SubSeq(s, a, b))
           /\ Len(SubSeq(s, a, b)) = IF a <= b THEN b - a + 1 ELSE 0
           /\ DOMAIN SubSeq(s, a, b) = 1..(b - a + 1)
           /\ \A i \in 1..(b - a + 1) : a + i - 1 \in DOMAIN s /\ SubSeq(s, a, b)[i] = s[a + i - 1]
<1> DEFINE p == SubSeq(s, a, b)
<1>1. Len(s) \in Nat /\ DOMAIN s = 1..Len(s) /\ s \in Seq(Range(s))
  BY DEF IsSequence
<1>2. a \in Nat /\ b \in Nat
  BY <1>1
<1>3. p = [i \in 1..(b - a + 1) |-> s[a + i - 1]]
  BY <1>1, <1>2
<1>4. \A i \in 1..(b - a + 1) : a + i - 1 \in DOMAIN s
  BY <1>1, <1>2
<1> DEFINE n == IF a <= b THEN b - a + 1 ELSE 0
<1>5. n \in Nat /\ 1..n = 1..(b - a + 1)
  BY <1>2
<1>6. DOMAIN p = 1..(b - a + 1) /\ \A i \in 1..(b - a + 1) : p[i] = s[a + i - 1]
  BY <1>3
<1> HIDE DEF p, n
<1>7. p \in [1..n -> Range(s)]
  <2>1. \A i \in DOMAIN p : p[i] \in Range(s)
    BY <1>4, <1>6 DEF Range
  <2>2. p = [i \in DOMAIN p |-> p[i]]
    BY <1>3 DEF p
  <2> QED BY <1>5, <1>6, <2>1, <2>2
<1>8. p \in Seq(Range(s)) /\ Len(p) = n
  BY <1>5, <1>7
<1> QED BY <1>4, <1>6, <1>8, SequenceOf DEF p, n

\* One element less, and one more
LEMMA RemoveAtOf ==
    ASSUME NEW s, IsSequence(s), NEW i \in DOMAIN s
    PROVE  /\ IsSequence(RemoveAt(s, i)) /\ Len(RemoveAt(s, i)) = Len(s) - 1
           /\ Len(s) \in Nat /\ DOMAIN s = 1..Len(s) /\ DOMAIN RemoveAt(s, i) = 1..(Len(s) - 1)
           /\ \A k \in 1..(Len(s) - 1) :
                 RemoveAt(s, i)[k] = IF k < i THEN s[k] ELSE s[k + 1]
<1> DEFINE N == Len(s)
           x == SubSeq(s, 1, i - 1)
           y == SubSeq(s, i + 1, N)
           p == RemoveAt(s, i)
<1>1. N \in Nat /\ DOMAIN s = 1..N /\ i \in Nat /\ i >= 1 /\ i <= N
  BY DEF IsSequence
<1>2. 1 \in 1..(N + 1) /\ i - 1 \in 0..N /\ i + 1 \in 1..(N + 1) /\ N \in 0..N
  BY <1>1
<1>3. IsSequence(x) /\ Len(x) = (IF 1 <= i - 1 THEN i - 1 - 1 + 1 ELSE 0)
      /\ \A k \in 1..(i - 1 - 1 + 1) : x[k] = s[1 + k - 1]
  BY <1>2, SubSeqOf
<1>4. IsSequence(y) /\ Len(y) = (IF i + 1 <= N THEN N - (i + 1) + 1 ELSE 0)
      /\ \A k \in 1..(N - (i + 1) + 1) : y[k] = s[(i + 1) + k - 1]
  BY <1>2, SubSeqOf
<1>5. p = x \o y
  BY DEF RemoveAt
<1> HIDE DEF x, y, p, N
<1>6. Len(x) = i - 1 /\ \A k \in 1..(i - 1) : x[k] = s[k]
  BY <1>1, <1>3
<1>7. Len(y) = N - i /\ \A k \in 1..(N - i) : y[k] = s[i + k]
  BY <1>1, <1>4
<1>8. IsSequence(p) /\ Len(p) = N - 1 /\ DOMAIN p = 1..(N - 1)
      /\ \A k \in 1..(N - 1) : IF k < i THEN p[k] = x[k] ELSE p[k] = y[k - (i - 1)]
  <2>1. /\ IsSequence(p) /\ Len(p) = Len(x) + Len(y) /\ DOMAIN p = 1..(Len(x) + Len(y))
        /\ DOMAIN x = 1..Len(x) /\ DOMAIN y = 1..Len(y)
        /\ \A k \in DOMAIN x : k \in DOMAIN p /\ p[k] = x[k]
        /\ \A k \in DOMAIN p : \/ k \in DOMAIN x /\ p[k] = x[k]
                               \/ k > Len(x) /\ k - Len(x) \in DOMAIN y /\ p[k] = y[k - Len(x)]
    <3>1. IsSequence(x) /\ IsSequence(y)
      BY <1>3, <1>4
    <3> QED BY <1>5, <3>1, Joined
  <2>2. Len(p) = N - 1 /\ DOMAIN p = 1..(N - 1)
    BY <1>1, <1>6, <1>7, <2>1
  <2>3. ASSUME NEW k \in 1..(N - 1)
        PROVE  IF k < i THEN p[k] = x[k] ELSE p[k] = y[k - (i - 1)]
    <3>1. k \in DOMAIN x <=> k < i
      BY <1>1, <1>6, <2>1
    <3>2. k \in DOMAIN p
      BY <2>2
    <3> QED BY <1>6, <2>1, <3>1, <3>2
  <2> QED BY <2>1, <2>2, <2>3
<1>9. \A k \in 1..(N - 1) : p[k] = IF k < i THEN s[k] ELSE s[k + 1]
  <2> SUFFICES ASSUME NEW k \in 1..(N - 1)
               PROVE  p[k] = IF k < i THEN s[k] ELSE s[k + 1]
    OBVIOUS
  <2>1. CASE k < i
    <3>1. k \in 1..(i - 1)
      BY <1>1, <2>1
    <3> QED BY <1>6, <1>8, <2>1, <3>1
  <2>2. CASE ~(k < i)
    <3>1. k - (i - 1) \in 1..(N - i) /\ i + (k - (i - 1)) = k + 1
      BY <1>1, <2>2
    <3> QED BY <1>7, <1>8, <2>2, <3>1
  <2> QED BY <2>1, <2>2
<1> QED BY <1>1, <1>8, <1>9 DEF p, N

LEMMA InsertAtOf ==
    ASSUME NEW s, IsSequence(s), NEW i \in 1..(Len(s) + 1), NEW e
    PROVE  /\ IsSequence(InsertAt(s, i, e)) /\ Len(InsertAt(s, i, e)) = Len(s) + 1
           /\ Len(s) \in Nat /\ DOMAIN s = 1..Len(s) /\ DOMAIN InsertAt(s, i, e) = 1..(Len(s) + 1)
           /\ \A k \in 1..(Len(s) + 1) :
                 InsertAt(s, i, e)[k] = IF k < i THEN s[k] ELSE IF k = i THEN e ELSE s[k - 1]
<1> DEFINE N == Len(s)
           x == SubSeq(s, 1, i - 1)
           y == SubSeq(s, i, N)
           m == Append(x, e)
           p == InsertAt(s, i, e)
<1>1. N \in Nat /\ DOMAIN s = 1..N /\ i \in Nat /\ i >= 1 /\ i <= N + 1
  BY DEF IsSequence
<1>2. 1 \in 1..(N + 1) /\ i - 1 \in 0..N /\ i \in 1..(N + 1) /\ N \in 0..N
  BY <1>1
<1>3. IsSequence(x) /\ Len(x) = (IF 1 <= i - 1 THEN i - 1 - 1 + 1 ELSE 0)
      /\ \A k \in 1..(i - 1 - 1 + 1) : x[k] = s[1 + k - 1]
  BY <1>2, SubSeqOf
<1>4. IsSequence(y) /\ Len(y) = (IF i <= N THEN N - i + 1 ELSE 0)
      /\ \A k \in 1..(N - i + 1) : y[k] = s[i + k - 1]
  BY <1>2, SubSeqOf
<1>5. p = (x \o <<e>>) \o y
  BY DEF InsertAt
<1>6. IsSequence(x \o <<e>>) /\ Len(x \o <<e>>) = Len(x) + 1 /\ Len(x) \in Nat
      /\ \A k \in 1..Len(x) : (x \o <<e>>)[k] = x[k]
      /\ (x \o <<e>>)[Len(x) + 1] = e
  <2>1. IsSequence(<<e>>) /\ DOMAIN <<e>> = {1} /\ <<e>>[1] = e /\ Len(<<e>>) = 1
    BY OneElement
  <2>2. IsSequence(x)
    BY <1>3
  <2> HIDE DEF x
  <2>3. /\ IsSequence(x \o <<e>>) /\ Len(x \o <<e>>) = Len(x) + Len(<<e>>)
        /\ Len(x) \in Nat /\ DOMAIN x = 1..Len(x)
        /\ \A k \in DOMAIN x : (x \o <<e>>)[k] = x[k]
        /\ \A k \in DOMAIN <<e>> : (x \o <<e>>)[Len(x) + k] = <<e>>[k]
    BY <2>1, <2>2, Joined
  <2> QED BY <2>1, <2>3
<1> DEFINE z == x \o <<e>>
<1>7. p = z \o y /\ IsSequence(z)
  BY <1>5, <1>6
<1>8. Len(x) = i - 1 /\ \A k \in 1..(i - 1) : x[k] = s[k]
  BY <1>1, <1>3
<1>9. Len(z) = i /\ z[i] = e /\ \A k \in 1..(i - 1) : z[k] = s[k]
  <2> HIDE DEF x
  <2> QED BY <1>1, <1>6, <1>8
<1>10. Len(y) = N - i + 1 /\ \A k \in 1..(N - i + 1) : y[k] = s[i + k - 1]
  BY <1>1, <1>4
<1> HIDE DEF x, y, z, p, N
<1>11. IsSequence(p) /\ Len(p) = N + 1 /\ DOMAIN p = 1..(N + 1)
      /\ \A k \in 1..(N + 1) : IF k <= i THEN p[k] = z[k] ELSE p[k] = y[k - i]
  <2>1. /\ IsSequence(p) /\ Len(p) = Len(z) + Len(y) /\ DOMAIN p = 1..(Len(z) + Len(y))
        /\ DOMAIN z = 1..Len(z) /\ DOMAIN y = 1..Len(y)
        /\ \A k \in DOMAIN z : k \in DOMAIN p /\ p[k] = z[k]
        /\ \A k \in DOMAIN p : \/ k \in DOMAIN z /\ p[k] = z[k]
                               \/ k > Len(z) /\ k - Len(z) \in DOMAIN y /\ p[k] = y[k - Len(z)]
    <3>1. IsSequence(z) /\ IsSequence(y)
      BY <1>4, <1>7
    <3> QED BY <1>7, <3>1, Joined
  <2>2. Len(p) = N + 1 /\ DOMAIN p = 1..(N + 1)
    BY <1>1, <1>9, <1>10, <2>1
  <2>3. \A k \in 1..(N + 1) : IF k <= i THEN p[k] = z[k] ELSE p[k] = y[k - i]
    <3> SUFFICES ASSUME NEW k \in 1..(N + 1)
                 PROVE  IF k <= i THEN p[k] = z[k] ELSE p[k] = y[k - i]
      OBVIOUS
    <3>1. k \in 1..Len(p) /\ (k <= i <=> k \in 1..Len(z)) /\ (~(k <= i) <=> k > Len(z)) /\ Len(z) = i
      BY <1>1, <1>9, <2>2
    <3> QED BY <2>1, <3>1
  <2>4. IsSequence(p)
    BY <2>1
  <2> QED BY <2>2, <2>3, <2>4
<1>12. \A k \in 1..(N + 1) : p[k] = IF k < i THEN s[k] ELSE IF k = i THEN e ELSE s[k - 1]
  <2> SUFFICES ASSUME NEW k \in 1..(N + 1)
               PROVE  p[k] = IF k < i THEN s[k] ELSE IF k = i THEN e ELSE s[k - 1]
    OBVIOUS
  <2>1. CASE k < i
    <3>1. k \in 1..(i - 1) /\ k <= i
      BY <1>1, <2>1
    <3> QED BY <1>9, <1>11, <2>1, <3>1
  <2>2. CASE k = i
    <3>1. k <= i /\ ~(k < i)
      BY <1>1, <2>2
    <3> QED BY <1>9, <1>11, <2>2, <3>1
  <2>3. CASE k > i
    <3>1. k - i \in 1..(N - i + 1) /\ i + (k - i) - 1 = k - 1 /\ ~(k <= i) /\ ~(k < i) /\ k # i
      BY <1>1, <2>3
    <3> QED BY <1>10, <1>11, <3>1
  <2> QED BY <1>1, <2>1, <2>2, <2>3
<1> QED BY <1>1, <1>11, <1>12 DEF p, N

LEMMA LeastOf ==
    ASSUME NEW S, S \subseteq Nat, S # {}, IsFiniteSet(S)
    PROVE  Min(S) \in S /\ \A x \in S : Min(S) <= x
<1> DEFINE L == NewestFirst(S)
<1>1. Lists(L, S) /\ Len(L) = Cardinality(S)
  BY NewestFirstOf
<1> HIDE DEF L
<1>2. IsSequence(L) /\ Len(L) \in Nat /\ DOMAIN L = 1..Len(L) /\ Range(L) = S /\ Descending(L)
  BY <1>1 DEF Lists, IsSequence
<1>3. DOMAIN L # {}
  BY <1>2 DEF Range
<1>4. Len(L) \in DOMAIN L /\ \A i \in DOMAIN L : i = Len(L) \/ i < Len(L)
  BY <1>2, <1>3
<1>5. L[Len(L)] \in S /\ \A x \in S : L[Len(L)] <= x
  <2>1. ASSUME NEW x \in S
        PROVE  L[Len(L)] <= x
    <3>1. PICK i \in DOMAIN L : L[i] = x
      BY <1>2 DEF Range
    <3>2. L[i] = L[Len(L)] \/ L[i] > L[Len(L)]
      BY <1>2, <1>4 DEF Descending
    <3>3. L[Len(L)] \in Nat /\ L[i] \in Nat
      BY <1>2, <1>4 DEF Range
    <3> QED BY <3>1, <3>2, <3>3
  <2> QED BY <1>2, <1>4, <2>1 DEF Range
<1>6. \E x \in S : \A y \in S : x <= y
  BY <1>5
<1> QED BY <1>6 DEF Min

LEMMA GreatestOf ==
    ASSUME NEW m \in Nat
    PROVE  Max((1..m) \cup {0}) = m
<1> DEFINE S == (1..m) \cup {0}
<1>1. m \in S /\ \A y \in S : m >= y /\ y \in Nat
  OBVIOUS
<1> HIDE DEF S
<1>2. \A x \in S : (\A y \in S : x >= y) => x = m
  BY <1>1
<1> QED BY <1>1, <1>2 DEF Max, S

-----------------------------------------------------------------------------
(* The list of messages.                                                   *)

LEMMA InsertedOf ==
    ASSUME IsSequence(messageList), Range(messageList) \subseteq Nat, NEW t \in Nat
    PROVE  /\ IsSequence(Inserted(t)) /\ Range(Inserted(t)) = Range(messageList) \cup {t}
           /\ Descending(messageList) /\ t \notin Range(messageList) => Descending(Inserted(t))
<1> DEFINE N == Len(messageList)
           S == {i \in DOMAIN messageList : messageList[i] < t} \cup {N + 1}
           m == Min(S)
           p == InsertAt(messageList, m, t)
<1>1. N \in Nat /\ DOMAIN messageList = 1..N /\ \A i \in 1..N : messageList[i] \in Nat
  BY DEF IsSequence, Range
<1>2. S \subseteq 1..(N + 1) /\ S # {}
  BY <1>1
<1>3. IsFiniteSet(S)
  <2>1. 1 \in Int /\ N + 1 \in Int /\ S \in SUBSET (1..(N + 1))
    BY <1>1, <1>2
  <2> HIDE DEF S, N
  <2> QED BY <2>1, FS_Interval, FS_Subset
<1>4. m \in S /\ \A x \in S : m <= x
  <2>1. S \subseteq Nat
    BY <1>1, <1>2
  <2> HIDE DEF S
  <2> QED BY <1>2, <1>3, <2>1, LeastOf
<1>5. Inserted(t) = p
  BY DEF Inserted
<1>6. /\ m \in 1..(N + 1)
      /\ \A i \in 1..N : i < m => messageList[i] >= t
      /\ m \in 1..N => messageList[m] < t
  <2>1. m \in 1..(N + 1)
    BY <1>2, <1>4
  <2>2. m \in 1..N => messageList[m] < t
    BY <1>1, <1>4
  <2>3. ASSUME NEW i \in 1..N, i < m
        PROVE  messageList[i] >= t
    <3>1. i \notin S
      <4>1. i \in S => m <= i
        BY <1>4
      <4>2. ~(m <= i)
        <5> HIDE DEF m
        <5> QED BY <1>1, <2>1, <2>3
      <4> QED BY <4>1, <4>2
    <3> QED BY <1>1, <3>1
  <2> QED BY <2>1, <2>2, <2>3
<1> HIDE DEF m, p, S
<1>7. /\ IsSequence(p) /\ Len(p) = N + 1 /\ DOMAIN p = 1..(N + 1)
      /\ \A k \in 1..(N + 1) : p[k] = IF k < m THEN messageList[k] ELSE IF k = m THEN t ELSE messageList[k - 1]
  BY <1>6, InsertAtOf DEF p
<1> HIDE DEF N
<1>8. Range(p) = Range(messageList) \cup {t}
  <2>1. ASSUME NEW k \in 1..(N + 1)
        PROVE  p[k] \in Range(messageList) \cup {t}
    <3>1. k < m => k \in 1..N
      BY <1>1, <1>6
    <3>2. k > m => k - 1 \in 1..N
      BY <1>1, <1>6
    <3>3. k < m \/ k = m \/ (k > m /\ ~(k < m) /\ k # m)
      BY <1>1, <1>6
    <3> QED BY <1>1, <1>7, <3>1, <3>2, <3>3 DEF Range
  <2>2. m \in 1..(N + 1) /\ p[m] = t
    <3>1. ~(m < m)
      BY <1>1, <1>6
    <3> QED BY <1>6, <1>7, <3>1
  <2>3. ASSUME NEW i \in 1..N
        PROVE  \E k \in 1..(N + 1) : p[k] = messageList[i]
    <3>1. CASE i < m
      BY <1>1, <1>7, <3>1
    <3>2. CASE ~(i < m)
      <4>1. i + 1 \in 1..(N + 1) /\ ~(i + 1 < m) /\ i + 1 # m /\ (i + 1) - 1 = i
        BY <1>1, <1>6, <3>2
      <4> QED BY <1>7, <4>1
    <3> QED BY <3>1, <3>2
  <2> QED BY <1>1, <1>7, <2>1, <2>2, <2>3 DEF Range
<1>9. ASSUME Descending(messageList), t \notin Range(messageList)
      PROVE  Descending(p)
  <2> SUFFICES ASSUME NEW i \in 1..(N + 1), NEW k \in 1..(N + 1), i < k
               PROVE  p[i] > p[k]
    BY <1>7 DEF Descending
  <2>1. \A j, l \in 1..N : j < l => messageList[j] > messageList[l]
    BY <1>1, <1>9 DEF Descending
  <2>2. \A j \in 1..N : j < m => messageList[j] > t
    <3>1. \A j \in 1..N : messageList[j] # t
      BY <1>1, <1>9 DEF Range
    <3> QED BY <1>1, <1>6, <3>1
  <2>3. \A j \in 1..N : j >= m => messageList[j] < t
    <3> SUFFICES ASSUME NEW j \in 1..N, j >= m
                 PROVE  messageList[j] < t
      OBVIOUS
    <3>1. m \in 1..N /\ messageList[m] < t
      BY <1>1, <1>6
    <3>2. j = m \/ messageList[m] > messageList[j]
      BY <1>1, <1>6, <2>1, <3>1
    <3> QED BY <1>1, <3>1, <3>2
  <2>4. CASE k < m
    <3>1. i \in 1..N /\ k \in 1..N /\ i < m
      BY <1>1, <1>6, <2>4
    <3> QED BY <1>7, <2>1, <2>4, <3>1
  <2>5. CASE k = m
    <3>1. i \in 1..N /\ i < m /\ ~(k < m)
      BY <1>1, <1>6, <2>5
    <3> QED BY <1>7, <2>2, <2>5, <3>1
  <2>6. CASE k > m /\ i < m
    <3>1. i \in 1..N /\ k - 1 \in 1..N /\ i < k - 1 /\ ~(k < m) /\ k # m
      BY <1>1, <1>6, <2>6
    <3> QED BY <1>7, <2>1, <2>6, <3>1
  <2>7. CASE k > m /\ i = m
    <3>1. k - 1 \in 1..N /\ k - 1 >= m /\ ~(k < m) /\ k # m /\ ~(i < m)
      BY <1>1, <1>6, <2>7
    <3>2. p[k] = messageList[k - 1] /\ p[i] = t /\ messageList[k - 1] < t
      BY <1>7, <2>3, <2>7, <3>1
    <3> QED BY <1>1, <3>1, <3>2
  <2>8. CASE k > m /\ i > m
    <3>1. i - 1 \in 1..N /\ k - 1 \in 1..N /\ i - 1 < k - 1 /\ ~(k < m) /\ k # m /\ ~(i < m) /\ i # m
      BY <1>1, <1>6, <2>8
    <3> QED BY <1>7, <2>1, <2>8, <3>1
  <2> QED BY <1>1, <1>6, <2>4, <2>5, <2>6, <2>7, <2>8
<1> QED BY <1>5, <1>7, <1>8, <1>9

LEMMA RemovedOf ==
    ASSUME NEW s, IsSequence(s), NEW i \in DOMAIN s
    PROVE  /\ IsSequence(RemoveAt(s, i)) /\ Range(RemoveAt(s, i)) \subseteq Range(s)
           /\ Range(s) \subseteq Range(RemoveAt(s, i)) \cup {s[i]}
           /\ Range(s) \subseteq Nat /\ Descending(s) =>
                 Descending(RemoveAt(s, i)) /\ Range(RemoveAt(s, i)) = Range(s) \ {s[i]}
<1> DEFINE N == Len(s)
           p == RemoveAt(s, i)
<1>1. /\ IsSequence(p) /\ N \in Nat /\ DOMAIN s = 1..N /\ DOMAIN p = 1..(N - 1)
      /\ \A k \in 1..(N - 1) : p[k] = IF k < i THEN s[k] ELSE s[k + 1]
  BY RemoveAtOf
<1> HIDE DEF p, N
<1>2. \A k \in 1..(N - 1) : k \in 1..N /\ k + 1 \in 1..N /\ (k < i => p[k] = s[k]) /\ (~(k < i) => p[k] = s[k + 1])
  BY <1>1
<1>3. Range(p) \subseteq Range(s)
  BY <1>1, <1>2 DEF Range
<1>4. \A k \in 1..N : k # i => \E l \in 1..(N - 1) : p[l] = s[k]
  <2> SUFFICES ASSUME NEW k \in 1..N, k # i
               PROVE  \E l \in 1..(N - 1) : p[l] = s[k]
    OBVIOUS
  <2>1. CASE k < i
    <3>1. k \in 1..(N - 1)
      BY <1>1, <2>1
    <3> QED BY <1>2, <2>1, <3>1
  <2>2. CASE ~(k < i)
    <3>1. k - 1 \in 1..(N - 1) /\ ~(k - 1 < i) /\ (k - 1) + 1 = k
      BY <1>1, <2>2
    <3> QED BY <1>2, <3>1
  <2> QED BY <2>1, <2>2
<1>5. Range(s) \subseteq Range(p) \cup {s[i]}
  BY <1>1, <1>4 DEF Range
<1>6. ASSUME Range(s) \subseteq Nat, Descending(s)
      PROVE  Descending(p) /\ Range(p) = Range(s) \ {s[i]}
  <2>1. \A k, l \in 1..N : k < l => s[k] > s[l]
    BY <1>1, <1>6 DEF Descending
  <2>2. \A k \in 1..N : s[k] \in Nat
    BY <1>1, <1>6 DEF Range
  <2>3. \A k \in 1..(N - 1) : p[k] # s[i]
    <3> SUFFICES ASSUME NEW k \in 1..(N - 1)
                 PROVE  p[k] # s[i]
      OBVIOUS
    <3>1. k \in 1..N /\ k + 1 \in 1..N
      BY <1>2
    <3>2. CASE k < i
      BY <1>1, <1>2, <2>1, <2>2, <3>1, <3>2
    <3>3. CASE ~(k < i)
      <4>1. i < k + 1
        BY <1>1, <3>1, <3>3
      <4>2. s[i] > s[k + 1] /\ p[k] = s[k + 1] /\ s[i] \in Nat /\ s[k + 1] \in Nat
        BY <1>1, <1>2, <2>1, <2>2, <3>1, <3>3, <4>1
      <4> QED BY <4>2
    <3> QED BY <3>2, <3>3
  <2>4. Descending(p)
    <3> SUFFICES ASSUME NEW k \in 1..(N - 1), NEW l \in 1..(N - 1), k < l
                 PROVE  p[k] > p[l]
      BY <1>1 DEF Descending
    <3>1. k \in 1..N /\ l \in 1..N /\ k + 1 \in 1..N /\ l + 1 \in 1..N
          /\ k < l /\ k < l + 1 /\ k + 1 < l + 1
      BY <1>1, <1>2
    <3>2. CASE l < i
      <4>1. k < i
        BY <1>1, <3>1, <3>2
      <4> QED BY <1>2, <2>1, <3>1, <3>2, <4>1
    <3>3. CASE ~(l < i)
      BY <1>2, <2>1, <3>1, <3>3
    <3> QED BY <3>2, <3>3
  <2>5. s[i] \notin Range(p)
    BY <1>1, <2>3 DEF Range
  <2> QED BY <1>3, <1>5, <2>4, <2>5
<1> QED BY <1>1, <1>3, <1>5, <1>6 DEF p

-----------------------------------------------------------------------------
(* The messages of a chat (MessageList).                                   *)

Modes == {"page", "unread", "id", "string"}
ListJobs ==
    [op : {"fetch"}, mode : Modes, from : Nat, time : Nat] \cup [op : {"add", "remove"}, time : Nat]

TimesOf(s, op) == {s[i].time : i \in {k \in DOMAIN s : s[k].op = op}}
AddedTimes(r) == TimesOf(r, "added")
AddTimes(q) == TimesOf(q, "add")
RemoveTimes(q) == TimesOf(q, "remove")
PageTimes(r) == UNION {Range(r[i].page) : i \in {k \in DOMAIN r : r[k].op # "added"}}

AResult(r, times) ==
    \/ \E t \in times : r = [op |-> "added", time |-> t]
    \/ \E mode \in Modes : \E page : r = [op |-> mode, page |-> page]
                                 /\ IsSequence(page) /\ Range(page) \subseteq times

ListTypes ==
    /\ \E m \in Nat : archive = 1..m
    /\ storedMessages \subseteq archive /\ removedMessages \subseteq storedMessages
    /\ IsSequence(messageList) /\ Range(messageList) \subseteq storedMessages
    /\ fetched \in [db : BOOLEAN, mam : BOOLEAN, loading : BOOLEAN]
    /\ retrieval \in [running : {"no", "yes", "lost"}, before : Nat] /\ mixed \in BOOLEAN
    /\ IsSequence(jobs) /\ \A i \in DOMAIN jobs : jobs[i] \in ListJobs
    /\ IsSequence(results) /\ \A i \in DOMAIN results : AResult(results[i], storedMessages)

\* What is stored or is going to be are the newest messages of the archive.
Kept == storedMessages \cup AddTimes(jobs)
ArchiveInv ==
    /\ Kept \subseteq archive /\ RemoveTimes(jobs) \subseteq storedMessages
    /\ retrieval.before \in storedMessages \cup {0}
    /\ \A t \in Kept, u \in archive : u > t => u \in Kept
    /\ fetched.mam => archive \subseteq Kept
    /\ fetched.loading <=> retrieval.running = "yes"

\* A list of messages, the newest one first

\* Those of S are the newest ones of T.
Newest(S, T) == S \subseteq T /\ \A s \in S, t \in T : t > s => t \in S

\* Results that are not handled yet
ResultsInv ==
    /\ \A i \in DOMAIN results : results[i].op # "added" => i = 1
    /\ \A i, k \in DOMAIN results : results[i].op = "added" /\ results[k].op = "added" /\ i # k =>
          results[i].time # results[k].time
    /\ \A i \in DOMAIN results : results[i].op # "added" => Descending(results[i].page)
    /\ AddedTimes(results) \cap PageTimes(results) = {}
    /\ Range(messageList) \cap (AddedTimes(results) \cup PageTimes(results)) = {}
    /\ \A t \in Range(messageList), u \in PageTimes(results) : t > u

Seen == storedMessages \ removedMessages
Loaded == Range(messageList) \cup AddedTimes(results) \cup PageTimes(results)
\* What is loaded are the newest ones of the messages that are not going to be removed.
LoadedInv ==
    /\ Descending(messageList)
    /\ Newest(Loaded, Seen \ RemoveTimes(jobs))
    /\ fetched.db => Loaded = Seen \ RemoveTimes(jobs)
    /\ \A i \in DOMAIN results :
          results[i].op # "added" /\ Len(results[i].page) < DbLimit
             /\ ~(results[i].op = "id" /\ results[i].page = <<>>) =>
          Loaded = Seen \ RemoveTimes(jobs)

\* At most one page is asked for.  Its offset is the number of messages that were loaded then.
QueryInv ==
    /\ \A i \in DOMAIN jobs : jobs[i].op = "fetch" =>
          /\ i = 1 /\ results = <<>>
          /\ Newest(Range(messageList) \cup RemoveTimes(jobs), Seen)
          /\ jobs[i].from = Cardinality(Range(messageList) \cup RemoveTimes(jobs))
          /\ jobs[i].mode = "string" =>
                jobs[i].time \in Seen \ (Range(messageList) \cup RemoveTimes(jobs))
          /\ jobs[i].mode = "unread" => jobs[i].from = 0
    /\ ~fetched.db =>
          /\ retrieval.running = "no"
          /\ \A i \in DOMAIN jobs : jobs[i].op = "add" =>
                /\ \A t \in storedMessages : jobs[i].time > t
                /\ \A k \in DOMAIN jobs : jobs[k].op = "add" /\ k < i => jobs[i].time > jobs[k].time

OrderInv == ResultsInv /\ LoadedInv /\ QueryInv

\* Those of S are the newest ones of T.
LEMMA NewestList ==
    ASSUME NEW S, NEW T, T \subseteq Nat, IsFiniteSet(T), Newest(S, T)
    PROVE  /\ IsFiniteSet(S) /\ Cardinality(S) \in Nat /\ Cardinality(T) \in Nat
           /\ Cardinality(S) <= Cardinality(T)
           /\ NewestFirst(T) = NewestFirst(S) \o NewestFirst(T \ S)
           /\ Len(NewestFirst(S)) = Cardinality(S) /\ Len(NewestFirst(T)) = Cardinality(T)
           /\ Lists(NewestFirst(S), S) /\ Lists(NewestFirst(T \ S), T \ S)
<1>1. S \in SUBSET T /\ T \ S \in SUBSET T /\ S \subseteq Nat /\ T \ S \subseteq Nat
  BY DEF Newest
<1>2. IsFiniteSet(S) /\ IsFiniteSet(T \ S) /\ Cardinality(S) <= Cardinality(T)
  BY <1>1, FS_Subset
<1>3. Cardinality(S) \in Nat /\ Cardinality(T) \in Nat
  BY <1>2, FS_CardinalityType
<1>4. /\ Lists(NewestFirst(S), S) /\ Len(NewestFirst(S)) = Cardinality(S)
      /\ Lists(NewestFirst(T \ S), T \ S)
      /\ Lists(NewestFirst(T), T) /\ Len(NewestFirst(T)) = Cardinality(T)
  BY <1>1, <1>2, NewestFirstOf
<1>5. \A x \in S, y \in T \ S : x > y
  <2> SUFFICES ASSUME NEW x \in S, NEW y \in T \ S
               PROVE  x > y
    OBVIOUS
  <2>1. x \in Nat /\ y \in Nat /\ ~(y > x) /\ y # x
    BY <1>1 DEF Newest
  <2> QED BY <2>1
<1> DEFINE a == NewestFirst(S)
           b == NewestFirst(T \ S)
<1>6. Lists(a, S) /\ Lists(b, T \ S)
  BY <1>4
<1> HIDE DEF a, b
<1>7. Lists(a \o b, S \cup (T \ S))
  BY <1>1, <1>5, <1>6, ListsJoined
<1>8. S \cup (T \ S) = T
  BY <1>1
<1>9. a \o b = NewestFirst(T)
  BY <1>7, <1>8, ListIs
<1> QED BY <1>2, <1>3, <1>4, <1>9 DEF a, b

\* A page that begins after the newest messages has the ones that follow.
LEMMA PageOfNewest ==
    ASSUME NEW S, Seen \subseteq Nat, IsFiniteSet(Seen), Newest(S, Seen), NEW count \in Nat
    PROVE  LET page == PageOf(Cardinality(S), count) IN
           /\ IsSequence(page) /\ Descending(page)
           /\ Range(page) \subseteq Seen \ S /\ Newest(S \cup Range(page), Seen)
           /\ Len(page) < count => S \cup Range(page) = Seen
<1> DEFINE c == Cardinality(S)
           M == NewestFirst(Seen)
           a == NewestFirst(S)
           b == NewestFirst(Seen \ S)
           page == PageOf(c, count)
           e == Min({c + count, Len(M)})
<1>1. /\ c \in Nat /\ c <= Cardinality(Seen) /\ Cardinality(Seen) \in Nat /\ M = a \o b
      /\ Len(a) = c /\ Len(M) = Cardinality(Seen)
      /\ Lists(a, S) /\ Lists(b, Seen \ S)
  BY NewestList
<1>2. Lists(M, Seen)
  BY NewestFirstOf
<1>3. M = ChatMessages
  BY DEF ChatMessages, Seen
<1>4. page = SubSeq(M, c + 1, e)
  BY <1>3 DEF PageOf
<1> HIDE DEF M, a, b, c, page
<1>5. e = IF c + count <= Len(M) THEN c + count ELSE Len(M)
  <2> DEFINE x == IF c + count <= Len(M) THEN c + count ELSE Len(M)
             P == {c + count, Len(M)}
  <2>1. x \in P /\ \A y \in P : x <= y /\ y \in Nat
    BY <1>1
  <2> HIDE DEF x, P
  <2>2. \A z \in P : (\A y \in P : z <= y) => z = x
    BY <2>1
  <2> QED BY <2>1, <2>2 DEF Min, x, P
<1> HIDE DEF e
<1>6. /\ IsSequence(M) /\ DOMAIN M = 1..Len(M) /\ Len(M) \in Nat
      /\ c + 1 \in 1..(Len(M) + 1) /\ e \in 0..Len(M) /\ e >= c
  BY <1>1, <1>2, <1>5 DEF Lists, IsSequence
<1>7. /\ IsSequence(page) /\ Len(page) = (IF c + 1 <= e THEN e - (c + 1) + 1 ELSE 0)
      /\ DOMAIN page = 1..(e - (c + 1) + 1)
      /\ \A i \in 1..(e - (c + 1) + 1) :
            c + 1 + i - 1 \in DOMAIN M /\ page[i] = M[c + 1 + i - 1]
  BY <1>4, <1>6, SubSeqOf
<1>8. Len(page) = e - c /\ DOMAIN page = 1..(e - c)
      /\ \A i \in 1..(e - c) : c + i \in DOMAIN M /\ page[i] = M[c + i]
  <2>1. e - (c + 1) + 1 = e - c /\ \A i \in 1..(e - c) : c + 1 + i - 1 = c + i
    BY <1>1, <1>6
  <2>2. Len(page) = e - c
    BY <1>1, <1>6, <1>7
  <2>3. DOMAIN page = 1..(e - c)
    BY <1>7, <2>1
  <2>4. ASSUME NEW i \in 1..(e - c)
        PROVE  c + i \in DOMAIN M /\ page[i] = M[c + i]
    BY <1>7, <2>1
  <2> QED BY <2>2, <2>3, <2>4
<1>9. S = {M[i] : i \in 1..c} /\ \A i \in 1..c : i \in DOMAIN M
  <2>1. IsSequence(a) /\ IsSequence(b) /\ Range(a) = S /\ DOMAIN a = 1..Len(a)
    BY <1>1 DEF Lists, IsSequence
  <2>2. \A i \in DOMAIN a : i \in DOMAIN (a \o b) /\ (a \o b)[i] = a[i]
    BY <2>1, Joined
  <2>3. \A i \in 1..c : i \in DOMAIN M /\ M[i] = a[i]
    BY <1>1, <2>1, <2>2
  <2> QED BY <1>1, <2>1, <2>3 DEF Range
<1>10. \A i, k \in DOMAIN M : i < k => M[i] > M[k]
  BY <1>2 DEF Lists, Descending
<1>11. \A i \in DOMAIN M : M[i] \in Seen /\ M[i] \in Nat
  BY <1>2 DEF Lists, Range
<1>12. \A t \in Seen : \E i \in DOMAIN M : M[i] = t
  BY <1>2 DEF Lists, Range
<1>13. Range(page) = {M[i] : i \in (c + 1)..e}
  <2>1. \A i \in (c + 1)..e : i - c \in 1..(e - c) /\ c + (i - c) = i
    BY <1>1, <1>6
  <2>2. \A i \in 1..(e - c) : c + i \in (c + 1)..e
    BY <1>1, <1>6
  <2>3. Range(page) = {page[i] : i \in 1..(e - c)}
    BY <1>8 DEF Range
  <2>4. \A i \in (c + 1)..e : M[i] = page[i - c]
    BY <1>8, <2>1
  <2> QED BY <1>8, <2>1, <2>2, <2>3, <2>4
<1>14. S \cup Range(page) = {M[i] : i \in 1..e} /\ \A i \in 1..e : i \in DOMAIN M
  <2>1. \A i : i \in 1..e <=> i \in 1..c \/ i \in (c + 1)..e
    BY <1>1, <1>6
  <2>2. \A i \in 1..e : i \in DOMAIN M
    BY <1>6
  <2> QED BY <1>9, <1>13, <2>1, <2>2
<1>15. Descending(page)
  <2> SUFFICES ASSUME NEW i \in 1..(e - c), NEW k \in 1..(e - c), i < k
               PROVE  page[i] > page[k]
    BY <1>8 DEF Descending
  <2>1. c + i < c + k
    BY <1>1, <1>6
  <2> QED BY <1>8, <1>10, <2>1
<1>16. Range(page) \subseteq Seen \ S
  <2> SUFFICES ASSUME NEW i \in (c + 1)..e
               PROVE  M[i] \in Seen /\ M[i] \notin S
    BY <1>13
  <2>1. i \in DOMAIN M
    BY <1>1, <1>6
  <2>2. ASSUME NEW k \in 1..c
        PROVE  M[k] # M[i]
    <3>1. k < i /\ k \in DOMAIN M
      BY <1>1, <1>6, <1>9
    <3>2. M[k] > M[i] /\ M[k] \in Nat /\ M[i] \in Nat
      BY <1>10, <1>11, <2>1, <3>1
    <3> QED BY <3>2
  <2> QED BY <1>9, <1>11, <2>1, <2>2
<1>17. Newest(S \cup Range(page), Seen)
  <2>1. ASSUME NEW i \in 1..e, NEW t \in Seen, t > M[i]
        PROVE  t \in {M[k] : k \in 1..e}
    <3>1. PICK k \in DOMAIN M : M[k] = t
      BY <1>12
    <3>2. i \in DOMAIN M /\ M[i] \in Nat /\ M[k] \in Nat
      BY <1>11, <1>14
    <3>3. ~(i < k)
      BY <1>10, <2>1, <3>1, <3>2
    <3>4. k \in 1..e
      BY <1>6, <3>2, <3>3
    <3> QED BY <3>1, <3>4
  <2>2. \A i \in 1..e : M[i] \in Seen
    BY <1>11, <1>14
  <2> QED BY <1>14, <2>1, <2>2 DEF Newest
<1>18. ASSUME Len(page) < count
       PROVE  S \cup Range(page) = Seen
  <2>1. e = Len(M)
    BY <1>1, <1>5, <1>6, <1>8, <1>18
  <2> QED BY <1>6, <1>11, <1>12, <1>14, <2>1
<1> QED BY <1>7, <1>15, <1>16, <1>17, <1>18 DEF page, c

LEMMA TimesAppend ==
    ASSUME NEW s, IsSequence(s), NEW a, NEW op
    PROVE  TimesOf(Append(s, a), op) = TimesOf(s, op) \cup (IF a.op = op THEN {a.time} ELSE {})
<1> DEFINE p == Append(s, a)
<1>1. /\ Len(s) \in Nat /\ DOMAIN s = 1..Len(s) /\ DOMAIN p = 1..(Len(s) + 1) /\ p[Len(s) + 1] = a
      /\ \A i \in DOMAIN s : p[i] = s[i]
  BY AppendOf DEF IsSequence
<1> HIDE DEF p
<1>2. \A i \in DOMAIN p : i \in DOMAIN s \/ i = Len(s) + 1
  BY <1>1
<1>3. \A i \in DOMAIN s : i \in DOMAIN p
  BY <1>1
<1>4. Len(s) + 1 \in DOMAIN p
  BY <1>1
<1>5. TimesOf(p, op) \subseteq TimesOf(s, op) \cup (IF a.op = op THEN {a.time} ELSE {})
  BY <1>1, <1>2 DEF TimesOf
<1>6. TimesOf(s, op) \subseteq TimesOf(p, op)
  BY <1>1, <1>3 DEF TimesOf
<1>7. a.op = op => a.time \in TimesOf(p, op)
  BY <1>1, <1>4 DEF TimesOf
<1> QED BY <1>5, <1>6, <1>7 DEF p

LEMMA TimesTail ==
    ASSUME NEW s, IsSequence(s), s # <<>>, NEW op
    PROVE  TimesOf(s, op) = TimesOf(Tail(s), op) \cup (IF Head(s).op = op THEN {Head(s).time} ELSE {})
<1> DEFINE p == Tail(s)
           h == Head(s)
<1>1. /\ Len(s) \in Nat /\ DOMAIN s = 1..Len(s) /\ 1 \in DOMAIN s /\ h = s[1]
      /\ DOMAIN p = 1..(Len(s) - 1)
      /\ \A i \in 1..(Len(s) - 1) : i + 1 \in DOMAIN s /\ p[i] = s[i + 1]
  <2>1. Len(s) \in Nat /\ DOMAIN s = 1..Len(s)
    BY DEF IsSequence
  <2> QED BY <2>1, TailOf
<1> HIDE DEF p, h
<1>2. \A i \in DOMAIN s : i = 1 \/ (i - 1 \in DOMAIN p /\ p[i - 1] = s[i])
  <2> SUFFICES ASSUME NEW i \in DOMAIN s, i # 1
               PROVE  i - 1 \in DOMAIN p /\ p[i - 1] = s[i]
    OBVIOUS
  <2>1. i - 1 \in 1..(Len(s) - 1) /\ (i - 1) + 1 = i
    BY <1>1
  <2> QED BY <1>1, <2>1
<1>3. TimesOf(s, op) \subseteq TimesOf(p, op) \cup (IF h.op = op THEN {h.time} ELSE {})
  BY <1>1, <1>2 DEF TimesOf
<1>4. TimesOf(p, op) \subseteq TimesOf(s, op)
  BY <1>1 DEF TimesOf
<1>5. h.op = op => h.time \in TimesOf(s, op)
  BY <1>1 DEF TimesOf
<1> QED BY <1>3, <1>4, <1>5 DEF p, h

LEMMA PagesAppend ==
    ASSUME NEW s, IsSequence(s), NEW a
    PROVE  PageTimes(Append(s, a)) = PageTimes(s) \cup (IF a.op # "added" THEN Range(a.page) ELSE {})
<1> DEFINE p == Append(s, a)
<1>1. /\ Len(s) \in Nat /\ DOMAIN s = 1..Len(s) /\ DOMAIN p = 1..(Len(s) + 1) /\ p[Len(s) + 1] = a
      /\ \A i \in DOMAIN s : p[i] = s[i]
  BY AppendOf DEF IsSequence
<1> HIDE DEF p
<1>2. \A i \in DOMAIN p : i \in DOMAIN s \/ i = Len(s) + 1
  BY <1>1
<1>3. \A i \in DOMAIN s : i \in DOMAIN p
  BY <1>1
<1>4. Len(s) + 1 \in DOMAIN p
  BY <1>1
<1>5. PageTimes(p) \subseteq PageTimes(s) \cup (IF a.op # "added" THEN Range(a.page) ELSE {})
  BY <1>1, <1>2 DEF PageTimes
<1>6. PageTimes(s) \subseteq PageTimes(p)
  BY <1>1, <1>3 DEF PageTimes
<1>7. a.op # "added" => Range(a.page) \subseteq PageTimes(p)
  BY <1>1, <1>4 DEF PageTimes
<1> QED BY <1>5, <1>6, <1>7 DEF p

LEMMA PagesTail ==
    ASSUME NEW s, IsSequence(s), s # <<>>
    PROVE  PageTimes(s) = PageTimes(Tail(s)) \cup (IF Head(s).op # "added" THEN Range(Head(s).page) ELSE {})
<1> DEFINE p == Tail(s)
           h == Head(s)
<1>1. /\ Len(s) \in Nat /\ DOMAIN s = 1..Len(s) /\ 1 \in DOMAIN s /\ h = s[1]
      /\ DOMAIN p = 1..(Len(s) - 1)
      /\ \A i \in 1..(Len(s) - 1) : i + 1 \in DOMAIN s /\ p[i] = s[i + 1]
  <2>1. Len(s) \in Nat /\ DOMAIN s = 1..Len(s)
    BY DEF IsSequence
  <2> QED BY <2>1, TailOf
<1> HIDE DEF p, h
<1>2. \A i \in DOMAIN s : i = 1 \/ (i - 1 \in DOMAIN p /\ p[i - 1] = s[i])
  <2> SUFFICES ASSUME NEW i \in DOMAIN s, i # 1
               PROVE  i - 1 \in DOMAIN p /\ p[i - 1] = s[i]
    OBVIOUS
  <2>1. i - 1 \in 1..(Len(s) - 1) /\ (i - 1) + 1 = i
    BY <1>1
  <2> QED BY <1>1, <2>1
<1>3. PageTimes(s) \subseteq PageTimes(p) \cup (IF h.op # "added" THEN Range(h.page) ELSE {})
  BY <1>1, <1>2 DEF PageTimes
<1>4. PageTimes(p) \subseteq PageTimes(s)
  BY <1>1 DEF PageTimes
<1>5. h.op # "added" => Range(h.page) \subseteq PageTimes(s)
  BY <1>1 DEF PageTimes
<1> QED BY <1>3, <1>4, <1>5 DEF p, h

LEMMA NoTimes ==
    ASSUME NEW op
    PROVE  TimesOf(<<>>, op) = {} /\ PageTimes(<<>>) = {}
BY EmptyQueue DEF TimesOf, PageTimes

LEMMA ListJobTyped ==
    ASSUME NEW q \in ListJobs
    PROVE  /\ q.op \in {"fetch", "add", "remove"} /\ q.time \in Nat
           /\ q.op = "fetch" => q.mode \in Modes /\ q.from \in Nat
<1>1. CASE q \in [op : {"fetch"}, mode : Modes, from : Nat, time : Nat]
  BY <1>1
<1>2. CASE q \in [op : {"add", "remove"}, time : Nat]
  BY <1>2
<1> QED BY <1>1, <1>2 DEF ListJobs

LEMMA AResultTyped ==
    ASSUME NEW r, NEW times, AResult(r, times)
    PROVE  /\ r.op = "added" => r.time \in times
           /\ r.op # "added" => r.op \in Modes /\ IsSequence(r.page) /\ Range(r.page) \subseteq times
<1>1. CASE \E t \in times : r = [op |-> "added", time |-> t]
  BY <1>1
<1>2. CASE \E mode \in Modes : \E page : r = [op |-> mode, page |-> page]
                                         /\ IsSequence(page) /\ Range(page) \subseteq times
  <2>1. PICK mode \in Modes : \E page : r = [op |-> mode, page |-> page]
                                         /\ IsSequence(page) /\ Range(page) \subseteq times
    BY <1>2
  <2>2. PICK page : r = [op |-> mode, page |-> page] /\ IsSequence(page) /\ Range(page) \subseteq times
    BY <2>1
  <2>3. r.op = mode /\ r.page = page /\ mode # "added"
    BY <2>1, <2>2 DEF Modes
  <2> QED BY <2>1, <2>2, <2>3
<1> QED BY <1>1, <1>2 DEF AResult

\* More stored messages
LEMMA AResultMore ==
    ASSUME NEW r, NEW times, AResult(r, times), NEW more, times \subseteq more
    PROVE  AResult(r, more)
BY DEF AResult

-----------------------------------------------------------------------------
(* Types, and the part of the archive that is stored.                      *)

ListJobsTyped == IsSequence(jobs) /\ \A i \in DOMAIN jobs : jobs[i] \in ListJobs
ResultsTyped == IsSequence(results) /\ \A i \in DOMAIN results : AResult(results[i], storedMessages)

LEMMA ListFacts ==
    ASSUME ListTypes
    PROVE  /\ ListJobsTyped /\ ResultsTyped
           /\ archive \subseteq Nat /\ IsFiniteSet(archive) /\ \A t \in archive : t > 0
           /\ storedMessages \subseteq Nat /\ IsFiniteSet(storedMessages)
           /\ Seen \subseteq storedMessages /\ IsFiniteSet(Seen)
           /\ Range(messageList) \subseteq Nat
<1>1. PICK m \in Nat : archive = 1..m
  BY DEF ListTypes
<1>2. archive \subseteq Nat /\ IsFiniteSet(archive) /\ \A t \in archive : t > 0
  <2>1. 1 \in Int /\ m \in Int
    BY <1>1
  <2> QED BY <1>1, <2>1, FS_Interval
<1>3. storedMessages \in SUBSET archive /\ Seen \in SUBSET storedMessages
      /\ Range(messageList) \subseteq storedMessages
  BY DEF ListTypes, Seen
<1>4. IsFiniteSet(storedMessages)
  BY <1>2, <1>3, FS_Subset
<1>5. IsFiniteSet(Seen)
  BY <1>3, <1>4, FS_Subset
<1>6. ListJobsTyped /\ ResultsTyped
  BY DEF ListTypes, ListJobsTyped, ResultsTyped
<1> QED BY <1>2, <1>3, <1>4, <1>5, <1>6

LEMMA JobsAppended ==
    ASSUME ListJobsTyped, NEW q \in ListJobs, jobs' = Append(jobs, q)
    PROVE  /\ ListJobsTyped'
           /\ AddTimes(jobs') = AddTimes(jobs) \cup (IF q.op = "add" THEN {q.time} ELSE {})
           /\ RemoveTimes(jobs') = RemoveTimes(jobs) \cup (IF q.op = "remove" THEN {q.time} ELSE {})
           /\ \A i \in DOMAIN jobs : i \in DOMAIN jobs' /\ jobs'[i] = jobs[i] /\ i < Len(jobs) + 1
           /\ \A i \in DOMAIN jobs' : (i \in DOMAIN jobs /\ jobs'[i] = jobs[i]) \/ (i = Len(jobs) + 1 /\ jobs'[i] = q)
           /\ DOMAIN jobs \subseteq Nat /\ Len(jobs) \in Nat
<1>1. IsSequence(jobs) /\ \A i \in DOMAIN jobs : jobs[i] \in ListJobs
  BY DEF ListJobsTyped
<1>2. /\ IsSequence(jobs') /\ Len(jobs) \in Nat /\ DOMAIN jobs = 1..Len(jobs)
      /\ \A i \in DOMAIN jobs : i \in DOMAIN jobs' /\ jobs'[i] = jobs[i] /\ i < Len(jobs) + 1
      /\ \A i \in DOMAIN jobs' : (i \in DOMAIN jobs /\ jobs'[i] = jobs[i]) \/ (i = Len(jobs) + 1 /\ jobs'[i] = q)
  <2>1. Len(jobs) \in Nat /\ DOMAIN jobs = 1..Len(jobs)
    BY <1>1 DEF IsSequence
  <2>2. /\ IsSequence(jobs') /\ DOMAIN jobs' = 1..(Len(jobs) + 1) /\ jobs'[Len(jobs) + 1] = q
        /\ \A i \in DOMAIN jobs : jobs'[i] = jobs[i]
    <3>1. IsSequence(jobs)
      BY <1>1
    <3> QED BY <2>1, <3>1, AppendOf
  <2>3. \A i \in 1..(Len(jobs) + 1) : i \in 1..Len(jobs) \/ i = Len(jobs) + 1
    BY <2>1
  <2>4. \A i \in 1..Len(jobs) : i \in 1..(Len(jobs) + 1) /\ i < Len(jobs) + 1
    BY <2>1
  <2> QED BY <2>1, <2>2, <2>3, <2>4
<1>3. ListJobsTyped'
  BY <1>1, <1>2 DEF ListJobsTyped
<1>4. AddTimes(jobs') = AddTimes(jobs) \cup (IF q.op = "add" THEN {q.time} ELSE {})
  BY <1>1, TimesAppend DEF AddTimes
<1>5. RemoveTimes(jobs') = RemoveTimes(jobs) \cup (IF q.op = "remove" THEN {q.time} ELSE {})
  BY <1>1, TimesAppend DEF RemoveTimes
<1> QED BY <1>2, <1>3, <1>4, <1>5

LEMMA JobsTaken ==
    ASSUME ListJobsTyped, jobs # <<>>, jobs' = Tail(jobs)
    PROVE  /\ ListJobsTyped' /\ Head(jobs) \in ListJobs /\ Head(jobs) = jobs[1] /\ 1 \in DOMAIN jobs
           /\ AddTimes(jobs) = AddTimes(jobs') \cup (IF Head(jobs).op = "add" THEN {Head(jobs).time} ELSE {})
           /\ RemoveTimes(jobs) = RemoveTimes(jobs') \cup (IF Head(jobs).op = "remove" THEN {Head(jobs).time} ELSE {})
           /\ \A i \in DOMAIN jobs' : i + 1 \in DOMAIN jobs /\ jobs'[i] = jobs[i + 1] /\ i + 1 > 1 /\ i \in Nat
<1>1. IsSequence(jobs) /\ \A i \in DOMAIN jobs : jobs[i] \in ListJobs
  BY DEF ListJobsTyped
<1>2. /\ IsSequence(jobs') /\ Head(jobs) = jobs[1] /\ 1 \in DOMAIN jobs
      /\ \A i \in DOMAIN jobs' : i + 1 \in DOMAIN jobs /\ jobs'[i] = jobs[i + 1] /\ i + 1 > 1 /\ i \in Nat
  <2>1. Len(jobs) \in Nat /\ DOMAIN jobs = 1..Len(jobs)
    BY <1>1 DEF IsSequence
  <2>2. /\ IsSequence(jobs') /\ Head(jobs) = jobs[1] /\ 1 \in DOMAIN jobs
        /\ DOMAIN jobs' = 1..(Len(jobs) - 1)
        /\ \A i \in 1..(Len(jobs) - 1) : jobs'[i] = jobs[i + 1]
    <3>1. IsSequence(jobs)
      BY <1>1
    <3> QED BY <2>1, <3>1, TailOf
  <2>3. \A i \in 1..(Len(jobs) - 1) : i + 1 \in 1..Len(jobs) /\ i + 1 > 1 /\ i \in Nat
    BY <2>1
  <2> QED BY <2>1, <2>2, <2>3
<1>3. ListJobsTyped' /\ Head(jobs) \in ListJobs
  BY <1>1, <1>2 DEF ListJobsTyped
<1>4. AddTimes(jobs) = AddTimes(jobs') \cup (IF Head(jobs).op = "add" THEN {Head(jobs).time} ELSE {})
  BY <1>1, TimesTail DEF AddTimes
<1>5. RemoveTimes(jobs) = RemoveTimes(jobs') \cup (IF Head(jobs).op = "remove" THEN {Head(jobs).time} ELSE {})
  BY <1>1, TimesTail DEF RemoveTimes
<1> QED BY <1>2, <1>3, <1>4, <1>5

LEMMA ResultsAppended ==
    ASSUME ResultsTyped, NEW times, storedMessages \subseteq times, NEW r, AResult(r, times),
           results' = Append(results, r), storedMessages' = times
    PROVE  /\ ResultsTyped'
           /\ AddedTimes(results') = AddedTimes(results) \cup (IF r.op = "added" THEN {r.time} ELSE {})
           /\ PageTimes(results') = PageTimes(results) \cup (IF r.op # "added" THEN Range(r.page) ELSE {})
           /\ \A i \in DOMAIN results : i \in DOMAIN results' /\ results'[i] = results[i]
           /\ \A i \in DOMAIN results' : \/ i \in DOMAIN results /\ results'[i] = results[i] /\ i # Len(results) + 1
                                         \/ i = Len(results) + 1 /\ results'[i] = r
           /\ Len(results) \in Nat
<1>1. IsSequence(results) /\ \A i \in DOMAIN results : AResult(results[i], storedMessages)
  BY DEF ResultsTyped
<1>2. /\ IsSequence(results') /\ Len(results) \in Nat
      /\ \A i \in DOMAIN results : i \in DOMAIN results' /\ results'[i] = results[i]
      /\ \A i \in DOMAIN results' : \/ i \in DOMAIN results /\ results'[i] = results[i] /\ i # Len(results) + 1
                                    \/ i = Len(results) + 1 /\ results'[i] = r
  <2>1. Len(results) \in Nat /\ DOMAIN results = 1..Len(results)
    BY <1>1 DEF IsSequence
  <2>2. /\ IsSequence(results') /\ DOMAIN results' = 1..(Len(results) + 1) /\ results'[Len(results) + 1] = r
        /\ \A i \in DOMAIN results : results'[i] = results[i]
    <3>1. IsSequence(results)
      BY <1>1
    <3> QED BY <2>1, <3>1, AppendOf
  <2>3. \A i \in 1..(Len(results) + 1) : i \in 1..Len(results) \/ i = Len(results) + 1
    BY <2>1
  <2>4. \A i \in 1..Len(results) : i \in 1..(Len(results) + 1) /\ i # Len(results) + 1
    BY <2>1
  <2> QED BY <2>1, <2>2, <2>3, <2>4
<1>3. \A i \in DOMAIN results' : AResult(results'[i], times)
  BY <1>1, <1>2, AResultMore
<1>4. ResultsTyped'
  BY <1>2, <1>3 DEF ResultsTyped
<1>5. AddedTimes(results') = AddedTimes(results) \cup (IF r.op = "added" THEN {r.time} ELSE {})
  BY <1>1, TimesAppend DEF AddedTimes
<1>6. PageTimes(results') = PageTimes(results) \cup (IF r.op # "added" THEN Range(r.page) ELSE {})
  BY <1>1, PagesAppend
<1> QED BY <1>2, <1>4, <1>5, <1>6

LEMMA ResultsTaken ==
    ASSUME ResultsTyped, results # <<>>, results' = Tail(results), UNCHANGED storedMessages
    PROVE  /\ ResultsTyped' /\ AResult(Head(results), storedMessages)
           /\ Head(results) = results[1] /\ 1 \in DOMAIN results
           /\ AddedTimes(results) = AddedTimes(results') \cup
                 (IF Head(results).op = "added" THEN {Head(results).time} ELSE {})
           /\ PageTimes(results) = PageTimes(results') \cup
                 (IF Head(results).op # "added" THEN Range(Head(results).page) ELSE {})
           /\ \A i \in DOMAIN results' : i + 1 \in DOMAIN results /\ results'[i] = results[i + 1]
                                         /\ i + 1 # 1 /\ i \in Nat
<1>1. IsSequence(results) /\ \A i \in DOMAIN results : AResult(results[i], storedMessages)
  BY DEF ResultsTyped
<1>2. /\ IsSequence(results') /\ Head(results) = results[1] /\ 1 \in DOMAIN results
      /\ \A i \in DOMAIN results' : i + 1 \in DOMAIN results /\ results'[i] = results[i + 1]
                                    /\ i + 1 # 1 /\ i \in Nat
  <2>1. Len(results) \in Nat /\ DOMAIN results = 1..Len(results)
    BY <1>1 DEF IsSequence
  <2>2. /\ IsSequence(results') /\ Head(results) = results[1] /\ 1 \in DOMAIN results
        /\ DOMAIN results' = 1..(Len(results) - 1)
        /\ \A i \in 1..(Len(results) - 1) : results'[i] = results[i + 1]
    <3>1. IsSequence(results)
      BY <1>1
    <3> QED BY <2>1, <3>1, TailOf
  <2>3. \A i \in 1..(Len(results) - 1) : i + 1 \in 1..Len(results) /\ i + 1 # 1 /\ i \in Nat
    BY <2>1
  <2> QED BY <2>1, <2>2, <2>3
<1>3. ResultsTyped' /\ AResult(Head(results), storedMessages)
  BY <1>1, <1>2 DEF ResultsTyped
<1>4. AddedTimes(results) = AddedTimes(results') \cup
                 (IF Head(results).op = "added" THEN {Head(results).time} ELSE {})
  BY <1>1, TimesTail DEF AddedTimes
<1>5. PageTimes(results) = PageTimes(results') \cup
                 (IF Head(results).op # "added" THEN Range(Head(results).page) ELSE {})
  BY <1>1, PagesTail
<1> QED BY <1>2, <1>3, <1>4, <1>5

Base == ListTypes /\ ArchiveInv
Fetched == [db : BOOLEAN, mam : BOOLEAN, loading : BOOLEAN]
Retrievals == [running : {"no", "yes", "lost"}, before : Nat]

\* How the model asks for more is in order.
Asks ==
    /\ fetched \in Fetched /\ retrieval \in Retrievals
    /\ retrieval.before \in storedMessages \cup {0}
    /\ fetched.loading <=> retrieval.running = "yes"

LEMMA BaseSays ==
    ASSUME Base
    PROVE  /\ Asks /\ ListJobsTyped /\ ResultsTyped /\ mixed \in BOOLEAN
           /\ IsSequence(messageList) /\ Range(messageList) \subseteq storedMessages
           /\ RemoveTimes(jobs) \subseteq storedMessages
BY ListFacts DEF Base, Asks, ListTypes, ArchiveInv, Fetched, Retrievals

\* Neither the database nor what is going to be stored changes.
LEMMA BaseKeeps ==
    ASSUME Base, UNCHANGED <<storedMessages, removedMessages, archive>>, ListJobsTyped', ResultsTyped',
           AddTimes(jobs') = AddTimes(jobs), RemoveTimes(jobs') \subseteq storedMessages,
           IsSequence(messageList'), Range(messageList') \subseteq storedMessages, mixed' \in BOOLEAN,
           Asks', fetched'.mam => fetched.mam
    PROVE  Base'
<1>1. Kept' = Kept
  BY DEF Kept
<1>2. ListTypes'
  BY DEF Base, ListTypes, ListJobsTyped, ResultsTyped, Asks, Fetched, Retrievals
<1>3. ArchiveInv'
  BY <1>1 DEF Base, ArchiveInv, Asks
<1> QED BY <1>2, <1>3 DEF Base

LEMMA BaseInit ==
    ListInit /\ jobs = <<>> /\ results = <<>> => Base
<1> SUFFICES ASSUME ListInit, jobs = <<>>, results = <<>>
             PROVE  Base
  OBVIOUS
<1> DEFINE n == ArchivedMessages + StoredMessages
<1>1. n \in Nat /\ ArchivedMessages \in Nat /\ archive = 1..n
      /\ storedMessages = (ArchivedMessages + 1)..n /\ removedMessages = {}
      /\ messageList = <<>> /\ fetched = [db |-> FALSE, mam |-> FALSE, loading |-> FALSE]
      /\ retrieval = [running |-> "no", before |-> 0] /\ mixed = FALSE
  BY ListAssumption DEF ListInit, NotFetched, NoRetrieval
<1> HIDE DEF n
<1>2. IsSequence(<<>>) /\ DOMAIN <<>> = {} /\ Range(<<>>) = {}
  BY EmptyQueue DEF Range
<1>3. AddTimes(jobs) = {} /\ RemoveTimes(jobs) = {}
  BY NoTimes DEF AddTimes, RemoveTimes
<1>4. Kept = storedMessages
  BY <1>3 DEF Kept
<1>5. ListTypes
  <2>1. \E m \in Nat : archive = 1..m
    BY <1>1
  <2>2. storedMessages \subseteq archive
    BY <1>1
  <2>3. retrieval \in [running : {"no", "yes", "lost"}, before : Nat]
        /\ fetched \in [db : BOOLEAN, mam : BOOLEAN, loading : BOOLEAN]
    BY <1>1
  <2> QED BY <1>1, <1>2, <2>1, <2>2, <2>3 DEF ListTypes
<1>6. ArchiveInv
  BY <1>1, <1>3, <1>4 DEF ArchiveInv
<1> QED BY <1>5, <1>6 DEF Base

\* fetchMore(): a page is asked for or a retrieval begins.
LEMMA FetchMoreDoes ==
    ASSUME Base, NEW all \in BOOLEAN, FetchMore(all, messageList), UNCHANGED storedMessages
    PROVE  /\ Asks' /\ fetched'.mam = fetched.mam
           /\ ~all => /\ UNCHANGED <<retrieval, fetched>>
                      /\ \E mode \in {"unread", "page"} :
                            /\ mode = "unread" => messageList = <<>>
                            /\ jobs' = Append(jobs, [op |-> "fetch", mode |-> mode,
                                                     from |-> Len(messageList), time |-> 0])
           /\ all => UNCHANGED jobs /\ fetched'.db = TRUE
<1>1. Asks /\ IsSequence(messageList) /\ Range(messageList) \subseteq storedMessages
  BY BaseSays
<1>2. CASE ~all
  <2>1. /\ UNCHANGED <<retrieval, fetched>>
        /\ jobs' = Append(jobs, [op |-> "fetch", mode |-> IF messageList = <<>> THEN "unread" ELSE "page",
                                 from |-> Len(messageList), time |-> 0])
    BY <1>2 DEF FetchMore, PageQuery
  <2> QED BY <1>1, <1>2, <2>1 DEF Asks
<1>3. CASE all
  <2>1. UNCHANGED jobs
    BY <1>3 DEF FetchMore
  <2>2. CASE fetched.mam \/ ~connected \/ fetched.loading
    <3>1. retrieval' = retrieval /\ fetched' = [fetched EXCEPT !.db = TRUE]
      BY <1>3, <2>2 DEF FetchMore
    <3>2. fetched' \in Fetched /\ fetched'.mam = fetched.mam /\ fetched'.db = TRUE
          /\ fetched'.loading = fetched.loading
      BY <1>1, <3>1 DEF Asks, Fetched
    <3> QED BY <1>1, <1>3, <2>1, <3>1, <3>2 DEF Asks
  <2>3. CASE ~(fetched.mam \/ ~connected \/ fetched.loading)
    <3> DEFINE b == IF messageList = <<>> THEN 0 ELSE Last(messageList)
    <3>1. /\ retrieval' = [running |-> "yes", before |-> b]
          /\ fetched' = [fetched EXCEPT !.db = TRUE, !.loading = TRUE]
      BY <1>3, <2>3 DEF FetchMore
    <3>2. b \in storedMessages \cup {0}
      <4>1. CASE messageList # <<>>
        <5>1. Len(messageList) \in DOMAIN messageList
          <6>1. Len(messageList) \in Nat /\ DOMAIN messageList = 1..Len(messageList)
            BY <1>1 DEF IsSequence
          <6>2. Len(messageList) # 0
            BY <1>1, <4>1, <6>1 DEF IsSequence
          <6> QED BY <6>1, <6>2
        <5> QED BY <1>1, <4>1, <5>1 DEF Last, Range
      <4> QED BY <4>1
    <3>3. b \in Nat
      BY <3>2, ListFacts DEF Base
    <3> HIDE DEF b
    <3>4. fetched' \in Fetched /\ fetched'.mam = fetched.mam /\ fetched'.db = TRUE /\ fetched'.loading = TRUE
      BY <1>1, <3>1 DEF Asks, Fetched
    <3>5. retrieval' \in Retrievals /\ retrieval'.before = b /\ retrieval'.running = "yes"
      BY <3>1, <3>3 DEF Retrievals
    <3> QED BY <1>3, <2>1, <3>2, <3>4, <3>5 DEF Asks
  <2> QED BY <2>2, <2>3
<1> QED BY <1>2, <1>3

LEMMA PageQueryTyped ==
    ASSUME Base, NEW mode \in Modes, NEW t \in Nat
    PROVE  [op |-> "fetch", mode |-> mode, from |-> Len(messageList), time |-> t] \in ListJobs
<1>1. Len(messageList) \in Nat
  BY BaseSays DEF IsSequence
<1> DEFINE q == [op |-> "fetch", mode |-> mode, from |-> Len(messageList), time |-> t]
<1>2. q \in [op : {"fetch"}, mode : Modes, from : Nat, time : Nat]
  BY <1>1
<1> HIDE DEF q
<1> QED BY <1>2 DEF ListJobs, q

LEMMA BaseScroll ==
    ASSUME Base, Scroll
    PROVE  Base'
<1>1. /\ FetchMore(fetched.db, messageList)
      /\ mixed' = (mixed \/ (~fetched.db /\ ListOutstanding))
      /\ UNCHANGED <<storedMessages, removedMessages, messageList, archive, results>>
  BY DEF Scroll
<1>2. /\ Asks /\ ListJobsTyped /\ ResultsTyped /\ IsSequence(messageList)
      /\ Range(messageList) \subseteq storedMessages /\ RemoveTimes(jobs) \subseteq storedMessages
  BY BaseSays
<1>3. fetched.db \in BOOLEAN /\ mixed' \in BOOLEAN
  BY <1>1, <1>2 DEF Asks, Fetched
<1>4. ResultsTyped'
  BY <1>1, <1>2 DEF ResultsTyped
<1>5. CASE fetched.db
  <2>1. Asks' /\ fetched'.mam = fetched.mam /\ jobs' = jobs
    BY <1>1, <1>3, <1>5, FetchMoreDoes
  <2>2. ListJobsTyped'
    BY <1>2, <2>1 DEF ListJobsTyped
  <2> QED BY <1>1, <1>2, <1>3, <1>4, <2>1, <2>2, BaseKeeps
<1>6. CASE ~fetched.db
  <2>1. /\ Asks' /\ fetched'.mam = fetched.mam
        /\ \E mode \in {"unread", "page"} :
              jobs' = Append(jobs, [op |-> "fetch", mode |-> mode, from |-> Len(messageList), time |-> 0])
    BY <1>1, <1>3, <1>6, FetchMoreDoes
  <2>2. PICK mode \in {"unread", "page"} :
              jobs' = Append(jobs, [op |-> "fetch", mode |-> mode, from |-> Len(messageList), time |-> 0])
    BY <2>1
  <2> DEFINE q == [op |-> "fetch", mode |-> mode, from |-> Len(messageList), time |-> 0]
  <2>3. q \in ListJobs
    BY PageQueryTyped DEF Modes
  <2>4. q.op = "fetch" /\ jobs' = Append(jobs, q)
    BY <2>2
  <2> HIDE DEF q
  <2>5. ListJobsTyped' /\ AddTimes(jobs') = AddTimes(jobs) /\ RemoveTimes(jobs') = RemoveTimes(jobs)
    <3>1. ListJobsTyped /\ q \in ListJobs /\ jobs' = Append(jobs, q)
      BY <1>2, <2>3, <2>4
    <3>2. /\ ListJobsTyped'
          /\ AddTimes(jobs') = AddTimes(jobs) \cup (IF q.op = "add" THEN {q.time} ELSE {})
          /\ RemoveTimes(jobs') = RemoveTimes(jobs) \cup (IF q.op = "remove" THEN {q.time} ELSE {})
      BY <3>1, JobsAppended
    <3> QED BY <2>4, <3>2
  <2> QED BY <1>1, <1>2, <1>3, <1>4, <2>1, <2>5, BaseKeeps
<1> QED BY <1>3, <1>5, <1>6

LEMMA BaseSearch ==
    ASSUME Base, NEW mode \in {"id", "string"}, NEW time \in storedMessages \cup {0}, SearchMessage(mode, time)
    PROVE  Base'
<1> DEFINE q == [op |-> "fetch", mode |-> mode, from |-> Len(messageList), time |-> time]
<1>1. /\ jobs' = Append(jobs, q)
      /\ mixed' = (mixed \/ ListOutstanding
                     \/ (mode = "string" /\ time \notin storedMessages \ removedMessages))
      /\ UNCHANGED <<storedMessages, removedMessages, messageList, fetched, archive, retrieval, results>>
  BY DEF SearchMessage, PageQuery
<1>2. /\ Asks /\ ListJobsTyped /\ ResultsTyped /\ IsSequence(messageList)
      /\ Range(messageList) \subseteq storedMessages /\ RemoveTimes(jobs) \subseteq storedMessages
  BY BaseSays
<1>3. q \in ListJobs /\ q.op = "fetch"
  <2>1. time \in Nat
    BY ListFacts DEF Base
  <2> QED BY <2>1, PageQueryTyped DEF Modes
<1> HIDE DEF q
<1>4. ListJobsTyped' /\ AddTimes(jobs') = AddTimes(jobs) /\ RemoveTimes(jobs') = RemoveTimes(jobs)
  <2>1. ListJobsTyped /\ q \in ListJobs /\ jobs' = Append(jobs, q)
    BY <1>1, <1>2, <1>3
  <2>2. /\ ListJobsTyped'
        /\ AddTimes(jobs') = AddTimes(jobs) \cup (IF q.op = "add" THEN {q.time} ELSE {})
        /\ RemoveTimes(jobs') = RemoveTimes(jobs) \cup (IF q.op = "remove" THEN {q.time} ELSE {})
    BY <2>1, JobsAppended
  <2> QED BY <1>3, <2>2
<1>5. Asks' /\ ResultsTyped' /\ mixed' \in BOOLEAN
  BY <1>1, <1>2 DEF Asks, ResultsTyped
<1> QED BY <1>1, <1>2, <1>4, <1>5, BaseKeeps

LEMMA BaseRemove ==
    ASSUME Base, NEW time \in archive, RemoveMessage(time)
    PROVE  Base'
<1> DEFINE q == [op |-> "remove", time |-> time]
<1>1. /\ jobs' = Append(jobs, q)
      /\ UNCHANGED <<storedMessages, removedMessages, fetched, archive, retrieval, mixed, results>>
  BY DEF RemoveMessage
<1>2. PICK i \in DOMAIN messageList : messageList[i] = time /\ messageList' = RemoveAt(messageList, i)
  BY DEF RemoveMessage
<1>3. /\ Asks /\ ListJobsTyped /\ ResultsTyped /\ IsSequence(messageList) /\ mixed \in BOOLEAN
      /\ Range(messageList) \subseteq storedMessages /\ RemoveTimes(jobs) \subseteq storedMessages
  BY BaseSays
<1>4. time \in storedMessages /\ time \in Nat
  <2>1. time \in storedMessages
    BY <1>2, <1>3 DEF Range
  <2> QED BY <2>1, ListFacts DEF Base
<1>5. q \in ListJobs /\ q.op = "remove" /\ q.time = time
  BY <1>4 DEF ListJobs
<1> HIDE DEF q
<1>6. ListJobsTyped' /\ AddTimes(jobs') = AddTimes(jobs) /\ RemoveTimes(jobs') \subseteq storedMessages
  <2>1. ListJobsTyped /\ q \in ListJobs /\ jobs' = Append(jobs, q)
    BY <1>1, <1>3, <1>5
  <2>2. /\ ListJobsTyped'
        /\ AddTimes(jobs') = AddTimes(jobs) \cup (IF q.op = "add" THEN {q.time} ELSE {})
        /\ RemoveTimes(jobs') = RemoveTimes(jobs) \cup (IF q.op = "remove" THEN {q.time} ELSE {})
    BY <2>1, JobsAppended
  <2> QED BY <1>3, <1>4, <1>5, <2>2
<1>7. IsSequence(messageList') /\ Range(messageList') \subseteq storedMessages
  BY <1>2, <1>3, RemovedOf
<1>8. Asks' /\ ResultsTyped' /\ mixed' \in BOOLEAN
  BY <1>1, <1>3 DEF Asks, ResultsTyped
<1> QED BY <1>1, <1>6, <1>7, <1>8, BaseKeeps

LEMMA BaseReopen ==
    ASSUME Base, Reopen
    PROVE  Base'
<1>1. /\ messageList' = <<>> /\ fetched' = NotFetched /\ jobs' = AllBut(jobs, "fetch") /\ results' = <<>>
      /\ retrieval' = (IF retrieval.running = "no" THEN retrieval ELSE [retrieval EXCEPT !.running = "lost"])
      /\ mixed' = (mixed \/ jobs' # <<>> \/ retrieval.running # "no")
      /\ UNCHANGED <<storedMessages, removedMessages, archive>>
  BY DEF Reopen
<1>2. Asks /\ ListJobsTyped /\ RemoveTimes(jobs) \subseteq storedMessages
  BY BaseSays
<1>3. IsSequence(<<>>) /\ DOMAIN <<>> = {} /\ Range(<<>>) = {}
  BY EmptyQueue DEF Range
<1>4. IsSequence(jobs) /\ \A i \in DOMAIN jobs : jobs[i] \in ListJobs
  BY <1>2 DEF ListJobsTyped
<1>5. /\ IsSequence(jobs')
      /\ \E f \in [DOMAIN jobs' -> DOMAIN jobs] :
            /\ \A n \in DOMAIN jobs' : jobs'[n] = jobs[f[n]]
            /\ \A i \in DOMAIN jobs : jobs[i].op # "fetch" => \E n \in DOMAIN jobs' : f[n] = i
  <2>1. IsSequence(jobs)
    BY <1>4
  <2> QED BY <1>1, <2>1, AllButOf
<1>6. PICK f \in [DOMAIN jobs' -> DOMAIN jobs] :
            /\ \A n \in DOMAIN jobs' : jobs'[n] = jobs[f[n]]
            /\ \A i \in DOMAIN jobs : jobs[i].op # "fetch" => \E n \in DOMAIN jobs' : f[n] = i
  BY <1>5
<1>7. ListJobsTyped'
  BY <1>4, <1>5, <1>6 DEF ListJobsTyped
<1>8. \A n \in DOMAIN jobs' : \E i \in DOMAIN jobs : jobs'[n] = jobs[i]
  BY <1>6
<1>9. \A i \in DOMAIN jobs : jobs[i].op # "fetch" => \E n \in DOMAIN jobs' : jobs'[n] = jobs[i]
  BY <1>6
<1>10. AddTimes(jobs') = AddTimes(jobs) /\ RemoveTimes(jobs') = RemoveTimes(jobs)
  BY <1>8, <1>9 DEF AddTimes, RemoveTimes, TimesOf
<1>11. Asks'
  <2>1. fetched' \in Fetched /\ fetched'.loading = FALSE
    BY <1>1 DEF NotFetched, Fetched
  <2>2. retrieval' \in Retrievals /\ retrieval'.running # "yes" /\ retrieval'.before = retrieval.before
    BY <1>1, <1>2 DEF Asks, Retrievals
  <2> QED BY <1>1, <1>2, <2>1, <2>2 DEF Asks
<1>12. ResultsTyped' /\ ~fetched'.mam
  BY <1>1, <1>3 DEF ResultsTyped, NotFetched
<1>13. mixed' \in BOOLEAN /\ RemoveTimes(jobs') \subseteq storedMessages
       /\ IsSequence(messageList') /\ Range(messageList') \subseteq storedMessages
  BY <1>1, <1>2, <1>3, <1>10, BaseSays
<1>14. UNCHANGED <<storedMessages, removedMessages, archive>>
  BY <1>1
<1> QED BY <1>7, <1>10, <1>11, <1>12, <1>13, <1>14, BaseKeeps

\* A new message is newer than the archived ones.
LEMMA NewMessageAdds ==
    ASSUME Base, NewMessage
    PROVE  \E m \in Nat :
              /\ archive = 1..m /\ archive' = 1..(m + 1)
              /\ [op |-> "add", time |-> m + 1] \in ListJobs
              /\ jobs' = Append(jobs, [op |-> "add", time |-> m + 1])
              /\ UNCHANGED <<storedMessages, removedMessages, messageList, fetched, retrieval, mixed, results>>
<1>1. PICK m \in Nat : archive = 1..m
  BY DEF Base, ListTypes
<1>2. NewestArchived = m
  BY <1>1, GreatestOf DEF NewestArchived
<1>3. 1..(m + 1) = (1..m) \cup {m + 1}
  BY <1>1
<1>4. [op |-> "add", time |-> m + 1] \in ListJobs
  BY <1>1 DEF ListJobs
<1> QED BY <1>1, <1>2, <1>3, <1>4 DEF NewMessage

LEMMA BaseNew ==
    ASSUME Base, NewMessage
    PROVE  Base'
<1>1. PICK m \in Nat :
              /\ archive = 1..m /\ archive' = 1..(m + 1)
              /\ [op |-> "add", time |-> m + 1] \in ListJobs
              /\ jobs' = Append(jobs, [op |-> "add", time |-> m + 1])
              /\ UNCHANGED <<storedMessages, removedMessages, messageList, fetched, retrieval, mixed, results>>
  BY NewMessageAdds
<1> DEFINE q == [op |-> "add", time |-> m + 1]
<1>2. ListJobsTyped /\ ResultsTyped /\ q \in ListJobs /\ jobs' = Append(jobs, q) /\ q.op = "add" /\ q.time = m + 1
  BY <1>1, BaseSays
<1> HIDE DEF q
<1>3. /\ ListJobsTyped'
      /\ AddTimes(jobs') = AddTimes(jobs) \cup (IF q.op = "add" THEN {q.time} ELSE {})
      /\ RemoveTimes(jobs') = RemoveTimes(jobs) \cup (IF q.op = "remove" THEN {q.time} ELSE {})
  <2>1. ListJobsTyped /\ q \in ListJobs /\ jobs' = Append(jobs, q)
    BY <1>2
  <2> QED BY <2>1, JobsAppended
<1>4. AddTimes(jobs') = AddTimes(jobs) \cup {m + 1} /\ RemoveTimes(jobs') = RemoveTimes(jobs)
  BY <1>2, <1>3
<1>5. Kept' = Kept \cup {m + 1}
  BY <1>1, <1>4 DEF Kept
<1>6. archive' = archive \cup {m + 1} /\ \A t \in archive : t < m + 1
  BY <1>1
<1>7. /\ storedMessages \subseteq archive /\ removedMessages \subseteq storedMessages
      /\ IsSequence(messageList) /\ Range(messageList) \subseteq storedMessages
      /\ fetched \in [db : BOOLEAN, mam : BOOLEAN, loading : BOOLEAN]
      /\ retrieval \in [running : {"no", "yes", "lost"}, before : Nat] /\ mixed \in BOOLEAN
      /\ IsSequence(results) /\ \A i \in DOMAIN results : AResult(results[i], storedMessages)
  BY DEF Base, ListTypes
<1>8. ListTypes'
  <2>1. \E n \in Nat : archive' = 1..n
    BY <1>1
  <2>2. storedMessages' \subseteq archive'
    BY <1>1, <1>6, <1>7
  <2>3. IsSequence(jobs') /\ \A i \in DOMAIN jobs' : jobs'[i] \in ListJobs
    BY <1>3 DEF ListJobsTyped
  <2> QED BY <1>1, <1>7, <2>1, <2>2, <2>3 DEF ListTypes
<1>9. /\ Kept \subseteq archive /\ RemoveTimes(jobs) \subseteq storedMessages
      /\ retrieval.before \in storedMessages \cup {0}
      /\ \A t \in Kept, u \in archive : u > t => u \in Kept
      /\ fetched.mam => archive \subseteq Kept
      /\ fetched.loading <=> retrieval.running = "yes"
  BY DEF Base, ArchiveInv
<1>10. \A t \in Kept', u \in archive' : u > t => u \in Kept'
  <2> SUFFICES ASSUME NEW t \in Kept', NEW u \in archive', u > t, u # m + 1
               PROVE  u \in Kept
    BY <1>5
  <2>1. u \in archive /\ u < m + 1 /\ u \in Nat
    BY <1>1, <1>6
  <2>2. t # m + 1
    BY <2>1
  <2> QED BY <1>5, <1>9, <2>1, <2>2
<1>11. ArchiveInv'
  <2>1. Kept' \subseteq archive'
    BY <1>5, <1>6, <1>9
  <2>2. fetched'.mam => archive' \subseteq Kept'
    BY <1>1, <1>5, <1>6, <1>9
  <2> QED BY <1>1, <1>4, <1>9, <1>10, <2>1, <2>2 DEF ArchiveInv
<1> QED BY <1>8, <1>11 DEF Base

LEMMA PageTyped ==
    ASSUME Base, NEW from \in Nat, NEW count \in Nat
    PROVE  IsSequence(PageOf(from, count)) /\ Range(PageOf(from, count)) \subseteq storedMessages
<1> DEFINE M == ChatMessages
           e == Min({from + count, Len(M)})
           p == PageOf(from, count)
<1>1. Seen \subseteq Nat /\ IsFiniteSet(Seen) /\ Seen \subseteq storedMessages
  BY ListFacts DEF Base
<1>2. IsSequence(M) /\ Range(M) = Seen
  <2>1. M = NewestFirst(Seen)
    BY DEF ChatMessages, Seen
  <2> QED BY <1>1, <2>1, NewestFirstOf DEF Lists
<1>3. Len(M) \in Nat /\ DOMAIN M = 1..Len(M) /\ p = SubSeq(M, from + 1, e) /\ M \in Seq(Range(M))
  BY <1>2 DEF IsSequence, PageOf
<1> HIDE DEF M, p
<1>4. e = IF from + count <= Len(M) THEN from + count ELSE Len(M)
  <2> DEFINE x == IF from + count <= Len(M) THEN from + count ELSE Len(M)
             P == {from + count, Len(M)}
  <2>1. x \in P /\ \A y \in P : x <= y /\ y \in Nat
    BY <1>3
  <2> HIDE DEF x, P
  <2>2. \A z \in P : (\A y \in P : z <= y) => z = x
    BY <2>1
  <2> QED BY <2>1, <2>2 DEF Min, x, P
<1> HIDE DEF e
<1>5. e \in Nat /\ e <= Len(M)
  <2>1. Len(M) \in Nat /\ from + count \in Nat
    BY <1>3
  <2> QED BY <1>4, <2>1
<1>6. p = [i \in 1..(e - (from + 1) + 1) |-> M[(from + 1) + i - 1]]
  BY <1>3, <1>5
<1>7. \A i \in 1..(e - (from + 1) + 1) : (from + 1) + i - 1 \in DOMAIN M
  BY <1>3, <1>5
<1> DEFINE n == IF from + 1 <= e THEN e - (from + 1) + 1 ELSE 0
<1>8. n \in Nat /\ 1..n = 1..(e - (from + 1) + 1)
  BY <1>5
<1> HIDE DEF n
<1>9. p \in [1..n -> Range(M)]
  BY <1>6, <1>7, <1>8 DEF Range
<1>10. p \in Seq(Range(M))
  BY <1>8, <1>9
<1>11. Range(p) \subseteq Range(M)
  BY <1>9 DEF Range
<1> QED BY <1>1, <1>2, <1>10, <1>11, SequenceOf DEF p

LEMMA ReachTyped ==
    ASSUME Base, NEW job \in ListJobs, job.op = "fetch"
    PROVE  Reach(job) \in Nat
<1> DEFINE count == Cardinality({t \in storedMessages \ removedMessages : t >= job.time})
<1>1. job.from \in Nat
  BY ListJobTyped
<1>2. count \in Nat
  <2>1. {t \in storedMessages \ removedMessages : t >= job.time} \in SUBSET storedMessages
    OBVIOUS
  <2> QED BY <2>1, ListFacts, FS_Subset, FS_CardinalityType DEF Base
<1>3. Reach(job) = IF {t \in storedMessages \ removedMessages : t = job.time} = {} \/ count <= job.from
                   THEN 0 ELSE count - job.from
  BY DEF Reach
<1> HIDE DEF count
<1> QED BY <1>1, <1>2, <1>3

\* A page that is fetched
LEMMA FetchedOf ==
    ASSUME Base, NEW job \in ListJobs, job.op = "fetch", NEW page \in FetchedPages(job)
    PROVE  \/ \E count \in Nat :
                 /\ count >= DbLimit
                 /\ page = PageOf(IF job.mode = "unread" THEN 0 ELSE job.from, count)
                 /\ job.mode \in {"id", "string"} => Reach(job) # 0
           \/ page = <<>> /\ job.mode \in {"id", "string"} /\ Reach(job) = 0
<1>1. job.mode \in Modes /\ job.from \in Nat /\ DbLimit \in Nat /\ DbLimit > 0
  BY ListJobTyped, ListAssumption
<1>2. CASE job.mode = "page"
  <2>1. page = PageOf(job.from, DbLimit)
    BY <1>2 DEF FetchedPages
  <2> QED BY <1>1, <1>2, <2>1
<1>3. CASE job.mode = "unread"
  <2>1. PICK n \in 0..Cardinality(storedMessages) : page = PageOf(0, DbLimit + n)
    BY <1>3 DEF FetchedPages
  <2>2. Cardinality(storedMessages) \in Nat
    BY ListFacts, FS_CardinalityType DEF Base
  <2>3. DbLimit + n \in Nat /\ DbLimit + n >= DbLimit
    BY <1>1, <2>2
  <2> QED BY <1>3, <2>1, <2>3
<1>4. CASE job.mode \in {"id", "string"}
  <2>1. page = IF Reach(job) = 0 THEN <<>>
               ELSE PageOf(job.from, Reach(job) + (IF job.mode = "id" THEN 2 ELSE 1) * DbLimit)
    <3>1. job.mode # "page" /\ job.mode # "unread"
      BY <1>4
    <3>2. FetchedPages(job) = {IF Reach(job) = 0 THEN <<>>
               ELSE PageOf(job.from, Reach(job) + (IF job.mode = "id" THEN 2 ELSE 1) * DbLimit)}
      BY <3>1 DEF FetchedPages
    <3> QED BY <3>2
  <2>2. Reach(job) \in Nat
    BY ReachTyped
  <2>3. CASE Reach(job) = 0
    BY <1>4, <2>1, <2>3
  <2>4. CASE Reach(job) # 0
    <3> DEFINE k == (IF job.mode = "id" THEN 2 ELSE 1) * DbLimit
    <3>1. k \in Nat /\ k >= DbLimit
      BY <1>1
    <3> HIDE DEF k
    <3>2. Reach(job) + k \in Nat /\ Reach(job) + k >= DbLimit
      BY <1>1, <2>2, <3>1
    <3> QED BY <1>4, <2>1, <2>4, <3>2 DEF k
  <2> QED BY <2>3, <2>4
<1> QED BY <1>1, <1>2, <1>3, <1>4 DEF Modes

LEMMA FetchedTyped ==
    ASSUME Base, NEW job \in ListJobs, job.op = "fetch", NEW page \in FetchedPages(job)
    PROVE  /\ IsSequence(page) /\ Range(page) \subseteq storedMessages
           /\ AResult([op |-> job.mode, page |-> page], storedMessages)
<1>1. job.mode \in Modes /\ job.from \in Nat
  BY ListJobTyped
<1>2. IsSequence(page) /\ Range(page) \subseteq storedMessages
  <2>1. CASE \E count \in Nat : page = PageOf(IF job.mode = "unread" THEN 0 ELSE job.from, count)
    BY <1>1, <2>1, PageTyped
  <2>2. CASE page = <<>>
    BY <2>2, EmptyQueue DEF Range
  <2> QED BY <2>1, <2>2, FetchedOf
<1> QED BY <1>1, <1>2 DEF AResult

\* What a job on the database does
LEMMA RunFetch ==
    ASSUME Base, RunListJob, Head(jobs).op = "fetch"
    PROVE  /\ jobs # <<>> /\ jobs' = Tail(jobs)
           /\ \E page \in FetchedPages(Head(jobs)) :
                 results' = Append(results, [op |-> Head(jobs).mode, page |-> page])
           /\ UNCHANGED <<storedMessages, removedMessages, messageList, fetched, archive, retrieval, mixed>>
BY DEF RunListJob

LEMMA RunAdd ==
    ASSUME Base, RunListJob, Head(jobs).op = "add"
    PROVE  /\ jobs # <<>> /\ jobs' = Tail(jobs)
           /\ storedMessages' = storedMessages \cup {Head(jobs).time}
           /\ results' = IF Head(jobs).time \in storedMessages THEN results
                         ELSE Append(results, [op |-> "added", time |-> Head(jobs).time])
           /\ UNCHANGED <<removedMessages, messageList, fetched, archive, retrieval, mixed>>
BY DEF RunListJob

LEMMA RunRemove ==
    ASSUME Base, RunListJob, Head(jobs).op = "remove"
    PROVE  /\ jobs # <<>> /\ jobs' = Tail(jobs)
           /\ removedMessages' = removedMessages \cup ({Head(jobs).time} \cap storedMessages)
           /\ UNCHANGED <<storedMessages, results, messageList, fetched, archive, retrieval, mixed>>
BY DEF RunListJob

LEMMA BaseRun ==
    ASSUME Base, RunListJob
    PROVE  Base'
<1> DEFINE job == Head(jobs)
<1>1. ListJobsTyped /\ ResultsTyped /\ Asks
  BY BaseSays
<1>2. jobs # <<>> /\ jobs' = Tail(jobs)
  BY DEF RunListJob
<1>3. /\ ListJobsTyped' /\ job \in ListJobs
      /\ AddTimes(jobs) = AddTimes(jobs') \cup (IF job.op = "add" THEN {job.time} ELSE {})
      /\ RemoveTimes(jobs) = RemoveTimes(jobs') \cup (IF job.op = "remove" THEN {job.time} ELSE {})
  BY <1>1, <1>2, JobsTaken
<1>4. /\ \E n \in Nat : archive = 1..n
      /\ storedMessages \subseteq archive /\ removedMessages \subseteq storedMessages
      /\ IsSequence(messageList) /\ Range(messageList) \subseteq storedMessages
      /\ fetched \in [db : BOOLEAN, mam : BOOLEAN, loading : BOOLEAN]
      /\ retrieval \in [running : {"no", "yes", "lost"}, before : Nat] /\ mixed \in BOOLEAN
  BY DEF Base, ListTypes
<1>5. /\ Kept \subseteq archive /\ RemoveTimes(jobs) \subseteq storedMessages
      /\ retrieval.before \in storedMessages \cup {0}
      /\ \A t \in Kept, u \in archive : u > t => u \in Kept
      /\ fetched.mam => archive \subseteq Kept
      /\ fetched.loading <=> retrieval.running = "yes"
  BY DEF Base, ArchiveInv
<1>6. CASE job.op = "fetch"
  <2>1. PICK page \in FetchedPages(job) : results' = Append(results, [op |-> job.mode, page |-> page])
    BY <1>6, RunFetch
  <2>2. UNCHANGED <<storedMessages, removedMessages, messageList, fetched, archive, retrieval, mixed>>
    BY <1>6, RunFetch
  <2>3. AResult([op |-> job.mode, page |-> page], storedMessages)
    BY <1>3, <1>6, FetchedTyped
  <2>4. storedMessages \subseteq storedMessages /\ storedMessages' = storedMessages
    BY <2>2
  <2>5. ResultsTyped'
    BY <1>1, <2>1, <2>3, <2>4, ResultsAppended
  <2>6. AddTimes(jobs') = AddTimes(jobs) /\ RemoveTimes(jobs') = RemoveTimes(jobs)
    BY <1>3, <1>6
  <2>7. Asks'
    BY <1>1, <2>2 DEF Asks
  <2> HIDE DEF job
  <2> QED BY <1>3, <1>4, <1>5, <2>2, <2>5, <2>6, <2>7, BaseKeeps
<1>7. CASE job.op = "add"
  <2>1. /\ storedMessages' = storedMessages \cup {job.time}
        /\ results' = IF job.time \in storedMessages THEN results
                      ELSE Append(results, [op |-> "added", time |-> job.time])
        /\ UNCHANGED <<removedMessages, messageList, fetched, archive, retrieval, mixed>>
    BY <1>7, RunAdd
  <2> DEFINE t == job.time
             r == [op |-> "added", time |-> t]
  <2>2. ResultsTyped'
    <3>1. CASE t \in storedMessages
      BY <1>1, <2>1, <3>1 DEF ResultsTyped
    <3>2. CASE t \notin storedMessages
      <4>1. AResult(r, storedMessages')
        BY <2>1 DEF AResult
      <4>2. results' = Append(results, r) /\ storedMessages \subseteq storedMessages'
        BY <2>1, <3>2
      <4> HIDE DEF r
      <4> QED BY <1>1, <4>1, <4>2, ResultsAppended
    <3> QED BY <3>1, <3>2
  <2>3. t \in AddTimes(jobs) /\ AddTimes(jobs) = AddTimes(jobs') \cup {t} /\ RemoveTimes(jobs') = RemoveTimes(jobs)
    BY <1>3, <1>7
  <2>4. Kept' = Kept
    BY <2>1, <2>3 DEF Kept
  <2>5. storedMessages' \subseteq archive /\ storedMessages \subseteq storedMessages'
    BY <1>5, <2>1, <2>3 DEF Kept
  <2> HIDE DEF job
  <2>6. ListTypes'
    BY <1>3, <1>4, <2>1, <2>2, <2>5 DEF ListTypes, ListJobsTyped, ResultsTyped
  <2>7. ArchiveInv'
    BY <1>5, <2>1, <2>3, <2>4, <2>5 DEF ArchiveInv
  <2> QED BY <2>6, <2>7 DEF Base
<1>8. CASE job.op = "remove"
  <2>1. /\ removedMessages' = removedMessages \cup ({job.time} \cap storedMessages)
        /\ UNCHANGED <<storedMessages, results, messageList, fetched, archive, retrieval, mixed>>
    BY <1>8, RunRemove
  <2>2. AddTimes(jobs') = AddTimes(jobs) /\ RemoveTimes(jobs') \subseteq RemoveTimes(jobs)
    BY <1>3, <1>8
  <2>3. Kept' = Kept
    BY <2>1, <2>2 DEF Kept
  <2> HIDE DEF job
  <2>4. ListTypes'
    BY <1>1, <1>3, <1>4, <2>1 DEF ListTypes, ListJobsTyped, ResultsTyped
  <2>5. ArchiveInv'
    BY <1>5, <2>1, <2>2, <2>3 DEF ArchiveInv
  <2> QED BY <2>4, <2>5 DEF Base
<1> QED BY <1>3, <1>6, <1>7, <1>8, ListJobTyped

\* How a result is handled
LEMMA HandleAdded ==
    ASSUME HandleResult, Head(results).op = "added"
    PROVE  messageList' = Inserted(Head(results).time) /\ UNCHANGED <<fetched, retrieval, jobs>>
BY DEF HandleResult

LEMMA HandleNoPage ==
    ASSUME HandleResult, Head(results).op = "id", Head(results).page = <<>>
    PROVE  UNCHANGED <<messageList, fetched, retrieval, jobs>>
BY DEF HandleResult

LEMMA HandlePage ==
    ASSUME Base, HandleResult, Head(results).op # "added",
           ~(Head(results).op = "id" /\ Head(results).page = <<>>)
    PROVE  LET page == Head(results).page
               all == fetched.db \/ Len(page) < DbLimit
           IN  /\ messageList' = messageList \o page
               /\ UNCHANGED jobs /\ Asks' /\ fetched'.mam = fetched.mam /\ fetched'.db = all
               /\ retrieval' = retrieval \/ all
<1> DEFINE page == Head(results).page
           all == fetched.db \/ Len(page) < DbLimit
<1>1. AppendPage(page) /\ UNCHANGED storedMessages
  BY DEF HandleResult
<1>2. Asks /\ IsSequence(messageList)
  BY BaseSays
<1>3. fetched.db \in BOOLEAN
  BY <1>2 DEF Asks, Fetched
<1>4. CASE page = <<>> /\ all
  <2>1. FetchMore(TRUE, messageList) /\ UNCHANGED messageList
    BY <1>1, <1>4 DEF AppendPage
  <2>2. Asks' /\ fetched'.mam = fetched.mam /\ jobs' = jobs /\ fetched'.db = TRUE
    BY <1>1, <2>1, FetchMoreDoes
  <2>3. messageList \o page = messageList
    BY <1>2, <1>4 DEF IsSequence
  <2> QED BY <1>4, <2>1, <2>2, <2>3
<1>5. CASE ~(page = <<>> /\ all)
  <2>1. /\ messageList' = messageList \o page
        /\ fetched' = [fetched EXCEPT !.db = all]
        /\ UNCHANGED <<retrieval, jobs>>
    BY <1>1, <1>5 DEF AppendPage
  <2>2. all \in BOOLEAN
    BY <1>3
  <2> HIDE DEF all, page
  <2>3. fetched' \in Fetched /\ fetched'.mam = fetched.mam /\ fetched'.db = all /\ fetched'.loading = fetched.loading
    BY <1>2, <2>1, <2>2 DEF Asks, Fetched
  <2> QED BY <1>1, <1>2, <2>1, <2>3 DEF Asks, page, all
<1> QED BY <1>4, <1>5

LEMMA BaseHandle ==
    ASSUME Base, HandleResult
    PROVE  Base'
<1> DEFINE r == Head(results)
<1>1. /\ Asks /\ ListJobsTyped /\ ResultsTyped /\ mixed \in BOOLEAN
      /\ IsSequence(messageList) /\ Range(messageList) \subseteq storedMessages
      /\ RemoveTimes(jobs) \subseteq storedMessages
  BY BaseSays
<1>2. /\ results # <<>> /\ results' = Tail(results)
      /\ UNCHANGED <<storedMessages, removedMessages, archive, mixed>>
  BY DEF HandleResult
<1>3. ResultsTyped' /\ AResult(r, storedMessages)
  BY <1>1, <1>2, ResultsTaken
<1>4. /\ r.op = "added" => r.time \in storedMessages
      /\ r.op # "added" => IsSequence(r.page) /\ Range(r.page) \subseteq storedMessages
  BY <1>3, AResultTyped
<1>5. /\ IsSequence(messageList') /\ Range(messageList') \subseteq storedMessages
      /\ UNCHANGED jobs /\ Asks' /\ fetched'.mam = fetched.mam
  <2>1. CASE r.op = "added"
    <3>1. r.time \in Nat /\ Range(messageList) \subseteq Nat /\ r.time \in storedMessages
      BY <1>4, <2>1, ListFacts DEF Base
    <3>2. messageList' = Inserted(r.time) /\ UNCHANGED <<fetched, retrieval, jobs>>
      BY <2>1, HandleAdded
    <3> HIDE DEF r
    <3>3. IsSequence(messageList') /\ Range(messageList') = Range(messageList) \cup {r.time}
      BY <1>1, <3>1, <3>2, InsertedOf
    <3> QED BY <1>1, <1>2, <3>1, <3>2, <3>3 DEF Asks
  <2>2. CASE r.op = "id" /\ r.page = <<>>
    BY <1>1, <1>2, <2>2, HandleNoPage DEF Asks
  <2>3. CASE r.op # "added" /\ ~(r.op = "id" /\ r.page = <<>>)
    <3>1. messageList' = messageList \o r.page /\ UNCHANGED jobs /\ Asks' /\ fetched'.mam = fetched.mam
      BY <2>3, HandlePage
    <3> HIDE DEF r
    <3>2. IsSequence(messageList) /\ IsSequence(r.page)
      BY <1>1, <1>4, <2>3
    <3>3. /\ IsSequence(messageList')
          /\ \A i \in DOMAIN messageList' : messageList'[i] \in Range(messageList) \cup Range(r.page)
      <4>1. /\ IsSequence(messageList \o r.page)
            /\ \A i \in DOMAIN (messageList \o r.page) :
                 \/ i \in DOMAIN messageList /\ (messageList \o r.page)[i] = messageList[i]
                 \/ i > Len(messageList) /\ i - Len(messageList) \in DOMAIN r.page
                    /\ (messageList \o r.page)[i] = r.page[i - Len(messageList)]
        BY <3>2, Joined
      <4> QED BY <3>1, <4>1 DEF Range
    <3>4. Range(messageList') \subseteq storedMessages
      BY <1>1, <1>4, <2>3, <3>3 DEF Range
    <3> QED BY <3>1, <3>3, <3>4
  <2> QED BY <2>1, <2>2, <2>3
<1>6. ListJobsTyped' /\ AddTimes(jobs') = AddTimes(jobs) /\ RemoveTimes(jobs') \subseteq storedMessages
  BY <1>1, <1>5 DEF ListJobsTyped
<1>7. UNCHANGED <<storedMessages, removedMessages, archive>> /\ mixed' \in BOOLEAN
  BY <1>1, <1>2
<1> QED BY <1>3, <1>5, <1>6, <1>7, BaseKeeps

-----------------------------------------------------------------------------
(* Messages of the archive are retrieved.                                  *)

\* What is retrieved are the newest ones of those that are wanted.
LEMMA RetrievedNewest ==
    ASSUME Base
    PROVE  /\ Earlier \subseteq archive
           /\ \A t \in Earlier \ Excess(Earlier), u \in archive :
                 u > t => u \in Kept \cup (Earlier \ Excess(Earlier))
           /\ Excess(Earlier) = {} => archive \subseteq Kept \cup (Earlier \ Excess(Earlier))
<1> DEFINE S == Earlier
           b == retrieval.before
<1>1. /\ archive \subseteq Nat /\ IsFiniteSet(archive) /\ S \subseteq archive /\ MamLimit \in Nat
      /\ b \in storedMessages \cup {0} /\ b \in Nat
      /\ storedMessages \subseteq Kept /\ \A t \in Kept, u \in archive : u > t => u \in Kept
      /\ storedMessages \subseteq Nat
  <2>1. archive \subseteq Nat /\ IsFiniteSet(archive) /\ storedMessages \subseteq Nat
    BY ListFacts DEF Base
  <2>2. b \in storedMessages \cup {0} /\ \A t \in Kept, u \in archive : u > t => u \in Kept
    BY DEF Base, ArchiveInv
  <2>3. S \subseteq archive /\ storedMessages \subseteq Kept
    BY DEF Earlier, Kept
  <2>4. MamLimit \in Nat
    BY ListAssumption
  <2>5. b \in Nat
    <3>1. b \in storedMessages \cup {0}
      BY <2>2
    <3>2. storedMessages \subseteq Nat
      BY <2>1
    <3> HIDE DEF b
    <3> QED BY <3>1, <3>2
  <2> HIDE DEF S, b
  <2> QED BY <2>1, <2>2, <2>3, <2>4, <2>5
<1>2. \A u \in archive : u \in S \/ u \in Kept
  BY <1>1 DEF Earlier
<1>3. \A u \in S : IsFiniteSet({v \in S : v > u}) /\ Cardinality({v \in S : v > u}) \in Nat
  <2> SUFFICES ASSUME NEW u \in S
               PROVE  IsFiniteSet({v \in S : v > u}) /\ Cardinality({v \in S : v > u}) \in Nat
    OBVIOUS
  <2>1. {v \in S : v > u} \in SUBSET archive
    BY <1>1
  <2>2. IsFiniteSet({v \in S : v > u})
    BY <1>1, <2>1, FS_Subset
  <2> QED BY <2>2, FS_CardinalityType
<1>4. ASSUME NEW t \in S \ Excess(S), NEW u \in archive, u > t
      PROVE  u \in Kept \cup (S \ Excess(S))
  <2>1. CASE u \in S
    <3> DEFINE U == {v \in S : v > u}
               T == {v \in S : v > t}
    <3>1. U \in SUBSET T
      <4>1. t \in Nat /\ u \in Nat /\ u > t /\ \A v \in S : v \in Nat
        BY <1>1, <1>4
      <4>2. \A v \in S : v > u => v > t
        BY <4>1
      <4> HIDE DEF S
      <4> QED BY <4>2
    <3>2. IsFiniteSet(T) /\ Cardinality(T) \in Nat /\ Cardinality(U) \in Nat
      BY <1>3, <2>1
    <3>3. Cardinality(U) <= Cardinality(T)
      BY <3>1, <3>2, FS_Subset
    <3>4. ~(Cardinality(T) >= MamLimit)
      BY <1>4 DEF Excess
    <3>5. ~(Cardinality(U) >= MamLimit)
      BY <1>1, <3>2, <3>3, <3>4
    <3>6. u \notin Excess(S)
      BY <3>5 DEF Excess
    <3> QED BY <2>1, <3>6
  <2>2. CASE u \in Kept
    BY <2>2
  <2> QED BY <1>2, <2>1, <2>2
<1>5. Excess(S) = {} => archive \subseteq Kept \cup (S \ Excess(S))
  BY <1>2
<1> QED BY <1>1, <1>4, <1>5

\* They are added, the oldest one first.
LEMMA RetrievedAdds ==
    ASSUME NEW S, S \subseteq Nat, IsFiniteSet(S)
    PROVE  LET adds == [i \in 1..Cardinality(S) |-> [op |-> "add", time |-> Reverse(NewestFirst(S))[i]]]
           IN  /\ IsSequence(adds) /\ \A i \in DOMAIN adds : adds[i] \in ListJobs /\ adds[i].op = "add"
               /\ TimesOf(adds, "add") = S /\ TimesOf(adds, "remove") = {}
<1> DEFINE L == NewestFirst(S)
           n == Cardinality(S)
           R == Reverse(L)
           adds == [i \in 1..n |-> [op |-> "add", time |-> R[i]]]
<1>1. Lists(L, S) /\ Len(L) = n
  BY NewestFirstOf
<1>2. /\ n \in Nat /\ DOMAIN L = 1..n /\ Range(L) = S /\ \A i \in 1..n : L[i] \in S
      /\ \A t \in S : \E i \in 1..n : L[i] = t
  BY <1>1, FS_CardinalityType DEF Lists, IsSequence, Range
<1>3. R = [i \in 1..n |-> L[(n - i) + 1]]
  BY <1>1 DEF Reverse
<1> HIDE DEF R, L, n
<1>4. \A i \in 1..n : (n - i) + 1 \in 1..n /\ R[i] = L[(n - i) + 1]
  BY <1>2, <1>3
<1>5. \A i \in 1..n : R[i] \in S
  BY <1>2, <1>4
<1>6. \A t \in S : \E i \in 1..n : R[i] = t
  <2> SUFFICES ASSUME NEW t \in S
               PROVE  \E i \in 1..n : R[i] = t
    OBVIOUS
  <2>1. PICK k \in 1..n : L[k] = t
    BY <1>2
  <2>2. (n - k) + 1 \in 1..n /\ (n - ((n - k) + 1)) + 1 = k
    BY <1>2
  <2>3. R[(n - k) + 1] = L[k]
    BY <1>4, <2>2
  <2> QED BY <2>1, <2>2, <2>3
<1>7. DOMAIN adds = 1..n /\ \A i \in 1..n : adds[i] = [op |-> "add", time |-> R[i]]
  OBVIOUS
<1>8. IsSequence(adds)
  <2>1. adds \in [1..n -> Range(adds)]
    BY <1>7 DEF Range
  <2>2. adds \in Seq(Range(adds))
    BY <1>2, <2>1
  <2> QED BY <2>2 DEF IsSequence
<1> HIDE DEF adds
<1>9. \A i \in DOMAIN adds : adds[i] \in ListJobs /\ adds[i].op = "add" /\ adds[i].time = R[i]
  <2> SUFFICES ASSUME NEW i \in 1..n
               PROVE  adds[i] \in ListJobs /\ adds[i].op = "add" /\ adds[i].time = R[i]
    BY <1>7
  <2>1. adds[i] = [op |-> "add", time |-> R[i]] /\ R[i] \in Nat
    BY <1>5, <1>7
  <2>2. adds[i] \in [op : {"add", "remove"}, time : Nat]
    BY <2>1
  <2> QED BY <2>1, <2>2 DEF ListJobs
<1>10. TimesOf(adds, "add") = S
  <2>1. TimesOf(adds, "add") \subseteq S
    BY <1>5, <1>7, <1>9 DEF TimesOf
  <2>2. S \subseteq TimesOf(adds, "add")
    BY <1>6, <1>7, <1>9 DEF TimesOf
  <2> QED BY <2>1, <2>2
<1>11. TimesOf(adds, "remove") = {}
  BY <1>9 DEF TimesOf
<1> QED BY <1>8, <1>9, <1>10, <1>11 DEF adds, R, L, n

LEMMA TimesJoined ==
    ASSUME NEW s, NEW t, IsSequence(s), IsSequence(t), NEW op
    PROVE  TimesOf(s \o t, op) = TimesOf(s, op) \cup TimesOf(t, op)
<1> DEFINE p == s \o t
<1>1. /\ \A i \in DOMAIN s : i \in DOMAIN p /\ p[i] = s[i]
      /\ \A i \in DOMAIN t : Len(s) + i \in DOMAIN p /\ p[Len(s) + i] = t[i]
      /\ \A i \in DOMAIN p : \/ i \in DOMAIN s /\ p[i] = s[i]
                             \/ i - Len(s) \in DOMAIN t /\ p[i] = t[i - Len(s)]
  BY Joined
<1> HIDE DEF p
<1>2. TimesOf(p, op) \subseteq TimesOf(s, op) \cup TimesOf(t, op)
  BY <1>1 DEF TimesOf
<1>3. TimesOf(s, op) \subseteq TimesOf(p, op)
  BY <1>1 DEF TimesOf
<1>4. TimesOf(t, op) \subseteq TimesOf(p, op)
  BY <1>1 DEF TimesOf
<1> QED BY <1>2, <1>3, <1>4 DEF p

\* Loading ends or fails.
LoadingEnded(all) ==
    /\ fetched' \in Fetched /\ fetched'.db = fetched.db /\ ~fetched'.loading
    /\ fetched'.mam => fetched.mam \/ all

LEMMA LoadingEnds ==
    ASSUME Base, NEW all \in BOOLEAN,
           fetched' = IF retrieval.running = "yes"
                      THEN [fetched EXCEPT !.loading = FALSE, !.mam = @ \/ all]
                      ELSE fetched
    PROVE  LoadingEnded(all)
<1>1. fetched \in Fetched /\ (fetched.loading <=> retrieval.running = "yes")
  BY BaseSays DEF Asks
<1>2. CASE retrieval.running = "yes"
  <2> DEFINE f == [fetched EXCEPT !.loading = FALSE, !.mam = @ \/ all]
  <2>1. f \in Fetched /\ f.db = fetched.db /\ f.loading = FALSE /\ f.mam = (fetched.mam \/ all)
    BY <1>1 DEF Fetched
  <2> QED BY <1>2, <2>1 DEF LoadingEnded
<1>3. CASE retrieval.running # "yes"
  BY <1>1, <1>3 DEF LoadingEnded
<1> QED BY <1>2, <1>3

LEMMA LoadingFails ==
    ASSUME Base,
           fetched' = IF retrieval.running = "yes" THEN [fetched EXCEPT !.loading = FALSE]
                      ELSE fetched
    PROVE  LoadingEnded(FALSE)
<1>1. fetched \in Fetched /\ (fetched.loading <=> retrieval.running = "yes")
  BY BaseSays DEF Asks
<1>2. CASE retrieval.running = "yes"
  <2> DEFINE f == [fetched EXCEPT !.loading = FALSE]
  <2>1. f \in Fetched /\ f.db = fetched.db /\ f.loading = FALSE /\ f.mam = fetched.mam
    BY <1>1 DEF Fetched
  <2> QED BY <1>2, <2>1 DEF LoadingEnded
<1>3. CASE retrieval.running # "yes"
  BY <1>1, <1>3 DEF LoadingEnded
<1> QED BY <1>2, <1>3

\* What a finished query changes
LEMMA BacklogDoes ==
    ASSUME Base, BacklogRetrieved
    PROVE  LET S == Earlier \ Excess(Earlier) IN
           /\ retrieval' = NoRetrieval /\ retrieval.running # "no"
           /\ UNCHANGED <<storedMessages, removedMessages, messageList, archive, mixed, results>>
           /\ \/ UNCHANGED jobs /\ LoadingEnded(FALSE)
              \/ /\ jobs' = jobs \o [i \in 1..Cardinality(S) |->
                                       [op |-> "add", time |-> Reverse(NewestFirst(S))[i]]]
                 /\ LoadingEnded(Excess(Earlier) = {})
<1> DEFINE S == Earlier \ Excess(Earlier)
           adds == [i \in 1..Cardinality(S) |-> [op |-> "add", time |-> Reverse(NewestFirst(S))[i]]]
<1>1. /\ retrieval' = NoRetrieval /\ retrieval.running # "no"
      /\ UNCHANGED <<storedMessages, removedMessages, messageList, archive, mixed, results>>
      /\ \/ /\ UNCHANGED jobs
            /\ fetched' = IF retrieval.running = "yes" THEN [fetched EXCEPT !.loading = FALSE]
                          ELSE fetched
         \/ /\ jobs' = jobs \o adds
            /\ fetched' = IF retrieval.running = "yes"
                          THEN [fetched EXCEPT !.loading = FALSE, !.mam = @ \/ (Excess(Earlier) = {})]
                          ELSE fetched
  BY DEF BacklogRetrieved
<1> HIDE DEF adds
<1>2. CASE UNCHANGED jobs /\ fetched' = IF retrieval.running = "yes" THEN [fetched EXCEPT !.loading = FALSE]
                                       ELSE fetched
  BY <1>1, <1>2, LoadingFails DEF adds
<1>3. CASE /\ jobs' = jobs \o adds
           /\ fetched' = IF retrieval.running = "yes"
                         THEN [fetched EXCEPT !.loading = FALSE, !.mam = @ \/ (Excess(Earlier) = {})]
                         ELSE fetched
  <2>1. LoadingEnded(Excess(Earlier) = {})
    BY <1>3, LoadingEnds
  <2> QED BY <1>1, <1>3, <2>1 DEF adds
<1> QED BY <1>1, <1>2, <1>3

LEMMA BaseBacklog ==
    ASSUME Base, BacklogRetrieved
    PROVE  Base'
<1> DEFINE S == Earlier \ Excess(Earlier)
           adds == [i \in 1..Cardinality(S) |-> [op |-> "add", time |-> Reverse(NewestFirst(S))[i]]]
<1>1. /\ retrieval' = NoRetrieval
      /\ UNCHANGED <<storedMessages, removedMessages, messageList, archive, mixed, results>>
      /\ (UNCHANGED jobs /\ LoadingEnded(FALSE))
            \/ (jobs' = jobs \o adds /\ LoadingEnded(Excess(Earlier) = {}))
  BY BacklogDoes
<1>2. ListJobsTyped /\ ResultsTyped /\ ResultsTyped' /\ mixed' \in BOOLEAN
      /\ IsSequence(messageList') /\ Range(messageList') \subseteq storedMessages
      /\ RemoveTimes(jobs) \subseteq storedMessages
  BY <1>1, BaseSays DEF ResultsTyped
<1>3. ASSUME NEW all \in BOOLEAN, LoadingEnded(all)
      PROVE  Asks' /\ (fetched'.mam => fetched.mam \/ all)
  <2>1. retrieval' \in Retrievals /\ retrieval'.running = "no" /\ retrieval'.before = 0
    BY <1>1 DEF NoRetrieval, Retrievals
  <2> QED BY <1>3, <2>1 DEF Asks, LoadingEnded
<1>4. CASE UNCHANGED jobs /\ LoadingEnded(FALSE)
  <2>1. Asks' /\ (fetched'.mam => fetched.mam)
    BY <1>3, <1>4
  <2>2. ListJobsTyped' /\ AddTimes(jobs') = AddTimes(jobs) /\ RemoveTimes(jobs') \subseteq storedMessages
    BY <1>2, <1>4 DEF ListJobsTyped
  <2> QED BY <1>1, <1>2, <2>1, <2>2, BaseKeeps
<1>5. CASE jobs' = jobs \o adds /\ LoadingEnded(Excess(Earlier) = {})
  <2>1. Asks' /\ (fetched'.mam => fetched.mam \/ Excess(Earlier) = {})
    BY <1>3, <1>5
  <2>2. /\ S \subseteq archive /\ archive \subseteq Nat /\ IsFiniteSet(archive)
        /\ \A t \in S, u \in archive : u > t => u \in Kept \cup S
        /\ Excess(Earlier) = {} => archive \subseteq Kept \cup S
    BY RetrievedNewest, ListFacts DEF Base
  <2>3. S \subseteq Nat /\ IsFiniteSet(S)
    BY <2>2, FS_Subset
  <2> HIDE DEF S
  <2>4. /\ IsSequence(adds) /\ \A i \in DOMAIN adds : adds[i] \in ListJobs
        /\ TimesOf(adds, "add") = S /\ TimesOf(adds, "remove") = {}
    BY <2>3, RetrievedAdds
  <2> HIDE DEF adds
  <2>5. IsSequence(jobs) /\ \A i \in DOMAIN jobs : jobs[i] \in ListJobs
    BY <1>2 DEF ListJobsTyped
  <2>6. /\ AddTimes(jobs') = AddTimes(jobs) \cup S /\ RemoveTimes(jobs') = RemoveTimes(jobs)
    <3>1. IsSequence(jobs) /\ IsSequence(adds)
      BY <2>4, <2>5
    <3>2. /\ TimesOf(jobs \o adds, "add") = TimesOf(jobs, "add") \cup TimesOf(adds, "add")
          /\ TimesOf(jobs \o adds, "remove") = TimesOf(jobs, "remove") \cup TimesOf(adds, "remove")
      BY <3>1, TimesJoined
    <3>3. jobs' = jobs \o adds
      BY <1>5
    <3> QED BY <2>4, <3>2, <3>3 DEF AddTimes, RemoveTimes
  <2>7. /\ IsSequence(jobs')
        /\ \A i \in DOMAIN jobs' : \/ i \in DOMAIN jobs /\ jobs'[i] = jobs[i]
                                   \/ i - Len(jobs) \in DOMAIN adds /\ jobs'[i] = adds[i - Len(jobs)]
    BY <1>5, <2>4, <2>5, Joined
  <2>8. ListJobsTyped'
    BY <2>4, <2>5, <2>7 DEF ListJobsTyped
  <2>9. Kept' = Kept \cup S
    BY <1>1, <2>6 DEF Kept
  <2>10. ListTypes'
    BY <1>1, <1>2, <2>1, <2>8 DEF Base, ListTypes, ListJobsTyped, ResultsTyped, Asks, Fetched, Retrievals
  <2>11. ArchiveInv'
    <3>1. Kept' \subseteq archive' /\ RemoveTimes(jobs') \subseteq storedMessages'
      BY <1>1, <2>2, <2>6, <2>9 DEF Base, ArchiveInv
    <3>2. \A t \in Kept', u \in archive' : u > t => u \in Kept'
      BY <1>1, <2>2, <2>9 DEF Base, ArchiveInv
    <3>3. fetched'.mam => archive' \subseteq Kept'
      BY <1>1, <2>1, <2>2, <2>9 DEF Base, ArchiveInv
    <3> QED BY <2>1, <3>1, <3>2, <3>3 DEF ArchiveInv, Asks
  <2> QED BY <2>10, <2>11 DEF Base
<1> QED BY <1>1, <1>4, <1>5

\* The connection
LEMMA ChangeDoes ==
    ASSUME Base, ChangeConnection
    PROVE  /\ UNCHANGED <<storedMessages, removedMessages, messageList, archive, mixed, jobs, results>>
           /\ Asks' /\ fetched'.mam = fetched.mam /\ fetched'.db = fetched.db
           /\ retrieval'.running = "no" \/ UNCHANGED retrieval
<1>1. /\ UNCHANGED <<storedMessages, removedMessages, messageList, archive, mixed, jobs, results>>
      /\ \/ /\ retrieval' = NoRetrieval
            /\ fetched' = IF retrieval.running = "yes" THEN [fetched EXCEPT !.loading = FALSE]
                          ELSE fetched
         \/ UNCHANGED <<retrieval, fetched>>
  BY DEF ChangeConnection
<1>2. Asks
  BY BaseSays
<1>3. CASE UNCHANGED <<retrieval, fetched>>
  BY <1>1, <1>2, <1>3 DEF Asks
<1>4. CASE /\ retrieval' = NoRetrieval
           /\ fetched' = IF retrieval.running = "yes" THEN [fetched EXCEPT !.loading = FALSE]
                         ELSE fetched
  <2>1. retrieval' \in Retrievals /\ retrieval'.running = "no" /\ retrieval'.before = 0
    BY <1>4 DEF NoRetrieval, Retrievals
  <2>2. fetched \in Fetched /\ (fetched.loading <=> retrieval.running = "yes")
    BY <1>2 DEF Asks
  <2>3. /\ fetched' \in Fetched /\ fetched'.db = fetched.db /\ fetched'.mam = fetched.mam
        /\ ~fetched'.loading
    BY <1>4, <2>2 DEF Fetched
  <2> QED BY <1>1, <2>1, <2>3 DEF Asks
<1> QED BY <1>1, <1>3, <1>4

LEMMA BaseChange ==
    ASSUME Base, ChangeConnection
    PROVE  Base'
<1>1. /\ UNCHANGED <<storedMessages, removedMessages, messageList, archive, mixed, jobs, results>>
      /\ Asks' /\ fetched'.mam = fetched.mam
  BY ChangeDoes
<1>2. ListJobsTyped' /\ ResultsTyped' /\ AddTimes(jobs') = AddTimes(jobs)
      /\ RemoveTimes(jobs') \subseteq storedMessages
      /\ IsSequence(messageList') /\ Range(messageList') \subseteq storedMessages /\ mixed' \in BOOLEAN
  BY <1>1, BaseSays DEF ListJobsTyped, ResultsTyped
<1> QED BY <1>1, <1>2, BaseKeeps

LEMMA BaseStutter ==
    ASSUME Base, UNCHANGED <<listVars, jobs, results>>
    PROVE  Base'
<1>1. UNCHANGED <<storedMessages, removedMessages, messageList, archive, mixed, jobs, results,
                  fetched, retrieval>>
  BY DEF listVars
<1>2. ListJobsTyped' /\ ResultsTyped' /\ AddTimes(jobs') = AddTimes(jobs) /\ Asks'
      /\ RemoveTimes(jobs') \subseteq storedMessages
      /\ IsSequence(messageList') /\ Range(messageList') \subseteq storedMessages /\ mixed' \in BOOLEAN
  BY <1>1, BaseSays DEF ListJobsTyped, ResultsTyped, Asks
<1> QED BY <1>1, <1>2, BaseKeeps

LEMMA BaseNext ==
    ASSUME Base, ListNext \/ UNCHANGED <<listVars, jobs, results>>
    PROVE  Base'
BY BaseScroll, BaseReopen, BaseNew, BaseSearch, BaseRemove, BaseRun, BaseHandle, BaseBacklog,
   BaseChange, BaseStutter DEF ListNext

-----------------------------------------------------------------------------
(* What is loaded are the newest messages.                                 *)

\* Jobs that are not finished yet do not disturb what is loaded.
JobsInv ==
    \A i \in DOMAIN jobs : jobs[i].op = "fetch" =>
       /\ i = 1 /\ results = <<>>
       /\ Newest(Range(messageList) \cup RemoveTimes(jobs), Seen)
       /\ jobs[i].from = Cardinality(Range(messageList) \cup RemoveTimes(jobs))
       /\ jobs[i].mode = "string" =>
             jobs[i].time \in Seen \ (Range(messageList) \cup RemoveTimes(jobs))
       /\ jobs[i].mode = "unread" => jobs[i].from = 0
NoRetrievalYet ==
    ~fetched.db =>
       /\ retrieval.running = "no"
       /\ \A i \in DOMAIN jobs : jobs[i].op = "add" =>
             /\ \A t \in storedMessages : jobs[i].time > t
             /\ \A k \in DOMAIN jobs : jobs[k].op = "add" /\ k < i => jobs[i].time > jobs[k].time

LEMMA QueryInvIs ==
    QueryInv <=> JobsInv /\ NoRetrievalYet
BY DEF QueryInv, JobsInv, NoRetrievalYet

LEMMA OrderKeeps ==
    ASSUME OrderInv, UNCHANGED <<storedMessages, removedMessages, messageList, results>>,
           RemoveTimes(jobs') = RemoveTimes(jobs), fetched'.db => fetched.db,
           \A i \in DOMAIN jobs' : jobs'[i].op = "fetch" => i \in DOMAIN jobs /\ jobs'[i] = jobs[i],
           NoRetrievalYet'
    PROVE  OrderInv'
<1>1. Seen' = Seen /\ Loaded' = Loaded
  BY DEF Seen, Loaded
<1>2. ResultsInv'
  BY DEF OrderInv, ResultsInv
<1>3. LoadedInv'
  BY <1>1 DEF OrderInv, LoadedInv
<1>4. JobsInv'
  <2>1. JobsInv
    BY QueryInvIs DEF OrderInv
  <2> QED BY <1>1, <2>1 DEF JobsInv
<1>5. QueryInv'
  BY <1>4 DEF QueryInv, JobsInv, NoRetrievalYet
<1> QED BY <1>2, <1>3, <1>5 DEF OrderInv

\* Nothing is loaded or under way.
Nothing ==
    messageList = <<>> /\ results = <<>> /\ jobs = <<>> /\ fetched.db = FALSE /\ retrieval.running = "no"

LEMMA OrderNothing ==
    Nothing => OrderInv
<1> SUFFICES ASSUME Nothing
             PROVE  OrderInv
  OBVIOUS
<1> USE DEF Nothing
<1>1. /\ DOMAIN messageList = {} /\ DOMAIN results = {} /\ DOMAIN jobs = {} /\ Range(messageList) = {}
  BY EmptyQueue DEF Range
<1>2. AddedTimes(results) = {} /\ PageTimes(results) = {} /\ RemoveTimes(jobs) = {}
  BY NoTimes DEF AddedTimes, RemoveTimes
<1>3. Loaded = {}
  BY <1>1, <1>2 DEF Loaded
<1>4. ResultsInv
  BY <1>1, <1>2 DEF ResultsInv
<1>5. LoadedInv
  BY <1>1, <1>3 DEF LoadedInv, Newest, Descending
<1>6. QueryInv
  BY <1>1 DEF QueryInv
<1> QED BY <1>4, <1>5, <1>6 DEF OrderInv

LEMMA OrderReopen ==
    ASSUME Base, Reopen, ~mixed'
    PROVE  OrderInv'
<1>1. /\ messageList' = <<>> /\ results' = <<>> /\ fetched' = [db |-> FALSE, mam |-> FALSE, loading |-> FALSE]
      /\ jobs' = <<>> /\ retrieval.running = "no" /\ retrieval' = retrieval
  <2>1. mixed' = (mixed \/ jobs' # <<>> \/ retrieval.running # "no")
    BY DEF Reopen
  <2>2. jobs' = <<>> /\ retrieval.running = "no"
    BY <2>1
  <2> QED BY <2>2 DEF Reopen, NotFetched
<1>2. fetched'.db = FALSE /\ retrieval'.running = "no"
  BY <1>1
<1>3. /\ messageList' = <<>> /\ results' = <<>> /\ jobs' = <<>>
  BY <1>1
<1>4. Nothing'
  BY <1>2, <1>3 DEF Nothing
<1>5. (Nothing => OrderInv)'
  BY OrderNothing, PTL
<1> QED BY <1>4, <1>5

\* The list has no messages twice.
LEMMA LoadedList ==
    ASSUME Base, OrderInv
    PROVE  /\ Lists(messageList, Range(messageList)) /\ Range(messageList) \subseteq Nat
           /\ IsFiniteSet(Range(messageList)) /\ Len(messageList) = Cardinality(Range(messageList))
<1>1. IsSequence(messageList) /\ Range(messageList) \subseteq Nat
  BY BaseSays, ListFacts DEF Base
<1>2. Lists(messageList, Range(messageList))
  BY <1>1 DEF OrderInv, LoadedInv, Lists
<1> QED BY <1>1, <1>2, ListIs

\* Without anything under way, all of the loaded messages are in the list.
LEMMA LoadedAll ==
    ASSUME OrderInv, ~ListOutstanding, ListJobsTyped, ResultsTyped
    PROVE  /\ jobs = <<>> /\ results = <<>> /\ RemoveTimes(jobs) = {}
           /\ Loaded = Range(messageList) /\ Newest(Range(messageList), Seen)
           /\ fetched.db => Range(messageList) = Seen
<1>1. jobs = <<>>
  <2>1. IsSequence(jobs) /\ Range(jobs) = {}
    BY DEF ListOutstanding, ListJobsTyped, ToSet, Range
  <2>2. jobs \in Seq({})
    BY <2>1 DEF IsSequence
  <2> QED BY <2>2
<1>2. results = <<>>
  <2>1. IsSequence(results) /\ Range(results) = {}
    BY DEF ListOutstanding, ResultsTyped, ToSet, Range
  <2>2. results \in Seq({})
    BY <2>1 DEF IsSequence
  <2> QED BY <2>2
<1>3. AddedTimes(results) = {} /\ PageTimes(results) = {} /\ RemoveTimes(jobs) = {}
  BY <1>1, <1>2, NoTimes DEF AddedTimes, RemoveTimes
<1>4. Loaded = Range(messageList)
  BY <1>3 DEF Loaded
<1>5. Newest(Loaded, Seen \ RemoveTimes(jobs)) /\ (fetched.db => Loaded = Seen \ RemoveTimes(jobs))
  BY DEF OrderInv, LoadedInv
<1>6. Seen \ RemoveTimes(jobs) = Seen
  BY <1>3
<1> QED BY <1>1, <1>2, <1>3, <1>4, <1>5, <1>6

\* A page is asked for while nothing is under way.
LEMMA OrderAsked ==
    ASSUME Base, OrderInv, ~ListOutstanding, NEW mode \in Modes, NEW time \in Nat,
           jobs' = Append(jobs, [op |-> "fetch", mode |-> mode, from |-> Len(messageList), time |-> time]),
           mode = "unread" => messageList = <<>>,
           mode = "string" => time \in Seen \ Range(messageList),
           UNCHANGED <<storedMessages, removedMessages, messageList, results, fetched, retrieval>>
    PROVE  OrderInv'
<1> DEFINE q == [op |-> "fetch", mode |-> mode, from |-> Len(messageList), time |-> time]
<1>1. /\ jobs = <<>> /\ results = <<>> /\ RemoveTimes(jobs) = {}
      /\ Loaded = Range(messageList) /\ Newest(Range(messageList), Seen)
  BY LoadedAll, BaseSays
<1>2. ListJobsTyped /\ q \in ListJobs /\ jobs' = Append(jobs, q)
  BY PageQueryTyped, BaseSays
<1>3. q.op = "fetch" /\ q.mode = mode /\ q.from = Len(messageList) /\ q.time = time
  OBVIOUS
<1> HIDE DEF q
<1>4. Len(jobs) = 0 /\ DOMAIN jobs = {}
  BY <1>1, EmptyQueue
<1>5. /\ RemoveTimes(jobs') = RemoveTimes(jobs) \cup (IF q.op = "remove" THEN {q.time} ELSE {})
      /\ \A i \in DOMAIN jobs' : (i \in DOMAIN jobs /\ jobs'[i] = jobs[i]) \/ (i = Len(jobs) + 1 /\ jobs'[i] = q)
  BY <1>2, JobsAppended
<1>6. RemoveTimes(jobs') = {}
  BY <1>1, <1>3, <1>5
<1>7. \A i \in DOMAIN jobs' : i = 1 /\ jobs'[i] = q
  BY <1>4, <1>5
<1>8. Seen' = Seen /\ Loaded' = Loaded
  BY DEF Seen, Loaded
<1>9. ResultsInv'
  BY DEF OrderInv, ResultsInv
<1>10. LoadedInv'
  BY <1>1, <1>6, <1>8 DEF OrderInv, LoadedInv
<1>11. Len(messageList) = Cardinality(Range(messageList))
  BY LoadedList
<1>12. Range(messageList) \cup RemoveTimes(jobs') = Range(messageList)
  BY <1>6
<1>13. messageList = <<>> => Len(messageList) = 0
  OBVIOUS
<1>14. JobsInv'
  <2> SUFFICES ASSUME NEW i \in DOMAIN jobs', jobs'[i].op = "fetch"
               PROVE  /\ i = 1 /\ results' = <<>>
                      /\ Newest(Range(messageList) \cup RemoveTimes(jobs'), Seen)
                      /\ jobs'[i].from = Cardinality(Range(messageList) \cup RemoveTimes(jobs'))
                      /\ jobs'[i].mode = "string" =>
                            jobs'[i].time \in Seen \ (Range(messageList) \cup RemoveTimes(jobs'))
                      /\ jobs'[i].mode = "unread" => jobs'[i].from = 0
    BY <1>8 DEF JobsInv
  <2>1. i = 1 /\ jobs'[i] = q
    BY <1>7
  <2> QED BY <1>1, <1>3, <1>11, <1>12, <1>13, <2>1
<1>15. NoRetrievalYet'
  <2>1. NoRetrievalYet
    BY QueryInvIs DEF OrderInv
  <2>2. \A i \in DOMAIN jobs' : jobs'[i].op # "add"
    BY <1>3, <1>7
  <2> QED BY <2>1, <2>2 DEF NoRetrievalYet
<1>16. QueryInv'
  BY <1>14, <1>15 DEF QueryInv, JobsInv, NoRetrievalYet
<1> QED BY <1>9, <1>10, <1>16 DEF OrderInv

LEMMA OrderStutter ==
    ASSUME OrderInv, UNCHANGED <<storedMessages, removedMessages, messageList, results, jobs>>,
           fetched'.db = fetched.db, retrieval'.running = "no" \/ UNCHANGED retrieval
    PROVE  OrderInv'
<1>1. NoRetrievalYet'
  <2>1. NoRetrievalYet
    BY QueryInvIs DEF OrderInv
  <2> QED BY <2>1 DEF NoRetrievalYet
<1> QED BY <1>1, OrderKeeps

LEMMA OrderScroll ==
    ASSUME Base, OrderInv, Scroll, ~mixed'
    PROVE  OrderInv'
<1>1. /\ FetchMore(fetched.db, messageList)
      /\ ~fetched.db => ~ListOutstanding
      /\ UNCHANGED <<storedMessages, removedMessages, messageList, results>>
  BY DEF Scroll
<1>2. fetched.db \in BOOLEAN
  BY BaseSays DEF Asks, Fetched
<1>3. CASE fetched.db
  <2>1. UNCHANGED jobs /\ fetched'.db = TRUE
    BY <1>1, <1>2, <1>3, FetchMoreDoes
  <2>2. NoRetrievalYet'
    BY <2>1 DEF NoRetrievalYet
  <2> QED BY <1>1, <1>3, <2>1, <2>2, OrderKeeps
<1>4. CASE ~fetched.db
  <2>1. PICK mode \in {"unread", "page"} :
           /\ mode = "unread" => messageList = <<>>
           /\ jobs' = Append(jobs, [op |-> "fetch", mode |-> mode,
                                    from |-> Len(messageList), time |-> 0])
    BY <1>1, <1>2, <1>4, FetchMoreDoes
  <2>2. UNCHANGED <<retrieval, fetched>>
    BY <1>1, <1>2, <1>4, FetchMoreDoes
  <2>3. mode \in Modes /\ mode # "string" /\ 0 \in Nat
    BY DEF Modes
  <2> QED BY <1>1, <1>4, <2>1, <2>2, <2>3, OrderAsked
<1> QED BY <1>3, <1>4

LEMMA OrderSearch ==
    ASSUME Base, OrderInv, NEW mode \in {"id", "string"}, NEW time \in storedMessages \cup {0},
           SearchMessage(mode, time), ~mixed'
    PROVE  OrderInv'
<1>1. /\ jobs' = Append(jobs, [op |-> "fetch", mode |-> mode, from |-> Len(messageList), time |-> time])
      /\ time \notin Range(messageList) /\ ~ListOutstanding
      /\ mode = "string" => time \in Seen
      /\ UNCHANGED <<storedMessages, removedMessages, messageList, results, fetched, retrieval>>
  BY DEF SearchMessage, PageQuery, ToSet, Range, Seen
<1>2. mode \in Modes /\ mode # "unread" /\ time \in Nat
  BY ListFacts DEF Modes, Base
<1> QED BY <1>1, <1>2, OrderAsked

\* A message that is removed is not in the list any more.
LEMMA OrderRemove ==
    ASSUME Base, OrderInv, NEW time \in archive, RemoveMessage(time)
    PROVE  OrderInv'
<1> DEFINE q == [op |-> "remove", time |-> time]
<1>1. PICK i \in DOMAIN messageList : messageList[i] = time /\ messageList' = RemoveAt(messageList, i)
  BY DEF RemoveMessage
<1>2. /\ jobs' = Append(jobs, q)
      /\ UNCHANGED <<storedMessages, removedMessages, results, fetched, retrieval>>
  BY DEF RemoveMessage
<1>3. ListJobsTyped /\ q \in ListJobs /\ jobs' = Append(jobs, q)
  <2>1. archive \subseteq Nat
    BY ListFacts DEF Base
  <2>2. q \in [op : {"add", "remove"}, time : Nat]
    BY <2>1
  <2> QED BY <1>2, <2>2, BaseSays DEF ListJobs
<1>4. q.op = "remove" /\ q.time = time
  OBVIOUS
<1> HIDE DEF q
<1>5. /\ RemoveTimes(jobs') = RemoveTimes(jobs) \cup (IF q.op = "remove" THEN {q.time} ELSE {})
      /\ \A k \in DOMAIN jobs : k \in DOMAIN jobs' /\ jobs'[k] = jobs[k] /\ k < Len(jobs) + 1
      /\ \A k \in DOMAIN jobs' : (k \in DOMAIN jobs /\ jobs'[k] = jobs[k]) \/ (k = Len(jobs) + 1 /\ jobs'[k] = q)
  BY <1>3, JobsAppended
<1>6. RemoveTimes(jobs') = RemoveTimes(jobs) \cup {time}
  BY <1>4, <1>5
<1>7. /\ Lists(messageList, Range(messageList)) /\ Range(messageList) \subseteq Nat
  BY LoadedList
<1>8. Descending(messageList') /\ Range(messageList') = Range(messageList) \ {time}
  BY <1>1, <1>7, RemovedOf DEF Lists
<1>9. time \in Range(messageList)
  BY <1>1 DEF Range
<1>10. Seen' = Seen
  BY <1>2 DEF Seen
<1>11. Range(messageList) \cap (AddedTimes(results) \cup PageTimes(results)) = {}
  BY DEF OrderInv, ResultsInv
<1>12. Loaded' = Loaded \ {time}
  BY <1>2, <1>8, <1>9, <1>11 DEF Loaded
<1>13. Seen' \ RemoveTimes(jobs') = (Seen \ RemoveTimes(jobs)) \ {time}
  BY <1>6, <1>10
<1>14. ResultsInv'
  BY <1>2, <1>8 DEF OrderInv, ResultsInv
<1>15. LoadedInv'
  <2>1. Newest(Loaded, Seen \ RemoveTimes(jobs))
    BY DEF OrderInv, LoadedInv
  <2>2. Newest(Loaded', Seen' \ RemoveTimes(jobs'))
    BY <1>12, <1>13, <2>1 DEF Newest
  <2>3. (Loaded = Seen \ RemoveTimes(jobs)) => (Loaded' = Seen' \ RemoveTimes(jobs'))
    BY <1>12, <1>13
  <2>4. /\ fetched'.db => Loaded = Seen \ RemoveTimes(jobs)
        /\ \A k \in DOMAIN results' :
              results'[k].op # "added" /\ Len(results'[k].page) < DbLimit
                 /\ ~(results'[k].op = "id" /\ results'[k].page = <<>>) =>
              Loaded = Seen \ RemoveTimes(jobs)
    BY <1>2 DEF OrderInv, LoadedInv
  <2> QED BY <1>8, <2>2, <2>3, <2>4 DEF LoadedInv
<1>16. Range(messageList') \cup RemoveTimes(jobs') = Range(messageList) \cup RemoveTimes(jobs)
  BY <1>6, <1>8, <1>9
<1>17. JobsInv'
  <2>1. JobsInv
    BY QueryInvIs DEF OrderInv
  <2>2. \A k \in DOMAIN jobs' : jobs'[k].op = "fetch" => k \in DOMAIN jobs /\ jobs'[k] = jobs[k]
    BY <1>4, <1>5
  <2> QED BY <1>2, <1>10, <1>16, <2>1, <2>2 DEF JobsInv
<1>18. NoRetrievalYet'
  <2>1. NoRetrievalYet
    BY QueryInvIs DEF OrderInv
  <2>2. \A k \in DOMAIN jobs' : jobs'[k].op = "add" => k \in DOMAIN jobs /\ jobs'[k] = jobs[k]
    BY <1>4, <1>5
  <2> QED BY <1>2, <2>1, <2>2 DEF NoRetrievalYet
<1>19. QueryInv'
  BY <1>17, <1>18 DEF QueryInv, JobsInv, NoRetrievalYet
<1> QED BY <1>14, <1>15, <1>19 DEF OrderInv

\* A new message is newer than all others.
LEMMA OrderNew ==
    ASSUME Base, OrderInv, NewMessage
    PROVE  OrderInv'
<1>1. PICK m \in Nat :
         /\ archive = 1..m
         /\ [op |-> "add", time |-> m + 1] \in ListJobs
         /\ jobs' = Append(jobs, [op |-> "add", time |-> m + 1])
         /\ UNCHANGED <<storedMessages, removedMessages, messageList, fetched, retrieval, results>>
  BY NewMessageAdds
<1> DEFINE q == [op |-> "add", time |-> m + 1]
<1>2. ListJobsTyped /\ q \in ListJobs /\ jobs' = Append(jobs, q)
  BY <1>1, BaseSays
<1>3. q.op = "add" /\ q.time = m + 1
  OBVIOUS
<1> HIDE DEF q
<1>4. /\ RemoveTimes(jobs') = RemoveTimes(jobs) \cup (IF q.op = "remove" THEN {q.time} ELSE {})
      /\ \A k \in DOMAIN jobs : k \in DOMAIN jobs' /\ jobs'[k] = jobs[k] /\ k < Len(jobs) + 1
      /\ \A k \in DOMAIN jobs' : (k \in DOMAIN jobs /\ jobs'[k] = jobs[k]) \/ (k = Len(jobs) + 1 /\ jobs'[k] = q)
      /\ DOMAIN jobs \subseteq Nat /\ Len(jobs) \in Nat
  BY <1>2, JobsAppended
<1>5. RemoveTimes(jobs') = RemoveTimes(jobs)
  BY <1>3, <1>4
<1>6. \A k \in DOMAIN jobs' : jobs'[k].op = "fetch" => k \in DOMAIN jobs /\ jobs'[k] = jobs[k]
  BY <1>3, <1>4
<1>7. storedMessages \subseteq 1..m /\ \A k \in DOMAIN jobs : jobs[k].op = "add" => jobs[k].time \in 1..m
  <2>1. Kept \subseteq 1..m
    BY <1>1 DEF Base, ArchiveInv
  <2> QED BY <2>1 DEF Kept, AddTimes, TimesOf
<1>8. NoRetrievalYet'
  <2> SUFFICES ASSUME ~fetched'.db
               PROVE  /\ retrieval'.running = "no"
                      /\ \A i \in DOMAIN jobs' : jobs'[i].op = "add" =>
                            /\ \A t \in storedMessages' : jobs'[i].time > t
                            /\ \A k \in DOMAIN jobs' : jobs'[k].op = "add" /\ k < i => jobs'[i].time > jobs'[k].time
    BY DEF NoRetrievalYet
  <2>1. NoRetrievalYet /\ ~fetched.db
    BY <1>1, QueryInvIs DEF OrderInv
  <2>2. retrieval'.running = "no"
    BY <1>1, <2>1 DEF NoRetrievalYet
  <2>3. ASSUME NEW i \in DOMAIN jobs', jobs'[i].op = "add"
        PROVE  /\ \A t \in storedMessages' : jobs'[i].time > t
               /\ \A k \in DOMAIN jobs' : jobs'[k].op = "add" /\ k < i => jobs'[i].time > jobs'[k].time
    <3>1. CASE i \in DOMAIN jobs /\ jobs'[i] = jobs[i]
      <4>1. \A t \in storedMessages' : jobs'[i].time > t
        BY <1>1, <2>1, <2>3, <3>1 DEF NoRetrievalYet
      <4>2. ASSUME NEW k \in DOMAIN jobs', jobs'[k].op = "add", k < i
            PROVE  jobs'[i].time > jobs'[k].time
        <5>1. i < Len(jobs) + 1 /\ i \in Nat
          BY <1>4, <3>1
        <5>2. k # Len(jobs) + 1
          BY <1>4, <4>2, <5>1
        <5>3. k \in DOMAIN jobs /\ jobs'[k] = jobs[k]
          BY <1>4, <4>2, <5>2
        <5> QED BY <2>1, <2>3, <3>1, <4>2, <5>3 DEF NoRetrievalYet
      <4> QED BY <4>1, <4>2
    <3>2. CASE i = Len(jobs) + 1 /\ jobs'[i] = q
      <4>1. \A t \in storedMessages' : jobs'[i].time > t
        <5>1. storedMessages' \subseteq 1..m
          BY <1>1, <1>7
        <5>2. jobs'[i].time = m + 1
          BY <1>3, <3>2
        <5>3. \A t \in 1..m : m + 1 > t
          BY <1>1
        <5> QED BY <5>1, <5>2, <5>3
      <4>2. ASSUME NEW k \in DOMAIN jobs', jobs'[k].op = "add", k < i
            PROVE  jobs'[i].time > jobs'[k].time
        <5>1. k # Len(jobs) + 1
          BY <1>4, <3>2, <4>2
        <5>2. k \in DOMAIN jobs /\ jobs'[k] = jobs[k]
          BY <1>4, <4>2, <5>1
        <5>3. jobs'[k].time \in 1..m
          BY <1>7, <4>2, <5>2
        <5> QED BY <1>1, <1>3, <3>2, <5>3
      <4> QED BY <4>1, <4>2
    <3> QED BY <1>4, <2>3, <3>1, <3>2
  <2> QED BY <2>2, <2>3
<1> QED BY <1>1, <1>5, <1>6, <1>8, OrderKeeps

\* A retrieval begins after the database is read.
LEMMA OrderBacklog ==
    ASSUME Base, OrderInv, BacklogRetrieved
    PROVE  OrderInv'
<1> DEFINE S == Earlier \ Excess(Earlier)
           adds == [i \in 1..Cardinality(S) |-> [op |-> "add", time |-> Reverse(NewestFirst(S))[i]]]
<1>1. /\ retrieval' = NoRetrieval /\ retrieval.running # "no"
      /\ UNCHANGED <<storedMessages, removedMessages, messageList, archive, mixed, results>>
      /\ \/ UNCHANGED jobs /\ LoadingEnded(FALSE)
         \/ jobs' = jobs \o adds /\ LoadingEnded(Excess(Earlier) = {})
  BY BacklogDoes
<1>2. fetched.db /\ fetched'.db = fetched.db
  <2>1. NoRetrievalYet
    BY QueryInvIs DEF OrderInv
  <2> QED BY <1>1, <2>1 DEF NoRetrievalYet, LoadingEnded
<1>3. NoRetrievalYet'
  BY <1>2 DEF NoRetrievalYet
<1>4. CASE UNCHANGED jobs
  BY <1>1, <1>2, <1>3, <1>4, OrderKeeps
<1>5. CASE jobs' = jobs \o adds
  <2>1. S \subseteq Nat /\ IsFiniteSet(S)
    <3>1. S \subseteq archive /\ archive \subseteq Nat /\ IsFiniteSet(archive)
      BY RetrievedNewest, ListFacts DEF Base
    <3> QED BY <3>1, FS_Subset
  <2> HIDE DEF S
  <2>2. /\ IsSequence(adds) /\ \A i \in DOMAIN adds : adds[i].op = "add"
        /\ TimesOf(adds, "remove") = {}
    BY <2>1, RetrievedAdds
  <2> HIDE DEF adds
  <2>3. IsSequence(jobs) /\ IsSequence(adds)
    BY <2>2, BaseSays DEF ListJobsTyped
  <2>4. TimesOf(jobs \o adds, "remove") = TimesOf(jobs, "remove") \cup TimesOf(adds, "remove")
    BY <2>3, TimesJoined
  <2>5. RemoveTimes(jobs') = RemoveTimes(jobs)
    BY <1>5, <2>2, <2>4 DEF RemoveTimes
  <2>6. \A i \in DOMAIN jobs' : \/ i \in DOMAIN jobs /\ jobs'[i] = jobs[i]
                                \/ i - Len(jobs) \in DOMAIN adds /\ jobs'[i] = adds[i - Len(jobs)]
    BY <1>5, <2>3, Joined
  <2>7. \A i \in DOMAIN jobs' : jobs'[i].op = "fetch" => i \in DOMAIN jobs /\ jobs'[i] = jobs[i]
    BY <2>2, <2>6
  <2> QED BY <1>1, <1>2, <1>3, <2>5, <2>7, OrderKeeps
<1> QED BY <1>1, <1>4, <1>5

\* The message that a search looks for is reached.
LEMMA SearchedReached ==
    ASSUME Base, NEW job \in ListJobs, job.op = "fetch", NEW S, Newest(S, Seen),
           job.from = Cardinality(S), job.time \in Seen \ S
    PROVE  Reach(job) # 0
<1> DEFINE x == job.time
           C == {t \in Seen : t >= x}
           F == {t \in Seen : t = x}
<1>1. Seen \subseteq Nat /\ IsFiniteSet(Seen)
  BY ListFacts DEF Base
<1>2. Reach(job) = IF F = {} \/ Cardinality(C) <= job.from THEN 0 ELSE Cardinality(C) - job.from
  BY DEF Reach, Seen
<1>3. F # {}
  OBVIOUS
<1>4. C \in SUBSET Seen /\ S \in SUBSET Seen
  BY DEF Newest
<1>5. IsFiniteSet(C) /\ IsFiniteSet(S)
  BY <1>1, <1>4, FS_Subset
<1>6. Cardinality(C) \in Nat /\ Cardinality(S) \in Nat
  BY <1>5, FS_CardinalityType
<1>7. \A s \in S : s > x
  <2>1. \A s \in S : ~(x > s) /\ s # x
    BY DEF Newest
  <2>2. x \in Nat /\ \A s \in S : s \in Nat
    BY <1>1, <1>4
  <2> HIDE DEF x
  <2> QED BY <2>1, <2>2
<1>8. x \in Nat /\ x \notin S /\ x \in C
  <2>1. x \in Nat /\ x \in Seen /\ x \notin S
    BY <1>1
  <2> QED BY <2>1
<1>9. S \cup {x} \in SUBSET C
  <2>1. \A s \in S : s \in Seen /\ s \in Nat /\ s > x
    BY <1>1, <1>4, <1>7
  <2>2. \A s \in S : s \in C
    BY <1>8, <2>1
  <2> HIDE DEF C, x
  <2> QED BY <1>8, <2>2
<1> HIDE DEF C, x, F
<1>10. Cardinality(S \cup {x}) = Cardinality(S) + 1
  <2>1. IsFiniteSet(S) => Cardinality(S \cup {x}) = IF x \in S THEN Cardinality(S) ELSE Cardinality(S) + 1
    BY FS_AddElement
  <2> QED BY <1>5, <1>8, <2>1
<1>11. Cardinality(S \cup {x}) <= Cardinality(C)
  BY <1>5, <1>9, FS_Subset
<1> QED BY <1>2, <1>3, <1>6, <1>10, <1>11

\* A page that is read
LEMMA OrderFetch ==
    ASSUME Base, OrderInv, RunListJob, Head(jobs).op = "fetch"
    PROVE  OrderInv'
<1> DEFINE job == Head(jobs)
           R == RemoveTimes(jobs)
           S == Range(messageList) \cup R
<1>1. /\ jobs # <<>> /\ jobs' = Tail(jobs)
      /\ UNCHANGED <<storedMessages, removedMessages, messageList, fetched, retrieval>>
  BY RunFetch
<1>2. PICK page \in FetchedPages(job) : results' = Append(results, [op |-> job.mode, page |-> page])
  BY RunFetch
<1>3. ListJobsTyped /\ ResultsTyped
  BY BaseSays
<1>4. /\ job \in ListJobs /\ job = jobs[1] /\ 1 \in DOMAIN jobs
      /\ RemoveTimes(jobs) = RemoveTimes(jobs') \cup (IF job.op = "remove" THEN {job.time} ELSE {})
      /\ \A i \in DOMAIN jobs' : i + 1 \in DOMAIN jobs /\ jobs'[i] = jobs[i + 1] /\ i + 1 > 1 /\ i \in Nat
  BY <1>1, <1>3, JobsTaken
<1>5. job.op = "fetch" /\ job.mode \in Modes
  BY <1>4, ListJobTyped
<1>6. RemoveTimes(jobs') = R
  BY <1>4, <1>5
<1>7. JobsInv /\ NoRetrievalYet
  BY QueryInvIs DEF OrderInv
<1>8. /\ results = <<>> /\ Newest(S, Seen) /\ job.from = Cardinality(S)
      /\ job.mode = "string" => job.time \in Seen \ S
      /\ job.mode = "unread" => job.from = 0
  <2>1. jobs[1].op = "fetch"
    BY <1>4, <1>5
  <2>2. /\ results = <<>>
        /\ Newest(Range(messageList) \cup RemoveTimes(jobs), Seen)
        /\ jobs[1].from = Cardinality(Range(messageList) \cup RemoveTimes(jobs))
        /\ jobs[1].mode = "string" =>
              jobs[1].time \in Seen \ (Range(messageList) \cup RemoveTimes(jobs))
        /\ jobs[1].mode = "unread" => jobs[1].from = 0
    BY <1>4, <1>7, <2>1 DEF JobsInv
  <2> QED BY <1>4, <2>2
<1>9. \A i \in DOMAIN jobs' : jobs'[i].op # "fetch"
  BY <1>4, <1>7 DEF JobsInv
<1>10. Seen' = Seen /\ Seen \subseteq Nat /\ IsFiniteSet(Seen) /\ Range(messageList) \subseteq Nat
  BY <1>1, ListFacts DEF Base, Seen
<1> HIDE DEF job, S, R
<1>11. /\ IsSequence(page) /\ Descending(page) /\ Range(page) \subseteq Seen \ S
       /\ Newest(S \cup Range(page), Seen)
       /\ Len(page) < DbLimit /\ ~(job.mode = "id" /\ page = <<>>) => S \cup Range(page) = Seen
  <2>1. CASE \E count \in Nat :
                 /\ count >= DbLimit
                 /\ page = PageOf(IF job.mode = "unread" THEN 0 ELSE job.from, count)
    <3>1. PICK count \in Nat :
                 /\ count >= DbLimit
                 /\ page = PageOf(IF job.mode = "unread" THEN 0 ELSE job.from, count)
      BY <2>1
    <3>2. page = PageOf(Cardinality(S), count)
      BY <1>8, <3>1
    <3>3. /\ IsSequence(page) /\ Descending(page) /\ Range(page) \subseteq Seen \ S
          /\ Newest(S \cup Range(page), Seen)
          /\ Len(page) < count => S \cup Range(page) = Seen
      BY <1>8, <1>10, <3>2, PageOfNewest
    <3>4. Len(page) \in Nat /\ DbLimit \in Nat
      BY <3>3, ListAssumption DEF IsSequence
    <3>5. Len(page) < DbLimit => Len(page) < count
      BY <3>1, <3>4
    <3> QED BY <3>3, <3>5
  <2>2. CASE page = <<>> /\ job.mode \in {"id", "string"} /\ Reach(job) = 0
    <3>1. job.mode # "string"
      BY <1>4, <1>5, <1>8, <2>2, SearchedReached
    <3>2. Range(page) = {} /\ IsSequence(page) /\ Descending(page)
      BY <2>2, EmptyQueue DEF Range, Descending
    <3>3. S \cup Range(page) = S
      BY <3>2
    <3> QED BY <1>8, <2>2, <3>1, <3>2, <3>3
  <2> QED BY <1>4, <1>5, <2>1, <2>2, FetchedOf
<1> DEFINE r == [op |-> job.mode, page |-> page]
<1>12. r.op = job.mode /\ r.page = page /\ r.op # "added"
  BY <1>5 DEF Modes
<1>13. results' = Append(results, r) /\ AResult(r, storedMessages) /\ UNCHANGED storedMessages
  BY <1>1, <1>2, <1>4, <1>5, FetchedTyped
<1> HIDE DEF r
<1>14. /\ AddedTimes(results') = AddedTimes(results) \cup (IF r.op = "added" THEN {r.time} ELSE {})
       /\ PageTimes(results') = PageTimes(results) \cup (IF r.op # "added" THEN Range(r.page) ELSE {})
       /\ \A i \in DOMAIN results' : \/ i \in DOMAIN results /\ results'[i] = results[i] /\ i # Len(results) + 1
                                     \/ i = Len(results) + 1 /\ results'[i] = r
  BY <1>3, <1>13, ResultsAppended
<1>15. DOMAIN results = {} /\ Len(results) = 0 /\ AddedTimes(results) = {} /\ PageTimes(results) = {}
  BY <1>8, EmptyQueue, NoTimes DEF AddedTimes
<1>16. /\ AddedTimes(results') = {} /\ PageTimes(results') = Range(page)
       /\ \A i \in DOMAIN results' : i = 1 /\ results'[i] = r
  BY <1>12, <1>14, <1>15
<1>17. Range(messageList) \subseteq S /\ R \subseteq S /\ S = Range(messageList) \cup R
  BY DEF S
<1>18. Loaded = Range(messageList) /\ Loaded' = Range(messageList) \cup Range(page)
  BY <1>1, <1>15, <1>16 DEF Loaded
<1>19. ResultsInv'
  <2>1. \A t \in Range(messageList), u \in Range(page) : t > u
    <3> SUFFICES ASSUME NEW t \in Range(messageList), NEW u \in Range(page)
                 PROVE  t > u
      OBVIOUS
    <3>1. t \in S /\ u \in Seen /\ u \notin S
      BY <1>11, <1>17
    <3>2. ~(u > t) /\ u # t
      BY <1>8, <3>1 DEF Newest
    <3>3. u \in Nat /\ t \in Nat
      BY <1>10, <3>1
    <3> QED BY <3>2, <3>3
  <2>2. Range(messageList) \cap Range(page) = {}
    BY <1>11, <1>17
  <2>3. Range(messageList') = Range(messageList)
    BY <1>1
  <2> QED BY <1>11, <1>12, <1>16, <2>1, <2>2, <2>3 DEF ResultsInv
<1>20. Newest(Loaded, Seen \ R) /\ (fetched.db => Loaded = Seen \ R) /\ Descending(messageList)
  BY DEF OrderInv, LoadedInv, R
<1>21. Range(page) \cap R = {} /\ Range(page) \subseteq Seen /\ Loaded' \subseteq Seen \ R
  BY <1>11, <1>17, <1>18, <1>20 DEF Newest
<1>22. Newest(Loaded', Seen \ R)
  <2> SUFFICES ASSUME NEW s \in Loaded', NEW t \in Seen \ R, t > s
               PROVE  t \in Loaded'
    BY <1>21 DEF Newest
  <2>1. t \in S \cup Range(page)
    BY <1>11, <1>17, <1>18 DEF Newest
  <2> QED BY <1>17, <1>18, <2>1
<1>23. S \cup Range(page) = Seen => Loaded' = Seen \ R
  BY <1>17, <1>18, <1>21
<1>24. fetched.db => Loaded' = Seen \ R
  BY <1>18, <1>20, <1>21
<1>25. LoadedInv'
  <2>1. \A i \in DOMAIN results' : ~(results'[i].op = "id" /\ results'[i].page = <<>>)
                                   /\ Len(results'[i].page) < DbLimit => Loaded' = Seen \ R
    BY <1>11, <1>12, <1>16, <1>23
  <2> QED BY <1>1, <1>6, <1>10, <1>20, <1>22, <1>24, <2>1 DEF LoadedInv
<1>26. JobsInv'
  BY <1>9 DEF JobsInv
<1>27. NoRetrievalYet'
  <2>1. DOMAIN jobs \subseteq Nat
    BY <1>3 DEF ListJobsTyped, IsSequence
  <2>2. \A i, k \in DOMAIN jobs' : k < i => k + 1 < i + 1
    BY <1>4
  <2> QED BY <1>1, <1>4, <1>7, <2>2 DEF NoRetrievalYet
<1>28. QueryInv'
  BY <1>26, <1>27 DEF QueryInv, JobsInv, NoRetrievalYet
<1> QED BY <1>19, <1>25, <1>28 DEF OrderInv

\* The order of the rest of the jobs
LEMMA NoRetrievalTail ==
    ASSUME ListJobsTyped, NoRetrievalYet, jobs # <<>>, jobs' = Tail(jobs),
           UNCHANGED <<fetched, retrieval>>,
           \/ UNCHANGED storedMessages
           \/ Head(jobs).op = "add" /\ storedMessages' = storedMessages \cup {Head(jobs).time}
    PROVE  NoRetrievalYet'
<1>1. /\ Head(jobs) = jobs[1] /\ 1 \in DOMAIN jobs
      /\ \A i \in DOMAIN jobs' : i + 1 \in DOMAIN jobs /\ jobs'[i] = jobs[i + 1] /\ i + 1 > 1 /\ i \in Nat
  BY JobsTaken
<1> SUFFICES ASSUME ~fetched.db
             PROVE  /\ retrieval.running = "no"
                    /\ \A i \in DOMAIN jobs' : jobs'[i].op = "add" =>
                          /\ \A t \in storedMessages' : jobs'[i].time > t
                          /\ \A k \in DOMAIN jobs' : jobs'[k].op = "add" /\ k < i => jobs'[i].time > jobs'[k].time
  BY DEF NoRetrievalYet
<1>2. retrieval.running = "no"
  BY DEF NoRetrievalYet
<1>3. ASSUME NEW i \in DOMAIN jobs', jobs'[i].op = "add"
      PROVE  /\ \A t \in storedMessages' : jobs'[i].time > t
             /\ \A k \in DOMAIN jobs' : jobs'[k].op = "add" /\ k < i => jobs'[i].time > jobs'[k].time
  <2> DEFINE n == i + 1
  <2>1. n \in DOMAIN jobs /\ jobs'[i] = jobs[n] /\ 1 < n /\ i \in Nat
    BY <1>1
  <2>2. /\ \A t \in storedMessages : jobs[n].time > t
        /\ \A k \in DOMAIN jobs : jobs[k].op = "add" /\ k < n => jobs[n].time > jobs[k].time
    BY <1>3, <2>1 DEF NoRetrievalYet
  <2>3. \A t \in storedMessages' : jobs[n].time > t
    BY <1>1, <2>1, <2>2
  <2>4. ASSUME NEW k \in DOMAIN jobs', jobs'[k].op = "add", k < i
        PROVE  jobs'[i].time > jobs'[k].time
    <3>1. k + 1 \in DOMAIN jobs /\ jobs'[k] = jobs[k + 1] /\ k + 1 < n
      BY <1>1, <2>1, <2>4
    <3> HIDE DEF n
    <3> QED BY <2>1, <2>2, <2>4, <3>1
  <2> QED BY <2>1, <2>3, <2>4
<1> QED BY <1>2, <1>3

\* A message that is stored
LEMMA OrderAdd ==
    ASSUME Base, OrderInv, RunListJob, Head(jobs).op = "add"
    PROVE  OrderInv'
<1> DEFINE job == Head(jobs)
           x == job.time
           R == RemoveTimes(jobs)
<1>1. /\ jobs # <<>> /\ jobs' = Tail(jobs)
      /\ storedMessages' = storedMessages \cup {x}
      /\ results' = IF x \in storedMessages THEN results
                    ELSE Append(results, [op |-> "added", time |-> x])
      /\ UNCHANGED <<removedMessages, messageList, fetched, retrieval>>
  BY RunAdd
<1>2. ListJobsTyped /\ ResultsTyped /\ R \subseteq storedMessages /\ removedMessages \subseteq storedMessages
      /\ Range(messageList) \subseteq storedMessages
  BY BaseSays DEF Base, ListTypes
<1>3. /\ job \in ListJobs /\ job = jobs[1] /\ 1 \in DOMAIN jobs
      /\ RemoveTimes(jobs) = RemoveTimes(jobs') \cup (IF job.op = "remove" THEN {job.time} ELSE {})
      /\ \A i \in DOMAIN jobs' : i + 1 \in DOMAIN jobs /\ jobs'[i] = jobs[i + 1] /\ i + 1 > 1 /\ i \in Nat
  BY <1>1, <1>2, JobsTaken
<1>4. RemoveTimes(jobs') = R /\ job.op = "add"
  BY <1>3
<1>5. JobsInv /\ NoRetrievalYet
  BY QueryInvIs DEF OrderInv
<1>6. \A i \in DOMAIN jobs' : jobs'[i].op # "fetch"
  BY <1>3, <1>5 DEF JobsInv
<1>7. NoRetrievalYet'
  BY <1>1, <1>2, <1>4, <1>5, NoRetrievalTail
<1>8. JobsInv'
  BY <1>6 DEF JobsInv
<1>9. QueryInv'
  BY <1>7, <1>8 DEF QueryInv, JobsInv, NoRetrievalYet
<1>10. fetched.db \/ \A t \in storedMessages : x > t
  BY <1>3, <1>4, <1>5 DEF NoRetrievalYet
<1>11. Newest(Loaded, Seen \ R) /\ (fetched.db => Loaded = Seen \ R) /\ Descending(messageList)
  BY DEF OrderInv, LoadedInv
<1> HIDE DEF job, x, R
<1>12. CASE x \in storedMessages
  <2>1. UNCHANGED <<storedMessages, removedMessages, messageList, results>>
    BY <1>1, <1>12
  <2> QED BY <1>1, <1>4, <1>6, <1>7, <2>1, OrderKeeps DEF R
<1>13. CASE x \notin storedMessages
  <2> DEFINE r == [op |-> "added", time |-> x]
             T == storedMessages \cup {x}
  <2>1. r.op = "added" /\ r.time = x /\ AResult(r, T) /\ storedMessages \subseteq T /\ storedMessages' = T
        /\ results' = Append(results, r)
    BY <1>1, <1>13 DEF AResult
  <2> HIDE DEF r, T
  <2>2. /\ AddedTimes(results') = AddedTimes(results) \cup (IF r.op = "added" THEN {r.time} ELSE {})
        /\ PageTimes(results') = PageTimes(results) \cup (IF r.op # "added" THEN Range(r.page) ELSE {})
        /\ \A i \in DOMAIN results : i \in DOMAIN results' /\ results'[i] = results[i]
        /\ \A i \in DOMAIN results' : \/ i \in DOMAIN results /\ results'[i] = results[i] /\ i # Len(results) + 1
                                      \/ i = Len(results) + 1 /\ results'[i] = r
    BY <1>2, <2>1, ResultsAppended
  <2>3. AddedTimes(results') = AddedTimes(results) \cup {x} /\ PageTimes(results') = PageTimes(results)
    BY <2>1, <2>2
  <2>4. \A i \in DOMAIN results : results[i].op = "added" => results[i].time # x
    BY <1>2, <1>13, AResultTyped DEF ResultsTyped
  <2>5. x \notin PageTimes(results)
    <3>1. \A i \in DOMAIN results : results[i].op # "added" => Range(results[i].page) \subseteq storedMessages
      BY <1>2, AResultTyped DEF ResultsTyped
    <3>2. PageTimes(results) \subseteq storedMessages
      BY <3>1 DEF PageTimes
    <3> QED BY <1>13, <3>2
  <2>6. x \notin Range(messageList) /\ x \notin R
    BY <1>2, <1>13
  <2>7. Seen' = Seen \cup {x} /\ Seen' \ R = (Seen \ R) \cup {x} /\ Loaded' = Loaded \cup {x}
    <3>1. Seen' = Seen \cup {x}
      BY <1>1, <1>2, <1>13 DEF Seen
    <3>2. Loaded' = Loaded \cup {x}
      BY <1>1, <2>3 DEF Loaded
    <3> QED BY <2>6, <3>1, <3>2
  <2>8. ResultsInv'
    <3>1. ResultsInv
      BY DEF OrderInv
    <3>2. \A i \in DOMAIN results' : results'[i].op # "added" => i \in DOMAIN results /\ results'[i] = results[i]
      BY <2>1, <2>2
    <3>3. /\ \A i \in DOMAIN results' : results'[i].op # "added" => i = 1
          /\ \A i \in DOMAIN results' : results'[i].op # "added" => Descending(results'[i].page)
      BY <3>1, <3>2 DEF ResultsInv
    <3>4. \A i, k \in DOMAIN results' : results'[i].op = "added" /\ results'[k].op = "added" /\ i # k =>
             results'[i].time # results'[k].time
      BY <2>1, <2>2, <2>4, <3>1 DEF ResultsInv
    <3>5. /\ AddedTimes(results') \cap PageTimes(results') = {}
          /\ Range(messageList') \cap (AddedTimes(results') \cup PageTimes(results')) = {}
          /\ \A t \in Range(messageList'), u \in PageTimes(results') : t > u
      BY <1>1, <2>3, <2>5, <2>6, <3>1 DEF ResultsInv
    <3> QED BY <3>3, <3>4, <3>5 DEF ResultsInv
  <2>9. Loaded = Seen \ R => Loaded' = Seen' \ R
    BY <2>7
  <2>10. Newest(Loaded', Seen' \ R)
    <3>1. CASE fetched.db
      BY <1>11, <2>9, <3>1 DEF Newest
    <3>2. CASE \A t \in storedMessages : x > t
      <4>1. Seen \subseteq storedMessages /\ \A t \in storedMessages : t \in Nat /\ x \in Nat
        BY <1>3, ListFacts, ListJobTyped DEF Base, x
      <4>2. \A t \in Seen : ~(t > x)
        BY <3>2, <4>1
      <4>3. Loaded' \subseteq Seen' \ R
        BY <1>11, <2>7 DEF Newest
      <4>4. ASSUME NEW s \in Loaded', NEW t \in Seen' \ R, t > s
            PROVE  t \in Loaded'
        <5>1. CASE t = x
          BY <2>7, <5>1
        <5>2. CASE t \in Seen \ R /\ s = x
          BY <4>2, <4>4, <5>2
        <5>3. CASE t \in Seen \ R /\ s \in Loaded
          BY <1>11, <2>7, <4>4, <5>3 DEF Newest
        <5> QED BY <2>7, <5>1, <5>2, <5>3
      <4> QED BY <4>3, <4>4 DEF Newest
    <3> QED BY <1>10, <3>1, <3>2
  <2>11. LoadedInv'
    <3>1. \A i \in DOMAIN results' : results'[i].op # "added" => i \in DOMAIN results /\ results'[i] = results[i]
      BY <2>1, <2>2
    <3>2. \A i \in DOMAIN results :
             results[i].op # "added" /\ Len(results[i].page) < DbLimit
                /\ ~(results[i].op = "id" /\ results[i].page = <<>>) => Loaded = Seen \ R
      BY DEF OrderInv, LoadedInv, R
    <3> QED BY <1>1, <1>4, <1>11, <2>9, <2>10, <3>1, <3>2 DEF LoadedInv
  <2> QED BY <1>9, <2>8, <2>11 DEF OrderInv
<1> QED BY <1>12, <1>13

\* A message that is marked as removed
LEMMA OrderRemoved ==
    ASSUME Base, OrderInv, RunListJob, Head(jobs).op = "remove"
    PROVE  OrderInv'
<1> DEFINE job == Head(jobs)
           x == job.time
<1>1. /\ jobs # <<>> /\ jobs' = Tail(jobs)
      /\ removedMessages' = removedMessages \cup ({x} \cap storedMessages)
      /\ UNCHANGED <<storedMessages, results, messageList, fetched, retrieval>>
  BY RunRemove
<1>2. ListJobsTyped /\ RemoveTimes(jobs) \subseteq storedMessages
  BY BaseSays
<1>3. /\ job \in ListJobs /\ job = jobs[1] /\ 1 \in DOMAIN jobs
      /\ RemoveTimes(jobs) = RemoveTimes(jobs') \cup (IF job.op = "remove" THEN {job.time} ELSE {})
      /\ \A i \in DOMAIN jobs' : i + 1 \in DOMAIN jobs /\ jobs'[i] = jobs[i + 1] /\ i + 1 > 1 /\ i \in Nat
  BY <1>1, <1>2, JobsTaken
<1>4. RemoveTimes(jobs) = RemoveTimes(jobs') \cup {x} /\ x \in storedMessages
  BY <1>2, <1>3
<1>5. JobsInv /\ NoRetrievalYet
  BY QueryInvIs DEF OrderInv
<1>6. \A i \in DOMAIN jobs' : jobs'[i].op # "fetch"
  BY <1>3, <1>5 DEF JobsInv
<1>7. NoRetrievalYet'
  BY <1>1, <1>2, <1>5, NoRetrievalTail
<1>8. JobsInv'
  BY <1>6 DEF JobsInv
<1>9. QueryInv'
  BY <1>7, <1>8 DEF QueryInv, JobsInv, NoRetrievalYet
<1> HIDE DEF job, x
<1>10. Seen' = Seen \ {x}
  BY <1>1, <1>4 DEF Seen
<1>11. Seen' \ RemoveTimes(jobs') = Seen \ RemoveTimes(jobs)
  BY <1>4, <1>10
<1>12. Loaded' = Loaded
  BY <1>1 DEF Loaded
<1>13. LoadedInv'
  BY <1>1, <1>11, <1>12 DEF OrderInv, LoadedInv
<1>14. ResultsInv'
  BY <1>1 DEF OrderInv, ResultsInv
<1> QED BY <1>9, <1>13, <1>14 DEF OrderInv

LEMMA OrderRun ==
    ASSUME Base, OrderInv, RunListJob
    PROVE  OrderInv'
<1>1. Head(jobs).op \in {"fetch", "add", "remove"}
  <2>1. jobs # <<>> /\ jobs' = Tail(jobs)
    BY DEF RunListJob
  <2>2. Head(jobs) \in ListJobs
    BY <2>1, BaseSays, JobsTaken
  <2> QED BY <2>2, ListJobTyped
<1> QED BY <1>1, OrderFetch, OrderAdd, OrderRemoved

\* What is handled is in the list.
LEMMA OrderHandle ==
    ASSUME Base, OrderInv, HandleResult
    PROVE  OrderInv'
<1> DEFINE r == Head(results)
           R == RemoveTimes(jobs)
<1>1. /\ results # <<>> /\ results' = Tail(results) /\ UNCHANGED <<storedMessages, removedMessages>>
  BY DEF HandleResult
<1>2. ResultsTyped /\ IsSequence(messageList) /\ Range(messageList) \subseteq Nat
  BY BaseSays, ListFacts DEF Base
<1>3. /\ AResult(r, storedMessages)
      /\ r = results[1] /\ 1 \in DOMAIN results
      /\ AddedTimes(results) = AddedTimes(results') \cup (IF r.op = "added" THEN {r.time} ELSE {})
      /\ PageTimes(results) = PageTimes(results') \cup (IF r.op # "added" THEN Range(r.page) ELSE {})
      /\ \A i \in DOMAIN results' : i + 1 \in DOMAIN results /\ results'[i] = results[i + 1]
                                    /\ i + 1 # 1 /\ i \in Nat
  BY <1>1, <1>2, ResultsTaken
<1>4. ResultsInv /\ LoadedInv /\ JobsInv /\ NoRetrievalYet
  BY QueryInvIs DEF OrderInv
<1>5. \A i \in DOMAIN results' : results'[i].op = "added"
  BY <1>3, <1>4 DEF ResultsInv
<1>6. PageTimes(results') = {}
  BY <1>5 DEF PageTimes
<1>7. Seen' = Seen
  BY <1>1 DEF Seen
<1>8. /\ Descending(messageList) /\ Newest(Loaded, Seen \ R) /\ (fetched.db => Loaded = Seen \ R)
      /\ r.op # "added" /\ Len(r.page) < DbLimit /\ ~(r.op = "id" /\ r.page = <<>>) => Loaded = Seen \ R
  BY <1>3, <1>4 DEF LoadedInv
<1>9. \A i \in DOMAIN jobs : jobs[i].op # "fetch"
  BY <1>1, <1>4 DEF JobsInv
\* What is left
<1>10. \A i, k \in DOMAIN results' : results'[i].op = "added" /\ results'[k].op = "added" /\ i # k =>
          results'[i].time # results'[k].time
  <2> SUFFICES ASSUME NEW i \in DOMAIN results', NEW k \in DOMAIN results',
                      results'[i].op = "added", results'[k].op = "added", i # k
               PROVE  results'[i].time # results'[k].time
    OBVIOUS
  <2>1. i + 1 \in DOMAIN results /\ results'[i] = results[i + 1] /\ i \in Nat
        /\ k + 1 \in DOMAIN results /\ results'[k] = results[k + 1] /\ k \in Nat
    BY <1>3
  <2>2. i + 1 # k + 1
    BY <2>1
  <2>3. \A m, n \in DOMAIN results : results[m].op = "added" /\ results[n].op = "added" /\ m # n =>
           results[m].time # results[n].time
    BY <1>4 DEF ResultsInv
  <2> QED BY <2>1, <2>2, <2>3
<1> HIDE DEF r, R
<1>11. ASSUME Range(messageList') \cap AddedTimes(results') = {}
       PROVE  ResultsInv'
  BY <1>5, <1>6, <1>10, <1>11 DEF ResultsInv
<1>12. ASSUME UNCHANGED jobs, Loaded' = Loaded, Descending(messageList'),
              fetched'.db => fetched.db \/ Loaded = Seen \ R
       PROVE  LoadedInv'
  <2>1. Seen' \ RemoveTimes(jobs') = Seen \ R
    BY <1>7, <1>12 DEF R
  <2> QED BY <1>5, <1>8, <1>12, <2>1 DEF LoadedInv
<1>13. ASSUME UNCHANGED jobs, fetched'.db => TRUE,
              ~fetched'.db => ~fetched.db /\ UNCHANGED retrieval
       PROVE  QueryInv'
  <2>1. JobsInv'
    BY <1>9, <1>13 DEF JobsInv
  <2>2. NoRetrievalYet'
    BY <1>1, <1>4, <1>13 DEF NoRetrievalYet
  <2> QED BY <2>1, <2>2 DEF QueryInv, JobsInv, NoRetrievalYet
<1>14. CASE r.op = "added"
  <2>1. messageList' = Inserted(r.time) /\ UNCHANGED <<fetched, retrieval, jobs>>
    BY <1>14, HandleAdded DEF r
  <2>2. r.time \in storedMessages /\ r.time \in Nat
    BY <1>3, <1>14, AResultTyped, ListFacts DEF Base
  <2>3. r.time \notin Range(messageList) /\ PageTimes(results) = {}
        /\ AddedTimes(results) = AddedTimes(results') \cup {r.time}
        /\ Range(messageList) \cap AddedTimes(results) = {}
    BY <1>3, <1>4, <1>6, <1>14 DEF ResultsInv
  <2>4. Range(messageList') = Range(messageList) \cup {r.time} /\ Descending(messageList')
    BY <1>2, <1>8, <2>1, <2>2, <2>3, InsertedOf
  <2>5. r.time \notin AddedTimes(results')
    <3>1. \A m, n \in DOMAIN results : results[m].op = "added" /\ results[n].op = "added" /\ m # n =>
             results[m].time # results[n].time
      BY <1>4 DEF ResultsInv
    <3>2. \A i \in DOMAIN results' : results'[i].op = "added" => results'[i].time # r.time
      BY <1>3, <1>14, <3>1
    <3> QED BY <3>2 DEF AddedTimes, TimesOf
  <2>6. Loaded' = Loaded
    BY <1>6, <2>3, <2>4 DEF Loaded
  <2>7. Range(messageList') \cap AddedTimes(results') = {}
    BY <2>3, <2>4, <2>5
  <2> QED BY <1>11, <1>12, <1>13, <2>1, <2>4, <2>6, <2>7 DEF OrderInv
<1>15. CASE r.op = "id" /\ r.page = <<>>
  <2>1. UNCHANGED <<messageList, fetched, retrieval, jobs>>
    BY <1>15, HandleNoPage DEF r
  <2>2. Range(r.page) = {}
    BY <1>15, EmptyQueue DEF Range
  <2>3. AddedTimes(results) = AddedTimes(results') /\ PageTimes(results) = {}
    BY <1>3, <1>6, <1>15, <2>2
  <2>4. Loaded' = Loaded
    BY <1>6, <2>1, <2>3 DEF Loaded
  <2>5. Range(messageList') \cap AddedTimes(results') = {}
    BY <1>4, <2>1, <2>3 DEF ResultsInv
  <2> QED BY <1>8, <1>11, <1>12, <1>13, <2>1, <2>4, <2>5 DEF OrderInv
<1>16. CASE r.op # "added" /\ ~(r.op = "id" /\ r.page = <<>>)
  <2> DEFINE page == r.page
             all == fetched.db \/ Len(page) < DbLimit
  <2>1. /\ messageList' = messageList \o page /\ UNCHANGED jobs
        /\ fetched'.db = all /\ (retrieval' = retrieval \/ all)
    BY <1>16, HandlePage DEF r
  <2>2. IsSequence(page) /\ Descending(page) /\ Range(page) \subseteq Nat
    <3>1. IsSequence(page) /\ Range(page) \subseteq storedMessages
      BY <1>3, <1>16, AResultTyped
    <3>2. Descending(page)
      BY <1>3, <1>4, <1>16 DEF ResultsInv
    <3> QED BY <3>1, <3>2, ListFacts DEF Base
  <2>3. /\ PageTimes(results) = Range(page) /\ AddedTimes(results) = AddedTimes(results')
    BY <1>3, <1>6, <1>16
  <2>4. \A t \in Range(messageList), u \in Range(page) : t > u
    BY <1>4, <2>3 DEF ResultsInv
  <2> HIDE DEF page
  <2>5. Lists(messageList \o page, Range(messageList) \cup Range(page))
    BY <1>2, <1>8, <2>2, <2>4, ListsJoined DEF Lists
  <2>6. Descending(messageList') /\ Range(messageList') = Range(messageList) \cup Range(page)
    BY <2>1, <2>5 DEF Lists
  <2>7. Loaded' = Loaded
    BY <1>6, <2>3, <2>6 DEF Loaded
  <2>8. Range(messageList') \cap AddedTimes(results') = {}
    BY <1>4, <2>3, <2>6 DEF ResultsInv
  <2>9. fetched'.db => fetched.db \/ Loaded = Seen \ R
    BY <1>8, <1>16, <2>1 DEF page
  <2>10. ~fetched'.db => ~fetched.db /\ UNCHANGED retrieval
    BY <2>1
  <2> QED BY <1>11, <1>12, <1>13, <2>1, <2>6, <2>7, <2>8, <2>9, <2>10 DEF OrderInv
<1> QED BY <1>14, <1>15, <1>16

ListInv == Base /\ (~mixed => OrderInv)

LEMMA ListInvInit ==
    ListInit /\ jobs = <<>> /\ results = <<>> => ListInv
<1> SUFFICES ASSUME ListInit, jobs = <<>>, results = <<>>
             PROVE  ListInv
  OBVIOUS
<1>1. Base
  BY BaseInit
<1>2. Nothing
  BY DEF ListInit, NotFetched, NoRetrieval, Nothing
<1> QED BY <1>1, <1>2, OrderNothing DEF ListInv

LEMMA ListInvNext ==
    ASSUME ListInv, ListNext \/ UNCHANGED <<listVars, jobs, results>>
    PROVE  ListInv'
<1>1. Base /\ Base'
  BY BaseNext DEF ListInv
<1> SUFFICES ASSUME ~mixed'
             PROVE  OrderInv'
  BY <1>1 DEF ListInv
<1>2. mixed' \in BOOLEAN /\ mixed \in BOOLEAN
  BY <1>1, BaseSays DEF Base, ListTypes
<1>3. ~mixed
  BY DEF ListNext, Scroll, Reopen, NewMessage, SearchMessage, RemoveMessage, RunListJob, HandleResult,
         BacklogRetrieved, ChangeConnection, listVars
<1>4. OrderInv
  BY <1>3 DEF ListInv
<1>5. CASE ChangeConnection
  <2>1. ChangeConnection => /\ UNCHANGED <<storedMessages, removedMessages, messageList, results, jobs>>
                            /\ fetched'.db = fetched.db
                            /\ (retrieval'.running = "no" \/ UNCHANGED retrieval)
    BY <1>1, ChangeDoes
  <2> QED BY <1>4, <1>5, <2>1, OrderStutter
<1>6. CASE UNCHANGED <<listVars, jobs, results>>
  BY <1>4, <1>6, OrderStutter DEF listVars
<1> QED BY <1>1, <1>4, <1>5, <1>6, OrderScroll, OrderReopen, OrderNew, OrderSearch, OrderRemove, OrderRun,
           OrderHandle, OrderBacklog DEF ListNext

\* Without anything under way, the list is a prefix of the messages of the chat.
LEMMA ListInvContinuous ==
    ListInv => ListContinuous
<1> SUFFICES ASSUME ListInv
             PROVE  ListContinuous
  OBVIOUS
<1>1. Base
  BY DEF ListInv
<1>2. fetched.loading <=> retrieval.running = "yes"
  BY <1>1 DEF Base, ArchiveInv
<1>3. ASSUME ~mixed, ~ListOutstanding
      PROVE  /\ IsPrefix(messageList, ChatMessages)
             /\ fetched.db => messageList = ChatMessages
             /\ fetched.mam => archive \subseteq storedMessages
  <2> DEFINE S == Range(messageList)
             a == NewestFirst(S)
             b == NewestFirst(Seen \ S)
  <2>1. OrderInv
    BY <1>3 DEF ListInv
  <2>2. /\ jobs = <<>> /\ Newest(S, Seen) /\ (fetched.db => S = Seen)
    BY <1>1, <1>3, <2>1, BaseSays, LoadedAll
  <2>3. Lists(messageList, S) /\ S \subseteq Nat
    BY <1>1, <2>1, LoadedList
  <2>4. messageList = a
    BY <2>3, ListIs
  <2>5. ChatMessages = NewestFirst(Seen)
    BY DEF ChatMessages, Seen
  <2>6. NewestFirst(Seen) = a \o b /\ Lists(a, S) /\ Lists(b, Seen \ S)
    <3>1. Seen \subseteq Nat /\ IsFiniteSet(Seen)
      BY <1>1, ListFacts DEF Base
    <3> QED BY <2>2, <3>1, NewestList
  <2>7. IsPrefix(messageList, ChatMessages)
    <3> HIDE DEF a, b, S
    <3>1. IsSequence(a) /\ IsSequence(b)
      BY <2>6 DEF Lists
    <3>2. Len(a) <= Len(a \o b) /\ SubSeq(a, 1, Len(a)) = SubSeq(a \o b, 1, Len(a))
      <4> DEFINE V == Range(a) \cup Range(b)
      <4>1. a \in Seq(Range(a)) /\ b \in Seq(Range(b))
        BY <3>1 DEF IsSequence
      <4>2. a \in Seq(V) /\ b \in Seq(V)
        BY <4>1
      <4> HIDE DEF V
      <4> QED BY <4>2
    <3>3. IsPrefix(a, a \o b)
      BY <3>2 DEF IsPrefix
    <3> QED BY <2>4, <2>5, <2>6, <3>3
  <2>8. fetched.db => messageList = ChatMessages
    BY <2>2, <2>4, <2>5
  <2>9. fetched.mam => archive \subseteq storedMessages
    <3>1. AddTimes(jobs) = {}
      BY <2>2, NoTimes DEF AddTimes
    <3>2. fetched.mam => archive \subseteq storedMessages \cup AddTimes(jobs)
      BY <1>1 DEF Base, ArchiveInv, Kept
    <3> QED BY <3>1, <3>2
  <2> QED BY <2>7, <2>8, <2>9
<1> QED BY <1>2, <1>3 DEF ListContinuous

-----------------------------------------------------------------------------
(* The settings of contacts (Roster).                                      *)

\* An item has groups and a notification rule.
ItemsTyped(i) ==
    /\ i = [j \in DOMAIN i |-> i[j]]
    /\ \A j \in DOMAIN i : i[j] = [groups |-> i[j].groups, muted |-> i[j].muted]
Muted(i) == {j \in DOMAIN i : i[j].muted}

ChoicesInv ==
    /\ stored = [items |-> stored.items, version |-> stored.version]
    /\ ItemsTyped(stored.items)
    /\ ChoicesKept

LEMMA MergedOf ==
    ASSUME NEW old, NEW roster
    PROVE  /\ ItemsTyped(Merged(old, roster)) /\ DOMAIN Merged(old, roster) = DOMAIN roster
           /\ \A j \in DOMAIN roster :
                 /\ Merged(old, roster)[j].groups = roster[j]
                 /\ Merged(old, roster)[j].muted <=> j \in DOMAIN old /\ old[j].muted
<1> DEFINE m == Merged(old, roster)
           x(j) == j \in DOMAIN old /\ old[j].muted
<1>1. m = [j \in DOMAIN roster |-> [groups |-> roster[j], muted |-> x(j)]]
  BY DEF Merged
<1> HIDE DEF m, x
<1>2. /\ DOMAIN m = DOMAIN roster
      /\ \A j \in DOMAIN roster : m[j] = [groups |-> roster[j], muted |-> x(j)]
  BY <1>1
<1>3. \A j \in DOMAIN roster : m[j].groups = roster[j] /\ m[j].muted = x(j)
  BY <1>2
<1>4. ItemsTyped(m)
  <2>1. m = [j \in DOMAIN m |-> m[j]]
    BY <1>1
  <2> QED BY <1>2, <1>3, <2>1 DEF ItemsTyped
<1> QED BY <1>2, <1>3, <1>4 DEF m, x

\* A job changes the notification rule of an item only if the user asked for it.
LEMMA ChoicesAfter ==
    ASSUME NEW job, NEW old, ItemsTyped(old), NEW now, now = ItemsAfter(job, old)
    PROVE  /\ ItemsTyped(now)
           /\ Muted(now) = IF job.op = "update" /\ job.jid \in DOMAIN now
                           THEN IF job.muted THEN Muted(old) \cup {job.jid} ELSE Muted(old) \ {job.jid}
                           ELSE Muted(old) \cap DOMAIN now
<1>1. CASE job.op = "replace"
  <2>1. now = Merged(old, rosters[job.version])
    BY <1>1 DEF ItemsAfter
  <2> QED BY <1>1, <2>1, MergedOf DEF Muted
<1>2. CASE job.op = "item" /\ job.jid \in DOMAIN rosters[job.version]
  <2> DEFINE m == Merged(old, rosters[job.version])[job.jid]
  <2>1. now = Set(old, job.jid, m)
    BY <1>2 DEF ItemsAfter
  <2>2. /\ m = [groups |-> m.groups, muted |-> m.muted]
        /\ m.muted <=> job.jid \in DOMAIN old /\ old[job.jid].muted
    BY <1>2, MergedOf DEF ItemsTyped
  <2> HIDE DEF m
  <2>3. now = [k \in DOMAIN old \cup {job.jid} |-> IF k = job.jid THEN m ELSE old[k]]
    BY <2>1 DEF Set
  <2>4. DOMAIN now = DOMAIN old \cup {job.jid}
        /\ \A k \in DOMAIN now : now[k] = IF k = job.jid THEN m ELSE old[k]
    BY <2>3
  <2>5. ItemsTyped(now)
    BY <2>2, <2>3, <2>4 DEF ItemsTyped
  <2>6. Muted(now) = Muted(old) \cap DOMAIN now
    BY <2>2, <2>4 DEF Muted
  <2> QED BY <1>2, <2>5, <2>6
<1>3. CASE job.op = "item" /\ job.jid \notin DOMAIN rosters[job.version]
  <2>1. now = [k \in DOMAIN old \ {job.jid} |-> old[k]]
    BY <1>3 DEF ItemsAfter, Unset
  <2> QED BY <1>3, <2>1 DEF ItemsTyped, Muted
<1>4. CASE job.op = "update" /\ job.jid \in DOMAIN old
  <2>1. now = [old EXCEPT ![job.jid].muted = job.muted]
    BY <1>4 DEF ItemsAfter
  <2>2. old[job.jid] = [groups |-> old[job.jid].groups, muted |-> old[job.jid].muted]
    BY <1>4 DEF ItemsTyped
  <2>3. [old[job.jid] EXCEPT !.muted = job.muted] = [groups |-> old[job.jid].groups, muted |-> job.muted]
    BY <2>2
  <2>4. DOMAIN now = DOMAIN old /\ now = [k \in DOMAIN now |-> now[k]]
        /\ now[job.jid] = [groups |-> old[job.jid].groups, muted |-> job.muted]
        /\ \A k \in DOMAIN old : k # job.jid => now[k] = old[k]
    BY <1>4, <2>1, <2>3
  <2>5. now[job.jid].muted = job.muted /\ now[job.jid].groups = old[job.jid].groups
    BY <2>4
  <2>6. ItemsTyped(now)
    BY <2>4, <2>5 DEF ItemsTyped
  <2>7. Muted(now) = IF job.muted THEN Muted(old) \cup {job.jid} ELSE Muted(old) \ {job.jid}
    BY <1>4, <2>4, <2>5 DEF Muted
  <2> QED BY <1>4, <2>4, <2>6, <2>7
<1>5. CASE job.op = "update" /\ job.jid \notin DOMAIN old
  <2>1. now = old
    BY <1>5 DEF ItemsAfter
  <2> QED BY <1>5, <2>1 DEF Muted
<1>6. CASE job.op \notin {"replace", "item", "update"}
  <2>1. now = old
    BY <1>6 DEF ItemsAfter
  <2> QED BY <1>6, <2>1 DEF Muted
<1> QED BY <1>1, <1>2, <1>3, <1>4, <1>5, <1>6

LEMMA ChoicesInvInit ==
    RosterInit => ChoicesInv
<1> SUFFICES ASSUME RosterInit
             PROVE  ChoicesInv
  OBVIOUS
<1>1. CASE stored = [items |-> Nobody, version |-> 0]
  BY <1>1 DEF RosterInit, ChoicesInv, ItemsTyped, ChoicesKept, Nobody
<1>2. CASE stored = [items |-> [j \in DOMAIN AContact |-> [groups |-> AContact[j], muted |-> FALSE]],
                     version |-> 1]
  <2>1. stored.items = [j \in DOMAIN AContact |-> [groups |-> AContact[j], muted |-> FALSE]]
    BY <1>2
  <2>2. ItemsTyped(stored.items) /\ Muted(stored.items) = {}
    <3> DEFINE i == stored.items
    <3>1. /\ DOMAIN i = DOMAIN AContact /\ i = [j \in DOMAIN i |-> i[j]]
          /\ \A j \in DOMAIN i : i[j] = [groups |-> AContact[j], muted |-> FALSE]
      BY <2>1
    <3> HIDE DEF i
    <3>2. \A j \in DOMAIN i : i[j].groups = AContact[j] /\ i[j].muted = FALSE
      BY <3>1
    <3>3. ItemsTyped(i) /\ Muted(i) = {}
      BY <3>1, <3>2 DEF ItemsTyped, Muted
    <3> QED BY <3>3 DEF i
  <2> QED BY <1>2, <2>2 DEF RosterInit, ChoicesInv, ChoicesKept, Muted
<1> QED BY <1>1, <1>2 DEF RosterInit

LEMMA ChoicesInvNext ==
    ASSUME ChoicesInv, RosterNext
    PROVE  ChoicesInv'
<1>1. ASSUME UNCHANGED <<stored, chosen>>
      PROVE  ChoicesInv'
  BY <1>1 DEF ChoicesInv, ChoicesKept
<1>2. CASE RunRosterJob
  <2> DEFINE job == Head(jobs)
             now == ItemsAfter(job, stored.items)
  <2>1. /\ stored' = [items |-> now, version |-> IF job.op \in {"item", "replace"} THEN job.version
                                                 ELSE stored.version]
        /\ chosen' = IF job.op = "update" /\ job.jid \in DOMAIN now
                     THEN IF job.muted THEN chosen \cup {job.jid} ELSE chosen \ {job.jid}
                     ELSE chosen \cap DOMAIN now
    BY <1>2 DEF RunRosterJob
  <2>2. /\ ItemsTyped(now)
        /\ Muted(now) = IF job.op = "update" /\ job.jid \in DOMAIN now
                        THEN IF job.muted THEN Muted(stored.items) \cup {job.jid}
                                          ELSE Muted(stored.items) \ {job.jid}
                        ELSE Muted(stored.items) \cap DOMAIN now
    BY ChoicesAfter DEF ChoicesInv
  <2> HIDE DEF job, now
  <2>3. chosen = Muted(stored.items)
    BY DEF ChoicesInv, ChoicesKept, Muted
  <2>4. stored'.items = now
    BY <2>1
  <2>5. chosen' = Muted(now)
    BY <2>1, <2>2, <2>3
  <2> QED BY <2>1, <2>2, <2>4, <2>5 DEF ChoicesInv, ChoicesKept, Muted
<1>3. CASE RestartRoster
  <2>1. /\ stored' = stored \/ stored' = [stored EXCEPT !.items = ItemsAfter(Head(jobs), stored.items)]
        /\ chosen' = {j \in DOMAIN stored'.items : stored'.items[j].muted}
    BY <1>3 DEF RestartRoster, StoredMeanwhile
  <2>2. CASE stored' = stored
    BY <2>1, <2>2 DEF ChoicesInv, ChoicesKept
  <2>3. CASE stored' = [stored EXCEPT !.items = ItemsAfter(Head(jobs), stored.items)]
    <3> DEFINE now == ItemsAfter(Head(jobs), stored.items)
    <3>1. ItemsTyped(now)
      BY ChoicesAfter DEF ChoicesInv
    <3>2. stored' = [items |-> now, version |-> stored.version]
      BY <2>3 DEF ChoicesInv
    <3> HIDE DEF now
    <3> QED BY <2>1, <3>1, <3>2 DEF ChoicesInv, ChoicesKept
  <2> QED BY <2>1, <2>2, <2>3
<1>4. CASE \/ \E j \in RosterJids :
                 \/ AddContact(j) \/ RemoveContact(j) \/ SetNotificationRule(j)
                 \/ RosterChangedByOtherClient(j, Unset(Current, j))
                 \/ \E groups \in SUBSET RosterGroups :
                       UpdateGroups(j, groups) \/ RosterChangedByOtherClient(j, Set(Current, j, groups))
                 \/ \E former \in RosterJids : RequestPresence(<<j, former>>)
           \/ \E group \in RosterGroups :
                 \E to \in {{}} \cup {{g} : g \in RosterGroups} : UpdateGroup(group, to)
           \/ \E p \in subscriptions.unresponded : Answer(p)
  <2>1. UNCHANGED <<stored, chosen>>
    BY <1>4 DEF AddContact, RemoveContact, SetNotificationRule, RosterChangedByOtherClient, UpdateGroups,
                RequestPresence, UpdateGroup, Answer, Ask, rosterVars
  <2> QED BY <1>1, <2>1
<1>5. CASE ServeRoster \/ ReceiveRosterStanza \/ ConnectRoster \/ DisconnectRoster \/ HandleRosterResult
  <2>1. UNCHANGED <<stored, chosen>>
    BY <1>5 DEF ServeRoster, ReceiveRosterStanza, ConnectRoster, DisconnectRoster, HandleRosterResult
  <2> QED BY <1>1, <2>1
<1> QED BY <1>2, <1>3, <1>4, <1>5 DEF RosterNext

LEMMA ChoicesInvUnchanged ==
    ASSUME ChoicesInv, UNCHANGED rosterVars
    PROVE  ChoicesInv'
BY DEF ChoicesInv, ChoicesKept, rosterVars

=============================================================================
