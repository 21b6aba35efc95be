-------------------------- MODULE ClientParts_proofs --------------------------
(***************************************************************************)
(* Proofs about the parts of the client (ClientParts): each part has its   *)
(* own inductive invariant, which says what the jobs, results and stanzas  *)
(* under way lead to; together they are preserved by every step.           *)
(***************************************************************************)
EXTENDS ClientParts, ClientLists_proofs


-----------------------------------------------------------------------------
(* Blocking (Blocklist).                                                   *)

BlockRequests ==
    [op : {"fetch"}, jid : {NoJid}] \cup [op : {"block", "unblock"}, jid : BlockableJids]
BlockJobs == [op : {"load", "reset", "add", "remove"}, jids : SUBSET BlockableJids]
BlockStanzas ==
    [kind : {"list"}, jids : SUBSET BlockableJids] \cup [kind : {"refused", "result"}]
    \cup [kind : {"block", "unblock"}, jid : BlockableJids]

BlockTypes ==
    /\ blockServer \in [jids : SUBSET BlockableJids, tells : BOOLEAN, resumes : BOOLEAN]
    /\ isSubscribed \in BOOLEAN /\ subscribed \in BOOLEAN /\ failures \in Nat
    /\ blocklist \in [source : {"None", "Db", "Xmpp"}, jids : SUBSET BlockableJids]
    /\ page \in [open : BOOLEAN, entries : [BlockableJids -> Int]]
    /\ watcher \in [jid : BlockableJids \cup {NoJid}, blocked : BOOLEAN]
    /\ blocked \in SUBSET BlockableJids
    /\ IsSequence(jobs) /\ \A i \in DOMAIN jobs : jobs[i] \in BlockJobs
    /\ IsSequence(results) /\ \A i \in DOMAIN results : results[i] \in SUBSET BlockableJids
    /\ IsSequence(requests) /\ \A i \in DOMAIN requests : requests[i] \in BlockRequests
    /\ IsSequence(stream) /\ \A i \in DOMAIN stream : stream[i] \in BlockStanzas

Fetches(r) == \E i \in DOMAIN r : r[i].op = "fetch"
HasList(s) == \E i \in DOMAIN s : s[i].kind = "list"

\* A stream has one list at most, which the manager waits for, and changes after it.
Ordered(s, sub) ==
    /\ sub => \A i \in DOMAIN s : s[i].kind \notin {"list", "refused"}
    /\ \A i, k \in DOMAIN s : s[i].kind = "list" /\ s[k].kind \in {"list", "refused"} => k <= i
    /\ \A i \in DOMAIN s : s[i].kind \in {"block", "unblock"} =>
          sub \/ \E k \in DOMAIN s : k < i /\ s[k].kind = "list"

\* The list is fetched once at a time, and changes are told after it.
FetchInv ==
    /\ \A i, k \in DOMAIN requests : requests[i].op = "fetch" /\ requests[k].op = "fetch" => i = k
    /\ Fetches(requests) => subscribed /\ ~blockServer.tells
    /\ blockServer.tells <=> isSubscribed \/ HasList(stream)
    /\ Ordered(stream, isSubscribed)
    /\ (\E i \in DOMAIN stream : stream[i].kind \in {"list", "refused"}) \/ isSubscribed => subscribed
    /\ (\E i \in DOMAIN stream : stream[i].kind = "refused") => failures > 0
    /\ isSubscribed => blocklist.source = "Xmpp"
    /\ subscribed /\ connected => isSubscribed \/ failures > 0 \/ Fetches(requests) \/ HasList(stream)

\* The actions of the user that have not been answered
Actions == {r \in BlockRequests : r.op # "fetch"}
Answers == {z \in BlockStanzas : z.kind = "result"}
RunningInv == running = CountOf(requests, Actions) + CountOf(stream, Answers)

InList(j, J) == IF j \in J THEN "blocked" ELSE "free"
ListChange(j) ==
    [z \in {y \in BlockStanzas : y.kind = "list" \/ (y.kind \in {"block", "unblock"} /\ y.jid = j)}
        |-> IF z.kind = "list" THEN InList(j, z.jids) ELSE IF z.kind = "block" THEN "blocked" ELSE "free"]
StoredChange(j) ==
    [q \in {p \in BlockJobs : p.op = "reset" \/ (p.op \in {"add", "remove"} /\ j \in p.jids)}
        |-> IF q.op = "remove" THEN "free" ELSE InList(j, q.jids)]

\* The stanzas of s lead from the list L of the client to the list J of a server that tells its
\* changes, and an address is only unblocked if it was blocked.
Follows(s, tells, L, J) ==
    /\ tells => \A j \in BlockableJids :
                   Leads(s, Len(s), ListChange(j), InList(j, L), InList(j, J))
    /\ \A j \in BlockableJids, i \in DOMAIN s : s[i] = [kind |-> "unblock", jid |-> j] =>
          Leads(s, i - 1, ListChange(j), InList(j, L), "blocked")
FollowInv == Follows(stream, blockServer.tells, blocklist.jids, blockServer.jids)

\* The queued jobs lead from the stored list to the client's one.
StoredInv ==
    /\ blocklist.source = "None" =>
          /\ blocklist.jids = {}
          /\ \A i \in DOMAIN jobs : jobs[i].op = "load"
          /\ \A i \in DOMAIN results : results[i] = blocked
    /\ blocklist.source = "Db" => jobs = <<>> /\ results = <<>> /\ blocked = blocklist.jids
    /\ blocklist.source = "Xmpp" =>
          \A j \in BlockableJids :
             Leads(jobs, Len(jobs), StoredChange(j), InList(j, blocked), InList(j, blocklist.jids))
    /\ ~subscribed => jobs = <<>> /\ results = <<>> /\ blocklist.source = "None"
    /\ \A i, k \in DOMAIN jobs : jobs[i].op = "load" /\ jobs[k].op = "load" => i = k
    /\ results # <<>> => Len(results) = 1 /\ \A i \in DOMAIN jobs : jobs[i].op # "load"

BlockInv == BlockTypes /\ FetchInv /\ RunningInv /\ FollowInv /\ StoredInv /\ BlocklistShown

LEMMA StanzaKinds ==
    ASSUME NEW z \in BlockStanzas
    PROVE  /\ z.kind \in {"list", "refused", "result", "block", "unblock"}
           /\ z.kind = "list" => z.jids \in SUBSET BlockableJids
           /\ z.kind \in {"block", "unblock"} =>
                 z.jid \in BlockableJids /\ z = [kind |-> z.kind, jid |-> z.jid]
<1>1. CASE z \in [kind : {"list"}, jids : SUBSET BlockableJids]
  BY <1>1
<1>2. CASE z \in [kind : {"refused", "result"}]
  BY <1>2
<1>3. CASE z \in [kind : {"block", "unblock"}, jid : BlockableJids]
  <2>1. z = [kind |-> z.kind, jid |-> z.jid] /\ z.kind \in {"block", "unblock"} /\ z.jid \in BlockableJids
    BY <1>3
  <2> QED BY <2>1
<1> QED BY <1>1, <1>2, <1>3 DEF BlockStanzas

LEMMA StanzasTyped ==
    /\ \A J \in SUBSET BlockableJids : [kind |-> "list", jids |-> J] \in BlockStanzas
    /\ \A k \in {"refused", "result"} : [kind |-> k] \in BlockStanzas
    /\ \A k \in {"block", "unblock"}, j \in BlockableJids : [kind |-> k, jid |-> j] \in BlockStanzas
<1>1. \A J \in SUBSET BlockableJids :
         [kind |-> "list", jids |-> J] \in [kind : {"list"}, jids : SUBSET BlockableJids]
  OBVIOUS
<1>2. \A k \in {"refused", "result"} : [kind |-> k] \in [kind : {"refused", "result"}]
  OBVIOUS
<1>3. \A k \in {"block", "unblock"}, j \in BlockableJids :
         [kind |-> k, jid |-> j] \in [kind : {"block", "unblock"}, jid : BlockableJids]
  OBVIOUS
<1> QED BY <1>1, <1>2, <1>3 DEF BlockStanzas

LEMMA RequestKinds ==
    /\ \A r \in BlockRequests : /\ r.op \in {"fetch", "block", "unblock"}
                                /\ r.op # "fetch" => r.jid \in BlockableJids
    /\ FetchBlocklist \in BlockRequests /\ FetchBlocklist.op = "fetch"
    /\ \A op \in {"block", "unblock"}, j \in BlockableJids : [op |-> op, jid |-> j] \in BlockRequests
<1>1. ASSUME NEW r \in BlockRequests
      PROVE  r.op \in {"fetch", "block", "unblock"} /\ (r.op # "fetch" => r.jid \in BlockableJids)
  <2>1. CASE r \in [op : {"fetch"}, jid : {NoJid}]
    BY <2>1
  <2>2. CASE r \in [op : {"block", "unblock"}, jid : BlockableJids]
    BY <2>2
  <2> QED BY <2>1, <2>2 DEF BlockRequests
<1>2. FetchBlocklist \in BlockRequests /\ FetchBlocklist.op = "fetch"
  <2>1. FetchBlocklist \in [op : {"fetch"}, jid : {NoJid}] /\ FetchBlocklist.op = "fetch"
    BY DEF FetchBlocklist
  <2> QED BY <2>1 DEF BlockRequests
<1>3. \A op \in {"block", "unblock"}, j \in BlockableJids : [op |-> op, jid |-> j] \in BlockRequests
  <2>1. \A op \in {"block", "unblock"}, j \in BlockableJids :
           [op |-> op, jid |-> j] \in [op : {"block", "unblock"}, jid : BlockableJids]
    OBVIOUS
  <2> QED BY <2>1 DEF BlockRequests
<1> QED BY <1>1, <1>2, <1>3

\* What the stanzas make of an address
LEMMA ListChangeOf ==
    ASSUME NEW j \in BlockableJids, NEW z \in BlockStanzas
    PROVE  /\ z.kind = "list" => z \in DOMAIN ListChange(j) /\ ListChange(j)[z] = InList(j, z.jids)
           /\ z.kind \in {"refused", "result"} => z \notin DOMAIN ListChange(j)
           /\ z.kind \in {"block", "unblock"} => (z \in DOMAIN ListChange(j) <=> z.jid = j)
           /\ z.kind = "block" /\ z.jid = j => ListChange(j)[z] = "blocked"
           /\ z.kind = "unblock" /\ z.jid = j => ListChange(j)[z] = "free"
<1> DEFINE D == {y \in BlockStanzas : y.kind = "list" \/ (y.kind \in {"block", "unblock"} /\ y.jid = j)}
<1>1. DOMAIN ListChange(j) = D
  BY DEF ListChange
<1>2. z \in D => ListChange(j)[z] = IF z.kind = "list" THEN InList(j, z.jids)
                                    ELSE IF z.kind = "block" THEN "blocked" ELSE "free"
  BY DEF ListChange
<1>3. z \in D <=> z.kind = "list" \/ (z.kind \in {"block", "unblock"} /\ z.jid = j)
  OBVIOUS
<1> HIDE DEF D
<1>4. CASE z.kind = "list"
  BY <1>1, <1>2, <1>3, <1>4
<1>5. CASE z.kind \in {"refused", "result"}
  BY <1>1, <1>3, <1>5
<1>6. CASE z.kind \in {"block", "unblock"}
  BY <1>1, <1>2, <1>3, <1>6
<1> QED BY <1>4, <1>5, <1>6, StanzaKinds

LEMMA StoredChangeOf ==
    ASSUME NEW j \in BlockableJids, NEW q \in BlockJobs
    PROVE  /\ q.op = "load" => q \notin DOMAIN StoredChange(j)
           /\ q.op = "reset" => q \in DOMAIN StoredChange(j) /\ StoredChange(j)[q] = InList(j, q.jids)
           /\ q.op \in {"add", "remove"} => (q \in DOMAIN StoredChange(j) <=> j \in q.jids)
           /\ q.op = "add" /\ j \in q.jids => StoredChange(j)[q] = "blocked"
           /\ q.op = "remove" /\ j \in q.jids => StoredChange(j)[q] = "free"
           /\ q.op \in {"load", "reset", "add", "remove"} /\ q.jids \in SUBSET BlockableJids
<1> DEFINE D == {p \in BlockJobs : p.op = "reset" \/ (p.op \in {"add", "remove"} /\ j \in p.jids)}
<1>1. DOMAIN StoredChange(j) = D
  BY DEF StoredChange
<1>2. q \in D => StoredChange(j)[q] = IF q.op = "remove" THEN "free" ELSE InList(j, q.jids)
  BY DEF StoredChange
<1>3. q \in D <=> q.op = "reset" \/ (q.op \in {"add", "remove"} /\ j \in q.jids)
  OBVIOUS
<1>4. q.op \in {"load", "reset", "add", "remove"} /\ q.jids \in SUBSET BlockableJids
  BY DEF BlockJobs
<1> HIDE DEF D
<1> QED BY <1>1, <1>2, <1>3, <1>4 DEF InList

-----------------------------------------------------------------------------
(* The stream from the server.                                             *)

StanzasOnly(s) == IsSequence(s) /\ \A i \in DOMAIN s : s[i] \in BlockStanzas

LEMMA StanzasAppend ==
    ASSUME NEW s, StanzasOnly(s), NEW z \in BlockStanzas
    PROVE  StanzasOnly(Append(s, z))
BY AppendOf DEF StanzasOnly

LEMMA StanzasTail ==
    ASSUME NEW s, StanzasOnly(s), s # <<>>
    PROVE  StanzasOnly(Tail(s)) /\ Head(s) \in BlockStanzas
BY TailOf DEF StanzasOnly

\* The server answers without a list.
LEMMA FollowsAnswer ==
    ASSUME NEW s, StanzasOnly(s), NEW tells, NEW L, NEW J, Follows(s, tells, L, J),
           NEW z \in BlockStanzas, z.kind \in {"refused", "result"}
    PROVE  Follows(Append(s, z), tells, L, J)
<1> DEFINE p == Append(s, z)
<1>1. IsSequence(s) /\ Len(s) \in Nat /\ DOMAIN s = 1..Len(s) /\ Len(p) = Len(s) + 1
      /\ \A i \in DOMAIN p : (i \in DOMAIN s /\ p[i] = s[i]) \/ (i = Len(s) + 1 /\ p[i] = z)
  BY AppendOf DEF StanzasOnly
<1>2. \A j \in BlockableJids : \A b, x :
         /\ \A n \in 0..Len(s) : Leads(p, n, ListChange(j), b, x) <=> Leads(s, n, ListChange(j), b, x)
         /\ Leads(s, Len(s), ListChange(j), b, x) =>
               Leads(p, Len(s) + 1, ListChange(j), b,
                     IF z \in DOMAIN ListChange(j) THEN ListChange(j)[z] ELSE x)
  BY <1>1, LeadsAppend
<1> HIDE DEF p
<1>3. \A j \in BlockableJids : z \notin DOMAIN ListChange(j)
  BY ListChangeOf
<1>4. ASSUME tells
      PROVE  \A j \in BlockableJids : Leads(p, Len(p), ListChange(j), InList(j, L), InList(j, J))
  BY <1>1, <1>2, <1>3, <1>4 DEF Follows
<1>5. ASSUME NEW j \in BlockableJids, NEW i \in DOMAIN p, p[i] = [kind |-> "unblock", jid |-> j]
      PROVE  Leads(p, i - 1, ListChange(j), InList(j, L), "blocked")
  <2>0. p[i].kind = "unblock"
    <3>1. \A e : e = [kind |-> "unblock", jid |-> j] => e.kind = "unblock"
      OBVIOUS
    <3> QED BY <1>5, <3>1
  <2>1. p[i] # z
    BY <2>0
  <2>2. i \in DOMAIN s /\ s[i] = [kind |-> "unblock", jid |-> j] /\ i - 1 \in 0..Len(s)
    BY <1>1, <1>5, <2>1
  <2>3. Leads(s, i - 1, ListChange(j), InList(j, L), "blocked")
    BY <2>2 DEF Follows
  <2> QED BY <1>2, <2>2, <2>3
<1> QED BY <1>4, <1>5 DEF Follows, p

\* The server sends its list.
LEMMA FollowsList ==
    ASSUME NEW s, StanzasOnly(s), NEW tells, NEW L, NEW J \in SUBSET BlockableJids, Follows(s, tells, L, J)
    PROVE  Follows(Append(s, [kind |-> "list", jids |-> J]), TRUE, L, J)
<1> DEFINE z == [kind |-> "list", jids |-> J]
           p == Append(s, z)
<1>0. z \in BlockStanzas /\ z.kind = "list" /\ z.jids = J
  BY StanzasTyped
<1> HIDE DEF z
<1>1. IsSequence(s) /\ Len(s) \in Nat /\ DOMAIN s = 1..Len(s) /\ Len(p) = Len(s) + 1
      /\ (\A i \in DOMAIN p : (i \in DOMAIN s /\ p[i] = s[i]) \/ (i = Len(s) + 1 /\ p[i] = z))
      /\ p[Len(s) + 1] = z
  BY AppendOf DEF StanzasOnly
<1>2. \A j \in BlockableJids : \A b, x :
         \A n \in 0..Len(s) : Leads(p, n, ListChange(j), b, x) <=> Leads(s, n, ListChange(j), b, x)
  BY <1>1, LeadsAppend
<1> HIDE DEF p
<1>3. \A j \in BlockableJids : z \in DOMAIN ListChange(j) /\ ListChange(j)[z] = InList(j, J)
  BY <1>0, ListChangeOf
<1>4. ASSUME NEW j \in BlockableJids
      PROVE  Leads(p, Len(p), ListChange(j), InList(j, L), InList(j, J))
  <2> DEFINE val == ListChange(j)
             N == Len(s) + 1
  <2>1. N \in 1..N /\ Len(p) = N /\ p[N] \in DOMAIN val /\ val[p[N]] = InList(j, J)
    BY <1>1, <1>3
  <2>2. \A i \in 1..N : i = N \/ N > i
    BY <1>1
  <2> HIDE DEF val, N
  <2>3. Leads(p, N, val, InList(j, L), InList(j, J))
    BY <2>1, <2>2 DEF Leads
  <2> QED BY <2>1, <2>3 DEF val
<1>5. ASSUME NEW j \in BlockableJids, NEW i \in DOMAIN p, p[i] = [kind |-> "unblock", jid |-> j]
      PROVE  Leads(p, i - 1, ListChange(j), InList(j, L), "blocked")
  <2>1. p[i] # z
    BY <1>0, <1>5
  <2>2. i \in DOMAIN s /\ s[i] = [kind |-> "unblock", jid |-> j] /\ i - 1 \in 0..Len(s)
    BY <1>1, <1>5, <2>1
  <2>3. Leads(s, i - 1, ListChange(j), InList(j, L), "blocked")
    BY <2>2 DEF Follows
  <2> QED BY <1>2, <2>2, <2>3
<1> QED BY <1>4, <1>5 DEF Follows, p, z

\* The server tells a change.
LEMMA FollowsChange ==
    ASSUME NEW s, StanzasOnly(s), NEW tells \in BOOLEAN, NEW L, NEW J \in SUBSET BlockableJids,
           Follows(s, tells, L, J), NEW op \in {"block", "unblock"}, NEW j \in BlockableJids,
           op = "block" \/ j \in J, tells
    PROVE  Follows(Append(s, [kind |-> op, jid |-> j]), tells, L, Changes(op, j, J))
<1> DEFINE z == [kind |-> op, jid |-> j]
           p == Append(s, z)
           K == Changes(op, j, J)
<1>0. z \in BlockStanzas /\ z.kind = op /\ z.jid = j /\ z.kind \in {"block", "unblock"}
  BY StanzasTyped
<1> HIDE DEF z
<1>1. IsSequence(s) /\ Len(s) \in Nat /\ DOMAIN s = 1..Len(s) /\ Len(p) = Len(s) + 1
      /\ \A i \in DOMAIN p : (i \in DOMAIN s /\ p[i] = s[i]) \/ (i = Len(s) + 1 /\ p[i] = z)
  BY AppendOf DEF StanzasOnly
<1>2. \A c \in BlockableJids : \A b, x :
         /\ \A n \in 0..Len(s) : Leads(p, n, ListChange(c), b, x) <=> Leads(s, n, ListChange(c), b, x)
         /\ Leads(s, Len(s), ListChange(c), b, x) =>
               Leads(p, Len(s) + 1, ListChange(c), b,
                     IF z \in DOMAIN ListChange(c) THEN ListChange(c)[z] ELSE x)
  BY <1>1, LeadsAppend
<1> HIDE DEF p
<1>3. \A c \in BlockableJids :
         InList(c, K) = IF z \in DOMAIN ListChange(c) THEN ListChange(c)[z] ELSE InList(c, J)
  <2> SUFFICES ASSUME NEW c \in BlockableJids
               PROVE  InList(c, K) = IF z \in DOMAIN ListChange(c) THEN ListChange(c)[z] ELSE InList(c, J)
    OBVIOUS
  <2>1. z \in DOMAIN ListChange(c) <=> z.jid = c
    <3>1. z.kind \in {"block", "unblock"} => (z \in DOMAIN ListChange(c) <=> z.jid = c)
      BY <1>0, ListChangeOf
    <3> QED BY <1>0, <3>1
  <2>2. j = c => ListChange(c)[z] = IF op = "block" THEN "blocked" ELSE "free"
    BY <1>0, ListChangeOf
  <2>3. InList(c, K) = IF c = j THEN IF op = "block" THEN "blocked" ELSE "free" ELSE InList(c, J)
    BY DEF InList, Changes
  <2> QED BY <1>0, <2>1, <2>2, <2>3
<1>4. \A c \in BlockableJids : Leads(p, Len(p), ListChange(c), InList(c, L), InList(c, K))
  <2> SUFFICES ASSUME NEW c \in BlockableJids
               PROVE  Leads(p, Len(p), ListChange(c), InList(c, L), InList(c, K))
    OBVIOUS
  <2>1. Leads(s, Len(s), ListChange(c), InList(c, L), InList(c, J))
    BY DEF Follows
  <2>2. Leads(p, Len(s) + 1, ListChange(c), InList(c, L),
              IF z \in DOMAIN ListChange(c) THEN ListChange(c)[z] ELSE InList(c, J))
    BY <1>2, <2>1
  <2> QED BY <1>1, <1>3, <2>2
<1>5. ASSUME NEW c \in BlockableJids, NEW i \in DOMAIN p, p[i] = [kind |-> "unblock", jid |-> c]
      PROVE  Leads(p, i - 1, ListChange(c), InList(c, L), "blocked")
  <2>1. CASE i \in DOMAIN s /\ p[i] = s[i]
    <3>1. Leads(s, i - 1, ListChange(c), InList(c, L), "blocked") /\ i - 1 \in 0..Len(s)
      BY <1>1, <1>5, <2>1 DEF Follows
    <3> QED BY <1>2, <3>1
  <2>2. CASE i = Len(s) + 1 /\ p[i] = z
    <3>1. op = "unblock" /\ j = c
      BY <1>0, <1>5, <2>2
    <3>2. Leads(s, Len(s), ListChange(c), InList(c, L), "blocked")
      BY <3>1 DEF Follows, InList
    <3>3. i - 1 = Len(s) /\ Len(s) \in 0..Len(s)
      BY <1>1, <2>2
    <3> QED BY <1>2, <3>2, <3>3
  <2> QED BY <1>1, <2>1, <2>2
<1> QED BY <1>4, <1>5 DEF Follows, p, z

\* The client receives a stanza, by which its list becomes M.
LEMMA FollowsTail ==
    ASSUME NEW s, StanzasOnly(s), s # <<>>, NEW tells, NEW L, NEW J, Follows(s, tells, L, J), NEW M,
           \A j \in BlockableJids :
              InList(j, M) = IF Head(s) \in DOMAIN ListChange(j) THEN ListChange(j)[Head(s)]
                             ELSE InList(j, L)
    PROVE  Follows(Tail(s), tells, M, J)
<1> DEFINE p == Tail(s)
<1>1. /\ IsSequence(s) /\ Len(s) \in Nat /\ Len(s) >= 1 /\ DOMAIN s = 1..Len(s) /\ Len(p) = Len(s) - 1
      /\ DOMAIN p = 1..(Len(s) - 1)
      /\ \A i \in DOMAIN p : i + 1 \in DOMAIN s /\ p[i] = s[i + 1]
  BY TailOf DEF StanzasOnly
<1>2. \A j \in BlockableJids : \A x : \A n \in 1..Len(s) :
         Leads(s, n, ListChange(j), InList(j, L), x) => Leads(p, n - 1, ListChange(j), InList(j, M), x)
  <2> SUFFICES ASSUME NEW j \in BlockableJids, NEW x, NEW n \in 1..Len(s),
                      Leads(s, n, ListChange(j), InList(j, L), x)
               PROVE  Leads(p, n - 1, ListChange(j), InList(j, M), x)
    OBVIOUS
  <2>1. Leads(Tail(s), n - 1, ListChange(j),
              IF Head(s) \in DOMAIN ListChange(j) THEN ListChange(j)[Head(s)] ELSE InList(j, L), x)
    BY <1>1, LeadsTail
  <2> QED BY <2>1
<1> HIDE DEF p
<1>3. ASSUME tells, NEW j \in BlockableJids
      PROVE  Leads(p, Len(p), ListChange(j), InList(j, M), InList(j, J))
  <2>1. Leads(s, Len(s), ListChange(j), InList(j, L), InList(j, J)) /\ Len(s) \in 1..Len(s)
    BY <1>1, <1>3 DEF Follows
  <2> QED BY <1>1, <1>2, <2>1
<1>4. ASSUME NEW j \in BlockableJids, NEW i \in DOMAIN p, p[i] = [kind |-> "unblock", jid |-> j]
      PROVE  Leads(p, i - 1, ListChange(j), InList(j, M), "blocked")
  <2>1. i + 1 \in DOMAIN s /\ s[i + 1] = [kind |-> "unblock", jid |-> j] /\ (i + 1) - 1 = i
        /\ i \in 1..Len(s)
    BY <1>1, <1>4
  <2>2. Leads(s, i, ListChange(j), InList(j, L), "blocked")
    BY <2>1 DEF Follows
  <2> QED BY <1>2, <2>1, <2>2
<1> QED BY <1>3, <1>4 DEF Follows, p

\* The client's list does not matter before the list of the server.
LEMMA FollowsFromAny ==
    ASSUME NEW s, StanzasOnly(s), NEW tells, NEW L, NEW J, Follows(s, tells, L, J), NEW M,
           tells => HasList(s), Ordered(s, FALSE)
    PROVE  Follows(s, tells, M, J)
<1>1. /\ IsSequence(s) /\ Len(s) \in Nat /\ DOMAIN s = 1..Len(s)
      /\ \A i \in DOMAIN s : s[i] \in BlockStanzas
  BY SequenceOf DEF StanzasOnly, IsSequence
<1>2. \A j \in BlockableJids, k \in DOMAIN s : s[k].kind = "list" => s[k] \in DOMAIN ListChange(j)
  BY <1>1, ListChangeOf
<1>3. ASSUME tells, NEW j \in BlockableJids
      PROVE  Leads(s, Len(s), ListChange(j), InList(j, M), InList(j, J))
  <2>1. Leads(s, Len(s), ListChange(j), InList(j, L), InList(j, J))
    BY <1>3 DEF Follows
  <2>2. PICK k \in DOMAIN s : s[k].kind = "list"
    BY <1>3 DEF HasList
  <2>3. k \in 1..Len(s) /\ s[k] \in DOMAIN ListChange(j)
    BY <1>1, <1>2, <2>2
  <2> QED BY <1>1, <2>1, <2>3, LeadsFromAny
<1>4. ASSUME NEW j \in BlockableJids, NEW i \in DOMAIN s, s[i] = [kind |-> "unblock", jid |-> j]
      PROVE  Leads(s, i - 1, ListChange(j), InList(j, M), "blocked")
  <2>1. Leads(s, i - 1, ListChange(j), InList(j, L), "blocked") /\ i - 1 \in Nat
    BY <1>1, <1>4 DEF Follows
  <2>2. s[i].kind = "unblock"
    BY <1>4
  <2>3. PICK k \in DOMAIN s : k < i /\ s[k].kind = "list"
    BY <2>2 DEF Ordered
  <2>4. k \in 1..(i - 1) /\ s[k] \in DOMAIN ListChange(j)
    BY <1>1, <1>2, <2>3
  <2> QED BY <2>1, <2>4, LeadsFromAny
<1> QED BY <1>3, <1>4 DEF Follows

LEMMA FollowsNothing ==
    ASSUME NEW tells, tells = FALSE, NEW L, NEW J
    PROVE  Follows(<<>>, tells, L, J)
BY EmptyQueue DEF Follows

\* The order of the stream
LEMMA OrderedNothing ==
    \A sub : Ordered(<<>>, sub)
BY EmptyQueue DEF Ordered

LEMMA OrderedAppend ==
    ASSUME NEW s, StanzasOnly(s), NEW sub \in BOOLEAN, Ordered(s, sub), NEW z \in BlockStanzas,
           z.kind \in {"list", "refused"} => ~sub /\ ~HasList(s),
           z.kind \in {"block", "unblock"} => sub \/ HasList(s)
    PROVE  /\ Ordered(Append(s, z), sub)
           /\ HasList(Append(s, z)) <=> HasList(s) \/ z.kind = "list"
<1> DEFINE p == Append(s, z)
           N == Len(s) + 1
<1>1. IsSequence(s) /\ Len(s) \in Nat /\ DOMAIN s = 1..Len(s) /\ DOMAIN p = 1..N
      /\ (\A i \in DOMAIN p : (i \in DOMAIN s /\ p[i] = s[i]) \/ (i = N /\ p[i] = z))
      /\ (\A i \in DOMAIN s : i \in DOMAIN p /\ p[i] = s[i]) /\ p[N] = z
  BY AppendOf DEF StanzasOnly
<1> HIDE DEF p
<1>2. HasList(p) <=> HasList(s) \/ z.kind = "list"
  BY <1>1 DEF HasList
<1>3. sub => \A i \in DOMAIN p : p[i].kind \notin {"list", "refused"}
  BY <1>1 DEF Ordered
<1>4. ASSUME NEW i \in DOMAIN p, NEW k \in DOMAIN p, p[i].kind = "list", p[k].kind \in {"list", "refused"}
      PROVE  k <= i
  <2>1. CASE i = N /\ p[i] = z
    BY <1>1, <2>1
  <2>2. CASE i \in DOMAIN s /\ p[i] = s[i]
    <3>1. HasList(s)
      BY <1>4, <2>2 DEF HasList
    <3>2. k \in DOMAIN s /\ p[k] = s[k]
      BY <1>1, <1>4, <3>1
    <3> QED BY <1>4, <2>2, <3>2 DEF Ordered
  <2> QED BY <1>1, <2>1, <2>2
<1>5. ASSUME NEW i \in DOMAIN p, p[i].kind \in {"block", "unblock"}, ~sub
      PROVE  \E k \in DOMAIN p : k < i /\ p[k].kind = "list"
  <2>1. CASE i = N /\ p[i] = z
    <3>1. PICK k \in DOMAIN s : s[k].kind = "list"
      BY <1>5, <2>1 DEF HasList
    <3> QED BY <1>1, <2>1, <3>1
  <2>2. CASE i \in DOMAIN s /\ p[i] = s[i]
    <3>1. PICK k \in DOMAIN s : k < i /\ s[k].kind = "list"
      BY <1>5, <2>2 DEF Ordered
    <3> QED BY <1>1, <3>1
  <2> QED BY <1>1, <2>1, <2>2
<1> QED BY <1>2, <1>3, <1>4, <1>5 DEF Ordered, p

LEMMA OrderedTail ==
    ASSUME NEW s, StanzasOnly(s), s # <<>>, NEW sub \in BOOLEAN, Ordered(s, sub)
    PROVE  /\ Ordered(Tail(s), sub \/ Head(s).kind = "list")
           /\ HasList(s) <=> HasList(Tail(s)) \/ Head(s).kind = "list"
           /\ Head(s).kind \in {"block", "unblock"} => sub
           /\ sub => Head(s).kind \notin {"list", "refused"}
<1> DEFINE p == Tail(s)
           now == sub \/ Head(s).kind = "list"
<1>1. /\ IsSequence(s) /\ Len(s) \in Nat /\ DOMAIN s = 1..Len(s) /\ DOMAIN p = 1..(Len(s) - 1)
      /\ (\A i \in DOMAIN p : i + 1 \in DOMAIN s /\ p[i] = s[i + 1])
      /\ 1 \in DOMAIN s /\ Head(s) = s[1]
  BY TailOf DEF StanzasOnly
<1>2. \A i \in DOMAIN s : i = 1 \/ (i - 1 \in DOMAIN p /\ p[i - 1] = s[i])
  <2>1. \A i \in DOMAIN s : i = 1 \/ (i - 1 \in DOMAIN p /\ (i - 1) + 1 = i)
    BY <1>1
  <2> QED BY <1>1, <2>1
<1> HIDE DEF p
<1>3. HasList(s) <=> HasList(p) \/ Head(s).kind = "list"
  BY <1>1, <1>2 DEF HasList
<1>4. Head(s).kind \in {"block", "unblock"} => sub
  BY <1>1 DEF Ordered
<1>5. sub => Head(s).kind \notin {"list", "refused"}
  BY <1>1 DEF Ordered
<1>6. ASSUME now, NEW i \in DOMAIN p
      PROVE  p[i].kind \notin {"list", "refused"}
  <2>1. CASE sub
    BY <1>1, <2>1 DEF Ordered
  <2>2. CASE Head(s).kind = "list"
    <3>1. s[i + 1].kind \in {"list", "refused"} => i + 1 <= 1
      BY <1>1, <2>2 DEF Ordered
    <3>2. ~(i + 1 <= 1)
      BY <1>1
    <3> QED BY <1>1, <3>1, <3>2
  <2> QED BY <1>6, <2>1, <2>2
<1>7. ASSUME NEW i \in DOMAIN p, NEW k \in DOMAIN p, p[i].kind = "list", p[k].kind \in {"list", "refused"}
      PROVE  k <= i
  <2>1. k + 1 <= i + 1
    BY <1>1, <1>7 DEF Ordered
  <2> QED BY <1>1, <2>1
<1>8. ASSUME NEW i \in DOMAIN p, p[i].kind \in {"block", "unblock"}, ~now
      PROVE  \E k \in DOMAIN p : k < i /\ p[k].kind = "list"
  <2>1. PICK k \in DOMAIN s : k < i + 1 /\ s[k].kind = "list"
    BY <1>1, <1>8 DEF Ordered
  <2>2. k # 1
    BY <1>1, <1>8, <2>1
  <2>3. k - 1 \in DOMAIN p /\ p[k - 1] = s[k] /\ k - 1 < i
    BY <1>1, <1>2, <2>1, <2>2
  <2> QED BY <2>1, <2>3
<1>9. Ordered(p, now)
  BY <1>6, <1>7, <1>8 DEF Ordered
<1> QED BY <1>3, <1>4, <1>5, <1>9 DEF p

-----------------------------------------------------------------------------
(* The requests to the server.                                             *)

RequestsOnly(r) ==
    /\ IsSequence(r) /\ \A i \in DOMAIN r : r[i] \in BlockRequests
    /\ \A i, k \in DOMAIN r : r[i].op = "fetch" /\ r[k].op = "fetch" => i = k

LEMMA RequestsAppend ==
    ASSUME NEW r, RequestsOnly(r), NEW q \in BlockRequests, q.op = "fetch" => ~Fetches(r)
    PROVE  /\ RequestsOnly(Append(r, q))
           /\ Fetches(Append(r, q)) <=> Fetches(r) \/ q.op = "fetch"
<1> DEFINE p == Append(r, q)
           N == Len(r) + 1
<1>1. /\ IsSequence(r) /\ \A i \in DOMAIN r : r[i] \in BlockRequests
      /\ \A i, k \in DOMAIN r : r[i].op = "fetch" /\ r[k].op = "fetch" => i = k
  BY DEF RequestsOnly
<1>2. /\ IsSequence(p) /\ N \in DOMAIN p /\ p[N] = q
      /\ (\A i \in DOMAIN p : (i \in DOMAIN r /\ p[i] = r[i]) \/ (i = N /\ p[i] = q))
      /\ (\A i \in DOMAIN r : i \in DOMAIN p /\ p[i] = r[i])
  BY <1>1, AppendOf
<1> HIDE DEF p
<1>3. Fetches(p) <=> Fetches(r) \/ q.op = "fetch"
  BY <1>2 DEF Fetches
<1>4. RequestsOnly(p)
  BY <1>1, <1>2 DEF RequestsOnly, Fetches
<1> QED BY <1>3, <1>4 DEF p

LEMMA RequestsTail ==
    ASSUME NEW r, RequestsOnly(r), r # <<>>
    PROVE  /\ RequestsOnly(Tail(r)) /\ Head(r) \in BlockRequests
           /\ Head(r).op = "fetch" => Fetches(r) /\ ~Fetches(Tail(r))
           /\ Head(r).op # "fetch" => (Fetches(Tail(r)) <=> Fetches(r))
<1> DEFINE p == Tail(r)
<1>1. /\ IsSequence(r) /\ \A i \in DOMAIN r : r[i] \in BlockRequests
      /\ \A i, k \in DOMAIN r : r[i].op = "fetch" /\ r[k].op = "fetch" => i = k
  BY DEF RequestsOnly
<1>2. /\ IsSequence(p) /\ Len(r) \in Nat /\ DOMAIN r = 1..Len(r) /\ DOMAIN p = 1..(Len(r) - 1)
      /\ (\A i \in DOMAIN p : i + 1 \in DOMAIN r /\ p[i] = r[i + 1])
      /\ 1 \in DOMAIN r /\ Head(r) = r[1]
  BY <1>1, TailOf
<1>3. \A i \in DOMAIN r : i = 1 \/ (i - 1 \in DOMAIN p /\ p[i - 1] = r[i])
  <2>1. \A i \in DOMAIN r : i = 1 \/ (i - 1 \in DOMAIN p /\ (i - 1) + 1 = i)
    BY <1>2
  <2> QED BY <1>2, <2>1
<1> HIDE DEF p
<1>4. ASSUME NEW i \in DOMAIN p, NEW k \in DOMAIN p, p[i].op = "fetch", p[k].op = "fetch"
      PROVE  i = k
  <2>1. i + 1 = k + 1
    BY <1>1, <1>2, <1>4
  <2> QED BY <1>2, <2>1
<1>5. RequestsOnly(p)
  BY <1>1, <1>2, <1>4 DEF RequestsOnly
<1>6. Head(r).op = "fetch" => Fetches(r) /\ ~Fetches(p)
  <2> SUFFICES ASSUME Head(r).op = "fetch"
               PROVE  Fetches(r) /\ \A i \in DOMAIN p : p[i].op # "fetch"
    BY DEF Fetches
  <2>1. Fetches(r)
    BY <1>2 DEF Fetches
  <2>2. ASSUME NEW i \in DOMAIN p, p[i].op = "fetch"
        PROVE  FALSE
    <3>1. i + 1 = 1
      BY <1>1, <1>2, <2>2
    <3> QED BY <1>2, <3>1
  <2> QED BY <2>1, <2>2
<1>7. Head(r).op # "fetch" => (Fetches(p) <=> Fetches(r))
  BY <1>2, <1>3 DEF Fetches
<1> QED BY <1>1, <1>2, <1>5, <1>6, <1>7 DEF p

\* The server's list changes, of which it tells a client that fetched it.
LEMMA PushedKeeps ==
    ASSUME BlockTypes, NEW sub \in BOOLEAN, NEW L, NEW op \in {"block", "unblock"},
           NEW j \in BlockableJids, Ordered(stream, sub), blockServer.tells <=> sub \/ HasList(stream),
           Follows(stream, blockServer.tells, L, blockServer.jids)
    PROVE  /\ StanzasOnly(stream \o Pushed(op, j)) /\ Ordered(stream \o Pushed(op, j), sub)
           /\ HasList(stream \o Pushed(op, j)) <=> HasList(stream)
           /\ Follows(stream \o Pushed(op, j), blockServer.tells, L, Changes(op, j, blockServer.jids))
           /\ CountOf(stream \o Pushed(op, j), Answers) = CountOf(stream, Answers)
           /\ \A k \in {"list", "refused"} :
                 (\E i \in DOMAIN (stream \o Pushed(op, j)) : (stream \o Pushed(op, j))[i].kind = k) <=>
                 \E i \in DOMAIN stream : stream[i].kind = k
           /\ Changes(op, j, blockServer.jids) \in SUBSET BlockableJids
<1>1. /\ StanzasOnly(stream) /\ IsSequence(stream)
      /\ blockServer.tells \in BOOLEAN /\ blockServer.jids \in SUBSET BlockableJids
  BY DEF BlockTypes, StanzasOnly
<1>2. Changes(op, j, blockServer.jids) \in SUBSET BlockableJids
  BY <1>1 DEF Changes
<1>3. CASE blockServer.tells /\ (op = "block" \/ j \in blockServer.jids)
  <2> DEFINE z == [kind |-> op, jid |-> j]
             p == Append(stream, z)
  <2>1. z \in BlockStanzas /\ z.kind = op
    BY StanzasTyped
  <2>2. stream \o Pushed(op, j) = p
    BY <1>1, <1>3, JoinedOne DEF Pushed
  <2>3. Follows(p, blockServer.tells, L, Changes(op, j, blockServer.jids))
    BY <1>1, <1>3, FollowsChange
  <2> HIDE DEF z
  <2>4. StanzasOnly(p)
    BY <1>1, <2>1, StanzasAppend
  <2>5. z.kind \in {"block", "unblock"}
    BY <2>1
  <2>6. Ordered(p, sub) /\ (HasList(p) <=> HasList(stream))
    BY <1>1, <1>3, <2>1, <2>5, OrderedAppend
  <2>7. z \notin Answers
    BY <2>5 DEF Answers
  <2>8. CountOf(p, Answers) = CountOf(stream, Answers)
    BY <1>1, <2>7, CountAppend
  <2>9. \A k \in {"list", "refused"} :
           (\E i \in DOMAIN p : p[i].kind = k) <=> \E i \in DOMAIN stream : stream[i].kind = k
    <3>1. /\ (\A i \in DOMAIN p : (i \in DOMAIN stream /\ p[i] = stream[i]) \/ p[i] = z)
          /\ (\A i \in DOMAIN stream : i \in DOMAIN p /\ p[i] = stream[i])
      BY <1>1, AppendOf
    <3> QED BY <2>5, <3>1
  <2> HIDE DEF p
  <2> QED BY <1>2, <2>2, <2>3, <2>4, <2>6, <2>8, <2>9
<1>4. CASE ~(blockServer.tells /\ (op = "block" \/ j \in blockServer.jids))
  <2>1. stream \o Pushed(op, j) = stream
    <3>1. Pushed(op, j) = <<>>
      BY <1>4 DEF Pushed
    <3> QED BY <1>1, <3>1 DEF IsSequence
  <2>2. Follows(stream, blockServer.tells, L, Changes(op, j, blockServer.jids))
    <3>1. CASE ~blockServer.tells
      BY <3>1 DEF Follows
    <3>2. CASE op = "unblock" /\ j \notin blockServer.jids
      <4>1. Changes(op, j, blockServer.jids) = blockServer.jids
        BY <3>2 DEF Changes
      <4> QED BY <4>1
    <3> QED BY <1>4, <3>1, <3>2
  <2> QED BY <1>1, <1>2, <2>1, <2>2
<1> QED BY <1>3, <1>4

-----------------------------------------------------------------------------
(* The steps.                                                              *)

LEMMA BlockFacts ==
    ASSUME BlockInv
    PROVE  /\ RequestsOnly(requests) /\ StanzasOnly(stream) /\ IsSequence(requests) /\ IsSequence(stream)
           /\ blockServer \in [jids : SUBSET BlockableJids, tells : BOOLEAN, resumes : BOOLEAN]
           /\ blockServer.jids \in SUBSET BlockableJids /\ blockServer.tells \in BOOLEAN
           /\ isSubscribed \in BOOLEAN /\ subscribed \in BOOLEAN /\ failures \in Nat
           /\ Ordered(stream, isSubscribed) /\ (blockServer.tells <=> isSubscribed \/ HasList(stream))
           /\ Follows(stream, blockServer.tells, blocklist.jids, blockServer.jids)
           /\ Fetches(requests) => subscribed /\ ~blockServer.tells
<1>1. BlockTypes /\ FetchInv /\ FollowInv
  BY DEF BlockInv
<1>2. RequestsOnly(requests) /\ StanzasOnly(stream) /\ IsSequence(requests) /\ IsSequence(stream)
  BY <1>1 DEF BlockTypes, FetchInv, RequestsOnly, StanzasOnly
<1>3. /\ blockServer \in [jids : SUBSET BlockableJids, tells : BOOLEAN, resumes : BOOLEAN]
      /\ isSubscribed \in BOOLEAN /\ subscribed \in BOOLEAN /\ failures \in Nat
  BY <1>1 DEF BlockTypes
<1>4. Ordered(stream, isSubscribed) /\ (blockServer.tells <=> isSubscribed \/ HasList(stream))
      /\ (Fetches(requests) => subscribed /\ ~blockServer.tells)
  BY <1>1 DEF FetchInv
<1> QED BY <1>1, <1>2, <1>3, <1>4 DEF FollowInv

LEMMA BlockInvInit ==
    ASSUME BlockInit, jobs = <<>>, results = <<>>, requests = <<>>, stream = <<>>, failures = 0
    PROVE  BlockInv
<1>1. BlockTypes
  <2>1. page \in [open : BOOLEAN, entries : [BlockableJids -> Int]]
    BY DEF BlockInit, NoPage
  <2> QED BY <2>1, EmptyQueue DEF BlockInit, BlockTypes, NoBlocklist
<1>2. FetchInv
  BY EmptyQueue, OrderedNothing DEF BlockInit, FetchInv, Fetches, HasList
<1>3. RunningInv
  BY CountNone DEF BlockInit, RunningInv
<1>4. FollowInv
  <2>1. blockServer.tells = FALSE
    BY DEF BlockInit
  <2> QED BY <2>1, FollowsNothing DEF FollowInv
<1>5. StoredInv
  BY EmptyQueue DEF BlockInit, StoredInv, NoBlocklist
<1>6. BlocklistShown
  BY DEF BlockInit, NoBlocklist, BlocklistShown
<1> QED BY <1>1, <1>2, <1>3, <1>4, <1>5, <1>6 DEF BlockInv

\* The page or the watcher subscribes.
LEMMA SubscribedKeeps ==
    ASSUME BlockInv, Subscribed,
           UNCHANGED <<blockServer, stream, isSubscribed, blocklist, running, blocked, results,
                       connected, failures>>,
           page' \in [open : BOOLEAN, entries : [BlockableJids -> Int]],
           watcher' \in [jid : BlockableJids \cup {NoJid}, blocked : BOOLEAN],
           BlocklistShown'
    PROVE  BlockInv'
<1>1. BlockTypes /\ FetchInv /\ RunningInv /\ FollowInv /\ StoredInv
  BY DEF BlockInv
<1>2. FollowInv'
  BY <1>1 DEF FollowInv
<1>3. /\ subscribed' = TRUE
      /\ jobs' = IF subscribed THEN jobs ELSE Append(jobs, [op |-> "load", jids |-> {}])
      /\ requests' = IF ~subscribed /\ connected THEN Append(requests, FetchBlocklist) ELSE requests
  BY DEF Subscribed
<1>4. subscribed \in BOOLEAN
  BY <1>1 DEF BlockTypes
<1>5. CASE subscribed
  <2>1. UNCHANGED <<subscribed, jobs, requests>>
    BY <1>3, <1>4, <1>5
  <2>2. BlockTypes'
    BY <1>1, <2>1 DEF BlockTypes
  <2>3. FetchInv'
    BY <1>1, <2>1 DEF FetchInv
  <2>4. RunningInv'
    BY <1>1, <2>1 DEF RunningInv
  <2>5. StoredInv'
    BY <1>1, <2>1 DEF StoredInv
  <2> QED BY <1>2, <2>2, <2>3, <2>4, <2>5 DEF BlockInv
<1>6. CASE ~subscribed
  <2> DEFINE job == [op |-> "load", jids |-> {}]
  <2>1. /\ jobs = <<>> /\ results = <<>> /\ blocklist.source = "None" /\ blocklist.jids = {}
        /\ ~isSubscribed /\ ~Fetches(requests) /\ ~HasList(stream) /\ ~blockServer.tells
    BY <1>1, <1>6 DEF StoredInv, FetchInv, HasList
  <2>2. job \in BlockJobs /\ job.op = "load"
    BY DEF BlockJobs
  <2>3. IsSequence(jobs') /\ DOMAIN jobs' = {1} /\ jobs'[1] = job
    <3>1. jobs' = Append(jobs, job) /\ IsSequence(jobs) /\ Len(jobs) = 0
      BY <1>3, <1>6, <2>1, EmptyQueue
    <3>2. /\ IsSequence(Append(jobs, job)) /\ DOMAIN Append(jobs, job) = 1..(Len(jobs) + 1)
          /\ Append(jobs, job)[Len(jobs) + 1] = job
      <4>1. IsSequence(jobs)
        BY <1>1 DEF BlockTypes
      <4> QED BY <4>1, AppendOf
    <3>3. 1..(0 + 1) = {1} /\ 0 + 1 = 1
      OBVIOUS
    <3> QED BY <3>1, <3>2, <3>3
  <2> HIDE DEF job
  <2>4. RequestsOnly(requests')
    BY <1>3, <2>1, BlockFacts, RequestsAppend, RequestKinds
  <2>5. connected => Fetches(requests')
    BY <1>3, <1>6, <2>1, BlockFacts, RequestsAppend, RequestKinds
  <2>6. CountOf(requests', Actions) = CountOf(requests, Actions)
    <3>1. FetchBlocklist \notin Actions
      BY RequestKinds DEF Actions
    <3>2. CountOf(requests, Actions) \in Nat
          /\ CountOf(Append(requests, FetchBlocklist), Actions) = CountOf(requests, Actions)
      BY <3>1, BlockFacts, CountAppend
    <3> QED BY <1>3, <3>2
  <2>7. BlockTypes'
    <3>1. IsSequence(jobs') /\ \A i \in DOMAIN jobs' : jobs'[i] \in BlockJobs
      BY <2>2, <2>3
    <3>2. IsSequence(requests') /\ \A i \in DOMAIN requests' : requests'[i] \in BlockRequests
      BY <2>4 DEF RequestsOnly
    <3>3. subscribed' \in BOOLEAN
      BY <1>3
    <3> QED BY <1>1, <3>1, <3>2, <3>3 DEF BlockTypes
  <2>8. FetchInv'
    <3>1. (HasList(stream))' <=> HasList(stream)
      BY DEF HasList
    <3>2. (Fetches(requests))' => connected
      BY <1>3, <2>1 DEF Fetches
    <3>3. Ordered(stream, isSubscribed)'
      BY <1>1 DEF FetchInv, Ordered
    <3>4. \A i, k \in DOMAIN requests' : requests'[i].op = "fetch" /\ requests'[k].op = "fetch" => i = k
      BY <2>4 DEF RequestsOnly
    <3>5. (connected => Fetches(requests))'
      BY <2>5 DEF Fetches
    <3> QED BY <1>1, <1>3, <2>1, <3>1, <3>2, <3>3, <3>4, <3>5 DEF FetchInv
  <2>9. RunningInv'
    BY <1>1, <2>6 DEF RunningInv
  <2>10. StoredInv'
    <3>1. \A i, k \in DOMAIN jobs' : i = k
      BY <2>3
    <3>2. blocklist' = blocklist /\ results' = <<>> /\ subscribed'
      BY <1>3, <2>1
    <3> QED BY <2>1, <2>2, <2>3, <3>1, <3>2, EmptyQueue DEF StoredInv
  <2> QED BY <1>2, <2>7, <2>8, <2>9, <2>10 DEF BlockInv
<1> QED BY <1>5, <1>6

LEMMA OpenPageKeeps ==
    ASSUME BlockInv, OpenPage
    PROVE  BlockInv'
<1>1. /\ page' = [open |-> TRUE, entries |-> Entries(blocklist.jids)]
      /\ Subscribed
      /\ UNCHANGED <<blockServer, stream, isSubscribed, blocklist, running, watcher, blocked, results,
                     connected, failures>>
  BY DEF OpenPage
<1>2. BlockTypes /\ BlocklistShown
  BY DEF BlockInv
<1>3. page' \in [open : BOOLEAN, entries : [BlockableJids -> Int]]
  BY <1>1 DEF Entries
<1>4. watcher' \in [jid : BlockableJids \cup {NoJid}, blocked : BOOLEAN]
  BY <1>1, <1>2 DEF BlockTypes
<1>5. BlocklistShown'
  BY <1>1, <1>2 DEF BlocklistShown
<1> QED BY <1>1, <1>3, <1>4, <1>5, SubscribedKeeps

LEMMA WatchKeeps ==
    ASSUME BlockInv, NEW j \in BlockableJids, Watch(j)
    PROVE  BlockInv'
<1>1. /\ watcher' = [jid |-> j, blocked |-> j \in blocklist.jids]
      /\ Subscribed
      /\ UNCHANGED <<blockServer, stream, isSubscribed, blocklist, running, page, blocked, results,
                     connected, failures>>
  BY DEF Watch
<1>2. BlockTypes /\ BlocklistShown
  BY DEF BlockInv
<1>3. page' \in [open : BOOLEAN, entries : [BlockableJids -> Int]]
  BY <1>1, <1>2 DEF BlockTypes
<1>4. watcher' \in [jid : BlockableJids \cup {NoJid}, blocked : BOOLEAN]
  BY <1>1
<1>5. BlocklistShown'
  BY <1>1, <1>2 DEF BlocklistShown
<1> QED BY <1>1, <1>3, <1>4, <1>5, SubscribedKeeps

\* Steps that change nothing that a queue or the list depends on
LEMMA ClosePageKeeps ==
    ASSUME BlockInv, ClosePage
    PROVE  BlockInv'
<1>1. /\ page' = NoPage
      /\ UNCHANGED <<blockServer, requests, stream, isSubscribed, blocklist, subscribed, running,
                     watcher, blocked, jobs, results, connected, failures>>
  BY DEF ClosePage, netVars
<1>2. BlockTypes /\ FetchInv /\ RunningInv /\ FollowInv /\ StoredInv /\ BlocklistShown
  BY DEF BlockInv
<1>3. BlockTypes'
  <2>1. page' \in [open : BOOLEAN, entries : [BlockableJids -> Int]]
    BY <1>1 DEF NoPage
  <2> QED BY <1>1, <1>2, <2>1 DEF BlockTypes
<1>4. FetchInv' /\ RunningInv' /\ FollowInv' /\ StoredInv'
  BY <1>1, <1>2 DEF FetchInv, RunningInv, FollowInv, StoredInv
<1>5. BlocklistShown'
  BY <1>1, <1>2 DEF BlocklistShown, NoPage
<1> QED BY <1>3, <1>4, <1>5 DEF BlockInv

LEMMA DisconnectBlockingKeeps ==
    ASSUME BlockInv, DisconnectBlocking
    PROVE  BlockInv'
<1>1. /\ connected' = FALSE
      /\ UNCHANGED <<blockServer, requests, stream, isSubscribed, blocklist, subscribed, running,
                     page, watcher, blocked, jobs, results, failures>>
  BY DEF DisconnectBlocking, blockVars
<1>2. BlockTypes /\ FetchInv /\ RunningInv /\ FollowInv /\ StoredInv /\ BlocklistShown
  BY DEF BlockInv
<1>3. BlockTypes'
  BY <1>1, <1>2 DEF BlockTypes
<1>4. FetchInv'
  BY <1>1, <1>2 DEF FetchInv
<1>5. RunningInv' /\ FollowInv' /\ StoredInv' /\ BlocklistShown'
  BY <1>1, <1>2 DEF RunningInv, FollowInv, StoredInv, BlocklistShown
<1> QED BY <1>3, <1>4, <1>5 DEF BlockInv

LEMMA BlockInvUnchanged ==
    ASSUME BlockInv, UNCHANGED <<blockVars, queues, connected, failures>>
    PROVE  BlockInv'
<1>1. UNCHANGED <<blockServer, requests, stream, isSubscribed, blocklist, subscribed, running,
                  page, watcher, blocked, jobs, results, connected, failures>>
  BY DEF blockVars, queues
<1>2. BlockTypes /\ FetchInv /\ RunningInv /\ FollowInv /\ StoredInv /\ BlocklistShown
  BY DEF BlockInv
<1>3. BlockTypes'
  BY <1>1, <1>2 DEF BlockTypes
<1>4. FetchInv'
  BY <1>1, <1>2 DEF FetchInv
<1>5. RunningInv' /\ FollowInv' /\ StoredInv' /\ BlocklistShown'
  BY <1>1, <1>2 DEF RunningInv, FollowInv, StoredInv, BlocklistShown
<1> QED BY <1>3, <1>4, <1>5 DEF BlockInv

-----------------------------------------------------------------------------
(* Requests, and what the server does.                                     *)

\* What depends only on stanzas, requests and the server
LEMMA NetworkKeeps ==
    ASSUME BlockInv, UNCHANGED <<isSubscribed, blocklist, subscribed, page, watcher, blocked, jobs,
                                 results, connected>>,
           failures' \in Nat, failures' >= failures,
           blockServer' \in [jids : SUBSET BlockableJids, tells : BOOLEAN, resumes : BOOLEAN],
           RequestsOnly(requests'), StanzasOnly(stream'),
           Fetches(requests') => Fetches(requests),
           Fetches(requests') => ~blockServer'.tells,
           blockServer'.tells <=> isSubscribed \/ HasList(stream'),
           Ordered(stream', isSubscribed),
           (\E i \in DOMAIN stream' : stream'[i].kind \in {"list", "refused"}) => subscribed,
           (\E i \in DOMAIN stream' : stream'[i].kind = "refused") => failures' > 0,
           Fetches(requests) \/ HasList(stream) =>
              failures' > 0 \/ Fetches(requests') \/ HasList(stream'),
           running' = CountOf(requests', Actions) + CountOf(stream', Answers),
           Follows(stream', blockServer'.tells, blocklist.jids, blockServer'.jids)
    PROVE  BlockInv'
<1>1. BlockTypes /\ FetchInv /\ StoredInv /\ BlocklistShown
  BY DEF BlockInv
<1>2. BlockTypes'
  BY <1>1 DEF BlockTypes, RequestsOnly, StanzasOnly
<1>3. FetchInv'
  <2>1. \A i, k \in DOMAIN requests' : requests'[i].op = "fetch" /\ requests'[k].op = "fetch" => i = k
    BY DEF RequestsOnly
  <2>2. Fetches(requests') => subscribed
    BY <1>1 DEF FetchInv
  <2>3. subscribed /\ connected => isSubscribed \/ failures' > 0 \/ Fetches(requests') \/ HasList(stream')
    BY <1>1 DEF FetchInv, BlockTypes
  <2>4. (isSubscribed => blocklist.source = "Xmpp") /\ (isSubscribed => subscribed)
    BY <1>1 DEF FetchInv
  <2> QED BY <2>1, <2>2, <2>3, <2>4 DEF FetchInv
<1>4. RunningInv'
  BY DEF RunningInv
<1>5. FollowInv'
  BY DEF FollowInv
<1>6. StoredInv' /\ BlocklistShown'
  BY <1>1 DEF StoredInv, BlocklistShown
<1> QED BY <1>2, <1>3, <1>4, <1>5, <1>6 DEF BlockInv

LEMMA NetworkFacts ==
    ASSUME BlockInv
    PROVE  /\ failures + 0 \in Nat /\ failures >= failures
           /\ (\E i \in DOMAIN stream : stream[i].kind \in {"list", "refused"}) => subscribed
           /\ (\E i \in DOMAIN stream : stream[i].kind = "refused") => failures > 0
           /\ running = CountOf(requests, Actions) + CountOf(stream, Answers)
           /\ CountOf(requests, Actions) \in Nat /\ CountOf(stream, Answers) \in Nat
           /\ (Fetches(requests) => subscribed) /\ BlockTypes
<1>1. FetchInv /\ RunningInv /\ BlockTypes
  BY DEF BlockInv
<1>2. CountOf(requests, Actions) \in Nat /\ CountOf(stream, Answers) \in Nat
  BY <1>1, CountAppend DEF BlockTypes
<1> QED BY <1>1, <1>2 DEF FetchInv, RunningInv, BlockTypes

LEMMA RequestBlockingKeeps ==
    ASSUME BlockInv, NEW op \in {"block", "unblock"}, NEW j \in BlockableJids, RequestBlocking(op, j)
    PROVE  BlockInv'
<1> DEFINE q == [op |-> op, jid |-> j]
<1>1. /\ requests' = Append(requests, q) /\ running' = running + 1
      /\ UNCHANGED <<blockServer, stream, isSubscribed, blocklist, page, watcher, subscribed, blocked,
                     jobs, results, connected, failures>>
  BY DEF RequestBlocking, shownVars
<1>2. q \in BlockRequests /\ q.op # "fetch"
  BY RequestKinds
<1> HIDE DEF q
<1>3. RequestsOnly(requests') /\ (Fetches(requests') <=> Fetches(requests))
  BY <1>1, <1>2, BlockFacts, RequestsAppend
<1>4. q \in Actions
  BY <1>2 DEF Actions
<1>5. CountOf(requests', Actions) = CountOf(requests, Actions) + 1
  BY <1>1, <1>4, BlockFacts, CountAppend
<1>6. running' = CountOf(requests', Actions) + CountOf(stream', Answers)
  BY <1>1, <1>5, NetworkFacts
<1> QED BY <1>1, <1>3, <1>6, BlockFacts, NetworkFacts, NetworkKeeps

LEMMA PushedFacts ==
    ASSUME BlockInv, NEW op \in {"block", "unblock"}, NEW j \in BlockableJids
    PROVE  LET s == stream \o Pushed(op, j)
               J == Changes(op, j, blockServer.jids)
           IN  /\ StanzasOnly(s) /\ Ordered(s, isSubscribed)
               /\ (HasList(s) <=> HasList(stream))
               /\ Follows(s, blockServer.tells, blocklist.jids, J)
               /\ CountOf(s, Answers) = CountOf(stream, Answers)
               /\ \A k \in {"list", "refused"} :
                     (\E i \in DOMAIN s : s[i].kind = k) <=> \E i \in DOMAIN stream : stream[i].kind = k
               /\ J \in SUBSET BlockableJids
<1> DEFINE s == stream \o Pushed(op, j)
           J == Changes(op, j, blockServer.jids)
<1>1. /\ BlockTypes /\ isSubscribed \in BOOLEAN /\ Ordered(stream, isSubscribed)
      /\ (blockServer.tells <=> isSubscribed \/ HasList(stream))
      /\ Follows(stream, blockServer.tells, blocklist.jids, blockServer.jids)
  BY BlockFacts, NetworkFacts
<1>2. /\ StanzasOnly(s) /\ Ordered(s, isSubscribed)
      /\ (HasList(s) <=> HasList(stream))
      /\ Follows(s, blockServer.tells, blocklist.jids, J)
      /\ CountOf(s, Answers) = CountOf(stream, Answers)
      /\ \A k \in {"list", "refused"} :
            (\E i \in DOMAIN s : s[i].kind = k) <=> \E i \in DOMAIN stream : stream[i].kind = k
      /\ J \in SUBSET BlockableJids
  BY <1>1, PushedKeeps, SMTT(30)
<1> QED BY <1>2

LEMMA ChangedByOtherClientKeeps ==
    ASSUME BlockInv, NEW op \in {"block", "unblock"}, NEW j \in BlockableJids,
           ChangedByOtherClient(op, j)
    PROVE  BlockInv'
<1> DEFINE s == stream \o Pushed(op, j)
           J == Changes(op, j, blockServer.jids)
<1>1. /\ blockServer' = [blockServer EXCEPT !.jids = J] /\ stream' = s
      /\ UNCHANGED <<requests, isSubscribed, blocklist, page, watcher, subscribed, running, blocked,
                     jobs, results, connected, failures>>
  BY DEF ChangedByOtherClient, shownVars
<1>2. /\ StanzasOnly(s) /\ Ordered(s, isSubscribed)
      /\ (HasList(s) <=> HasList(stream))
      /\ Follows(s, blockServer.tells, blocklist.jids, J)
      /\ CountOf(s, Answers) = CountOf(stream, Answers)
      /\ \A k \in {"list", "refused"} :
            (\E i \in DOMAIN s : s[i].kind = k) <=> \E i \in DOMAIN stream : stream[i].kind = k
      /\ J \in SUBSET BlockableJids
  BY PushedFacts
<1> HIDE DEF s, J
<1>3. /\ blockServer' \in [jids : SUBSET BlockableJids, tells : BOOLEAN, resumes : BOOLEAN]
      /\ blockServer'.tells = blockServer.tells /\ blockServer'.jids = J
  BY <1>1, <1>2, BlockFacts
<1>4. (\E i \in DOMAIN s : s[i].kind \in {"list", "refused"}) => subscribed
  BY <1>2, NetworkFacts
<1>5. (\E i \in DOMAIN s : s[i].kind = "refused") => failures > 0
  BY <1>2, NetworkFacts
<1> QED BY <1>1, <1>2, <1>3, <1>4, <1>5, BlockFacts, NetworkFacts, NetworkKeeps

\* The server answers the first request by z, after what it told by s.
LEMMA AnswerKeeps ==
    ASSUME BlockInv, requests # <<>>, NEW s, StanzasOnly(s), Ordered(s, isSubscribed),
           HasList(s) <=> HasList(stream), CountOf(s, Answers) = CountOf(stream, Answers),
           \A k \in {"list", "refused"} :
              (\E i \in DOMAIN s : s[i].kind = k) <=> \E i \in DOMAIN stream : stream[i].kind = k,
           NEW z \in BlockStanzas,
           Head(requests).op = "fetch" => z.kind \in {"list", "refused"},
           Head(requests).op # "fetch" => z.kind = "result",
           failures' \in Nat, failures' >= failures, z.kind = "refused" => failures' > 0,
           requests' = Tail(requests), stream' = Append(s, z),
           blockServer' \in [jids : SUBSET BlockableJids, tells : BOOLEAN, resumes : BOOLEAN],
           blockServer'.tells <=> blockServer.tells \/ z.kind = "list",
           Follows(stream', blockServer'.tells, blocklist.jids, blockServer'.jids),
           UNCHANGED <<isSubscribed, blocklist, page, watcher, subscribed, running, blocked, jobs,
                       results, connected>>
    PROVE  BlockInv'
<1>1. /\ RequestsOnly(Tail(requests)) /\ Head(requests) \in BlockRequests
      /\ Head(requests).op = "fetch" => Fetches(requests) /\ ~Fetches(Tail(requests))
      /\ Head(requests).op # "fetch" => (Fetches(Tail(requests)) <=> Fetches(requests))
  BY BlockFacts, RequestsTail
<1>2. Head(requests).op = "fetch" => subscribed /\ ~isSubscribed /\ ~HasList(s)
  BY <1>1, BlockFacts
<1>3. isSubscribed \in BOOLEAN /\ IsSequence(requests) /\ IsSequence(s)
  BY BlockFacts DEF StanzasOnly
<1>4. Ordered(stream', isSubscribed) /\ (HasList(stream') <=> HasList(s) \/ z.kind = "list")
  <2>1. z.kind \in {"list", "refused"} => ~isSubscribed /\ ~HasList(s)
    BY <1>2
  <2>2. z.kind \notin {"block", "unblock"}
    OBVIOUS
  <2>3. Ordered(Append(s, z), isSubscribed) /\ (HasList(Append(s, z)) <=> HasList(s) \/ z.kind = "list")
    BY <1>3, <2>1, <2>2, OrderedAppend
  <2> QED BY <2>3
<1>5. StanzasOnly(stream')
  BY StanzasAppend
<1>6. running' = CountOf(requests', Actions) + CountOf(stream', Answers)
  <2>1. /\ CountOf(Tail(requests), Actions) \in Nat
        /\ Head(requests) \in Actions => CountOf(requests, Actions) = CountOf(Tail(requests), Actions) + 1
        /\ Head(requests) \notin Actions => CountOf(requests, Actions) = CountOf(Tail(requests), Actions)
    BY <1>3, CountLess
  <2>2. /\ CountOf(s, Answers) \in Nat
        /\ z \in Answers => CountOf(Append(s, z), Answers) = CountOf(s, Answers) + 1
        /\ z \notin Answers => CountOf(Append(s, z), Answers) = CountOf(s, Answers)
    <3>1. IsSequence(s)
      BY <1>3
    <3> QED BY <3>1, CountMore
  <2>3. Head(requests) \in Actions <=> z \in Answers
    BY <1>1 DEF Actions, Answers
  <2>4. running = CountOf(requests, Actions) + CountOf(stream, Answers) /\ running' = running
    BY NetworkFacts
  <2>5. CASE z \in Answers
    BY <2>1, <2>2, <2>3, <2>4, <2>5
  <2>6. CASE z \notin Answers
    BY <2>1, <2>2, <2>3, <2>4, <2>6
  <2> QED BY <2>5, <2>6
<1>7. /\ (\A i \in DOMAIN stream' : (i \in DOMAIN s /\ stream'[i] = s[i]) \/ stream'[i] = z)
      /\ (\A i \in DOMAIN s : i \in DOMAIN stream' /\ stream'[i] = s[i])
  BY <1>3, AppendOf
<1>8. (\E i \in DOMAIN stream' : stream'[i].kind \in {"list", "refused"}) => subscribed
  <2> SUFFICES ASSUME NEW i \in DOMAIN stream', stream'[i].kind \in {"list", "refused"}
               PROVE  subscribed
    OBVIOUS
  <2>1. CASE stream'[i] = z
    BY <1>2, <2>1
  <2>2. CASE i \in DOMAIN s /\ stream'[i] = s[i]
    <3>1. \E k \in DOMAIN stream : stream[k].kind \in {"list", "refused"}
      BY <2>2
    <3> QED BY <3>1, NetworkFacts
  <2> QED BY <1>7, <2>1, <2>2
<1>9. (\E i \in DOMAIN stream' : stream'[i].kind = "refused") => failures' > 0
  <2> SUFFICES ASSUME NEW i \in DOMAIN stream', stream'[i].kind = "refused"
               PROVE  failures' > 0
    OBVIOUS
  <2>1. CASE stream'[i] = z
    BY <2>1
  <2>2. CASE i \in DOMAIN s /\ stream'[i] = s[i]
    <3>1. \E k \in DOMAIN stream : stream[k].kind = "refused"
      BY <2>2
    <3>2. failures > 0 /\ failures \in Nat
      BY <3>1, NetworkFacts, BlockFacts
    <3> QED BY <3>2
  <2> QED BY <1>7, <2>1, <2>2
<1>10. blockServer'.tells <=> isSubscribed \/ HasList(stream')
  BY <1>4, BlockFacts
<1>11. /\ Fetches(requests') => Fetches(requests)
       /\ Fetches(requests') => ~blockServer'.tells
  BY <1>1, BlockFacts
<1>12. Fetches(requests) \/ HasList(stream) =>
          failures' > 0 \/ Fetches(requests') \/ HasList(stream')
  BY <1>1, <1>4
<1> QED BY <1>1, <1>4, <1>5, <1>6, <1>8, <1>9, <1>10, <1>11, <1>12, NetworkKeeps

LEMMA ServeBlockingKeeps ==
    ASSUME BlockInv, ServeBlocking
    PROVE  BlockInv'
<1> DEFINE request == Head(requests)
<1>1. /\ requests # <<>> /\ requests' = Tail(requests)
      /\ UNCHANGED <<isSubscribed, blocklist, page, watcher, subscribed, running, blocked, jobs,
                     results, connected>>
  BY DEF ServeBlocking, shownVars
<1>2. /\ StanzasOnly(stream) /\ Ordered(stream, isSubscribed) /\ failures \in Nat
      /\ isSubscribed \in BOOLEAN /\ IsSequence(stream)
      /\ blockServer \in [jids : SUBSET BlockableJids, tells : BOOLEAN, resumes : BOOLEAN]
      /\ blockServer.jids \in SUBSET BlockableJids
      /\ Follows(stream, blockServer.tells, blocklist.jids, blockServer.jids)
      /\ request \in BlockRequests
  BY <1>1, BlockFacts, RequestsTail
<1>3. \/ /\ Fail
         /\ stream' = Append(stream, [kind |-> IF request.op = "fetch" THEN "refused" ELSE "result"])
         /\ UNCHANGED blockServer
      \/ /\ request.op = "fetch"
         /\ blockServer' = [blockServer EXCEPT !.tells = TRUE]
         /\ stream' = Append(stream, [kind |-> "list", jids |-> blockServer.jids])
         /\ UNCHANGED failures
      \/ /\ request.op # "fetch"
         /\ blockServer' = [blockServer EXCEPT !.jids = Changes(request.op, request.jid, @)]
         /\ stream' = stream \o Pushed(request.op, request.jid) \o <<[kind |-> "result"]>>
         /\ UNCHANGED failures
  BY DEF ServeBlocking
<1>4. CASE /\ Fail
           /\ stream' = Append(stream, [kind |-> IF request.op = "fetch" THEN "refused" ELSE "result"])
           /\ UNCHANGED blockServer
  <2> DEFINE z == [kind |-> IF request.op = "fetch" THEN "refused" ELSE "result"]
  <2>1. z \in BlockStanzas /\ z.kind = IF request.op = "fetch" THEN "refused" ELSE "result"
    BY StanzasTyped
  <2>2. stream' = Append(stream, z) /\ blockServer' = blockServer
    BY <1>4
  <2> HIDE DEF z, request
  <2>3. failures' \in Nat /\ failures' > 0 /\ failures' >= failures
    BY <1>2, <1>4 DEF Fail
  <2>4. Follows(Append(stream, z), blockServer.tells, blocklist.jids, blockServer.jids)
    BY <1>2, <2>1, FollowsAnswer
  <2>5. /\ blockServer'.tells <=> blockServer.tells \/ z.kind = "list"
        /\ Follows(stream', blockServer'.tells, blocklist.jids, blockServer'.jids)
        /\ blockServer' \in [jids : SUBSET BlockableJids, tells : BOOLEAN, resumes : BOOLEAN]
    BY <1>2, <2>1, <2>2, <2>4
  <2>6. /\ request.op = "fetch" => z.kind \in {"list", "refused"}
        /\ request.op # "fetch" => z.kind = "result"
    BY <2>1
  <2> QED BY <1>1, <1>2, <2>1, <2>2, <2>3, <2>5, <2>6, AnswerKeeps DEF request
<1>5. CASE /\ request.op = "fetch"
           /\ blockServer' = [blockServer EXCEPT !.tells = TRUE]
           /\ stream' = Append(stream, [kind |-> "list", jids |-> blockServer.jids])
           /\ UNCHANGED failures
  <2> DEFINE z == [kind |-> "list", jids |-> blockServer.jids]
  <2>1. z \in BlockStanzas /\ z.kind = "list"
    BY <1>2, StanzasTyped
  <2>2. Follows(Append(stream, z), TRUE, blocklist.jids, blockServer.jids)
    BY <1>2, FollowsList
  <2>3. stream' = Append(stream, z)
    BY <1>5
  <2> HIDE DEF z, request
  <2>4. /\ blockServer'.tells = TRUE /\ blockServer'.jids = blockServer.jids
        /\ blockServer' \in [jids : SUBSET BlockableJids, tells : BOOLEAN, resumes : BOOLEAN]
    BY <1>2, <1>5
  <2>5. /\ blockServer'.tells <=> blockServer.tells \/ z.kind = "list"
        /\ Follows(stream', blockServer'.tells, blocklist.jids, blockServer'.jids)
    BY <2>1, <2>2, <2>3, <2>4
  <2>6. /\ request.op = "fetch" => z.kind \in {"list", "refused"}
        /\ request.op # "fetch" => z.kind = "result"
        /\ z.kind = "refused" => failures' > 0
        /\ failures' \in Nat /\ failures' >= failures
    BY <1>2, <1>5, <2>1
  <2> QED BY <1>1, <1>2, <2>1, <2>3, <2>4, <2>5, <2>6, AnswerKeeps DEF request
<1>6. CASE /\ request.op # "fetch"
           /\ blockServer' = [blockServer EXCEPT !.jids = Changes(request.op, request.jid, @)]
           /\ stream' = stream \o Pushed(request.op, request.jid) \o <<[kind |-> "result"]>>
           /\ UNCHANGED failures
  <2> DEFINE z == [kind |-> "result"]
             s == stream \o Pushed(request.op, request.jid)
             J == Changes(request.op, request.jid, blockServer.jids)
  <2>1. z \in BlockStanzas /\ z.kind = "result"
    BY StanzasTyped
  <2>2. request.op \in {"block", "unblock"} /\ request.jid \in BlockableJids
    BY <1>2, <1>6, RequestKinds
  <2>3. /\ StanzasOnly(s) /\ Ordered(s, isSubscribed)
        /\ (HasList(s) <=> HasList(stream))
        /\ Follows(s, blockServer.tells, blocklist.jids, J)
        /\ CountOf(s, Answers) = CountOf(stream, Answers)
        /\ \A k \in {"list", "refused"} :
              (\E i \in DOMAIN s : s[i].kind = k) <=> \E i \in DOMAIN stream : stream[i].kind = k
        /\ J \in SUBSET BlockableJids
    BY <2>2, PushedFacts
  <2>4. stream' = s \o <<z>>
    BY <1>6
  <2> HIDE DEF z, s
  <2>5. stream' = Append(s, z)
    BY <2>3, <2>4, JoinedOne DEF StanzasOnly
  <2>6. /\ blockServer'.tells = blockServer.tells /\ blockServer'.jids = J
        /\ blockServer' \in [jids : SUBSET BlockableJids, tells : BOOLEAN, resumes : BOOLEAN]
    BY <1>2, <1>6, <2>3
  <2> HIDE DEF J, request
  <2>7. Follows(Append(s, z), blockServer.tells, blocklist.jids, J)
    BY <2>1, <2>3, FollowsAnswer
  <2>8. Follows(stream', blockServer'.tells, blocklist.jids, blockServer'.jids)
    BY <2>5, <2>6, <2>7
  <2>9. /\ blockServer'.tells <=> blockServer.tells \/ z.kind = "list"
        /\ request.op = "fetch" => z.kind \in {"list", "refused"}
        /\ request.op # "fetch" => z.kind = "result"
        /\ z.kind = "refused" => failures' > 0
        /\ failures' \in Nat /\ failures' >= failures
    BY <1>2, <1>6, <2>1, <2>6
  <2> QED BY <1>1, <2>1, <2>3, <2>5, <2>6, <2>8, <2>9, AnswerKeeps DEF request
<1> QED BY <1>3, <1>4, <1>5, <1>6

-----------------------------------------------------------------------------
(* The list of the controller changes.                                     *)

StoredLeads(q, b, L) ==
    \A j \in BlockableJids : Leads(q, Len(q), StoredChange(j), InList(j, b), InList(j, L))

\* Types of what the main thread shows and queues
ShownTypes ==
    /\ blocklist \in [source : {"None", "Db", "Xmpp"}, jids : SUBSET BlockableJids]
    /\ page \in [open : BOOLEAN, entries : [BlockableJids -> Int]]
    /\ watcher \in [jid : BlockableJids \cup {NoJid}, blocked : BOOLEAN]
    /\ IsSequence(jobs) /\ \A i \in DOMAIN jobs : jobs[i] \in BlockJobs

\* One more job, which is no load
JobAdded(q) ==
    /\ IsSequence(jobs') /\ \A i \in DOMAIN jobs' : jobs'[i] \in BlockJobs
    /\ \A i \in DOMAIN jobs' : jobs'[i].op = "load" => i \in DOMAIN jobs /\ jobs[i] = jobs'[i]

LEMMA JobsAppend ==
    ASSUME BlockTypes, NEW q \in BlockJobs, q.op # "load", jobs' = Append(jobs, q)
    PROVE  JobAdded(q)
<1>1. IsSequence(jobs) /\ \A i \in DOMAIN jobs : jobs[i] \in BlockJobs
  BY DEF BlockTypes
<1>2. /\ IsSequence(jobs')
      /\ \A i \in DOMAIN jobs' : (i \in DOMAIN jobs /\ jobs'[i] = jobs[i]) \/ jobs'[i] = q
  BY <1>1, AppendOf
<1> QED BY <1>1, <1>2 DEF JobAdded

LEMMA ShownReplaced ==
    ASSUME BlockTypes, BlocklistShown, NEW source \in {"Db", "Xmpp"}, NEW J \in SUBSET BlockableJids,
           blocklist' = [source |-> source, jids |-> J],
           page' = IF page.open /\ (blocklist.source = "None" \/ blocklist.jids # J)
                   THEN [page EXCEPT !.entries = Entries(J)] ELSE page,
           watcher' = Refreshed(watcher, J)
    PROVE  /\ BlocklistShown'
           /\ blocklist' \in [source : {"None", "Db", "Xmpp"}, jids : SUBSET BlockableJids]
           /\ page' \in [open : BOOLEAN, entries : [BlockableJids -> Int]]
           /\ watcher' \in [jid : BlockableJids \cup {NoJid}, blocked : BOOLEAN]
           /\ blocklist'.source = source /\ blocklist'.jids = J
<1>1. /\ page \in [open : BOOLEAN, entries : [BlockableJids -> Int]]
      /\ watcher \in [jid : BlockableJids \cup {NoJid}, blocked : BOOLEAN]
  BY DEF BlockTypes
<1>2. /\ blocklist' \in [source : {"None", "Db", "Xmpp"}, jids : SUBSET BlockableJids]
      /\ blocklist'.source = source /\ blocklist'.jids = J
  OBVIOUS
<1>3. Entries(J) \in [BlockableJids -> Int]
  BY DEF Entries
<1>4. /\ page' \in [open : BOOLEAN, entries : [BlockableJids -> Int]]
      /\ page'.open => page'.entries = Entries(J)
  <2>1. CASE page.open /\ (blocklist.source = "None" \/ blocklist.jids # J)
    BY <1>1, <1>3, <2>1
  <2>2. CASE ~page.open
    BY <1>1, <2>2
  <2>3. CASE page.open /\ blocklist.source # "None" /\ blocklist.jids = J
    BY <1>1, <2>3 DEF BlocklistShown
  <2> QED BY <2>1, <2>2, <2>3
<1>5. /\ watcher' \in [jid : BlockableJids \cup {NoJid}, blocked : BOOLEAN]
      /\ watcher'.blocked = (watcher'.jid \in J)
  <2>1. watcher' = [watcher EXCEPT !.blocked = watcher.jid \in J]
    BY DEF Refreshed
  <2>2. watcher'.jid = watcher.jid /\ watcher'.blocked = (watcher.jid \in J)
    BY <1>1, <2>1
  <2>3. (watcher.jid \in J) \in BOOLEAN
    OBVIOUS
  <2>4. watcher' \in [jid : BlockableJids \cup {NoJid}, blocked : BOOLEAN]
    BY <1>1, <2>1, <2>3
  <2> QED BY <2>2, <2>4
<1>6. BlocklistShown'
  BY <1>2, <1>4, <1>5 DEF BlocklistShown
<1> QED BY <1>2, <1>4, <1>5, <1>6

\* A list of the server replaces the one of the client and the stored one.
LEMMA ListReplaced ==
    ASSUME BlockInv, subscribed, NEW J \in SUBSET BlockableJids, HandleBlocklist("Xmpp", J),
           UNCHANGED <<subscribed, blocked, results>>
    PROVE  /\ blocklist'.source = "Xmpp" /\ blocklist'.jids = J
           /\ ShownTypes' /\ StoredInv' /\ BlocklistShown'
<1>1. BlockTypes /\ StoredInv /\ BlocklistShown
  BY DEF BlockInv
<1>2. /\ blocklist' = [source |-> "Xmpp", jids |-> J]
      /\ page' = IF page.open /\ (blocklist.source = "None" \/ blocklist.jids # J)
                 THEN [page EXCEPT !.entries = Entries(J)] ELSE page
      /\ watcher' = Refreshed(watcher, J)
      /\ jobs' = StoredBlocklist(J)
  BY DEF HandleBlocklist
<1>3. /\ BlocklistShown'
      /\ blocklist' \in [source : {"None", "Db", "Xmpp"}, jids : SUBSET BlockableJids]
      /\ page' \in [open : BOOLEAN, entries : [BlockableJids -> Int]]
      /\ watcher' \in [jid : BlockableJids \cup {NoJid}, blocked : BOOLEAN]
      /\ blocklist'.source = "Xmpp" /\ blocklist'.jids = J
  BY <1>1, <1>2, ShownReplaced
<1>4. IsSequence(jobs) /\ (\A i \in DOMAIN jobs : jobs[i] \in BlockJobs)
  BY <1>1 DEF BlockTypes
<1>5. /\ IsSequence(jobs') /\ \A i \in DOMAIN jobs' : jobs'[i] \in BlockJobs
      /\ \A i \in DOMAIN jobs' : jobs'[i].op = "load" => i \in DOMAIN jobs /\ jobs[i] = jobs'[i]
      /\ StoredLeads(jobs', blocked, J)
  <2>1. CASE blocklist.source = "Db" /\ blocklist.jids = J
    <3>1. jobs' = jobs /\ jobs = <<>> /\ blocked = J
      BY <1>1, <1>2, <2>1 DEF StoredInv, StoredBlocklist
    <3>2. Len(jobs') = 0
      BY <3>1, EmptyQueue
    <3> QED BY <1>4, <3>1, <3>2, LeadsNone DEF StoredLeads
  <2>2. CASE ~(blocklist.source = "Db" /\ blocklist.jids = J)
    <3> DEFINE q == [op |-> "reset", jids |-> J]
    <3>1. jobs' = Append(jobs, q)
      BY <1>2, <2>2 DEF StoredBlocklist
    <3>2. q \in BlockJobs /\ q.op = "reset" /\ q.jids = J
      BY DEF BlockJobs
    <3> HIDE DEF q
    <3>3. JobAdded(q)
      BY <1>1, <3>1, <3>2, JobsAppend
    <3>4. StoredLeads(jobs', blocked, J)
      <4> SUFFICES ASSUME NEW j \in BlockableJids
                   PROVE  Leads(jobs', Len(jobs'), StoredChange(j), InList(j, blocked), InList(j, J))
        BY DEF StoredLeads
      <4>1. q \in DOMAIN StoredChange(j) /\ StoredChange(j)[q] = InList(j, J)
        BY <3>2, StoredChangeOf
      <4>2. Leads(Append(jobs, q), Len(Append(jobs, q)), StoredChange(j), InList(j, blocked),
                  StoredChange(j)[q])
        BY <1>4, <4>1, LeadsLast
      <4> QED BY <3>1, <4>1, <4>2
    <3> QED BY <3>3, <3>4 DEF JobAdded
  <2> QED BY <2>1, <2>2
<1>6. StoredInv'
  BY <1>1, <1>3, <1>5 DEF StoredInv, StoredLeads
<1> QED BY <1>3, <1>5, <1>6 DEF ShownTypes

\* What InList compares
LEMMA InListSame ==
    ASSUME NEW j, NEW J, NEW K
    PROVE  /\ InList(j, J) = InList(j, K) <=> (j \in J <=> j \in K)
           /\ InList(j, J) = "blocked" <=> j \in J
BY DEF InList

\* The server tells that it blocks or unblocks an address.
LEMMA ListChanged ==
    ASSUME BlockInv, blocklist.source = "Xmpp", subscribed, NEW op \in {"block", "unblock"},
           NEW j \in BlockableJids,
           op = "block" => OnJidBlocked(j),
           op = "unblock" => j \in blocklist.jids /\ OnJidUnblocked(j),
           UNCHANGED <<subscribed, blocked, results>>
    PROVE  /\ blocklist'.source = "Xmpp" /\ blocklist'.jids = Changes(op, j, blocklist.jids)
           /\ ShownTypes' /\ StoredInv' /\ BlocklistShown'
<1> DEFINE K == Changes(op, j, blocklist.jids)
           new == op = "unblock" \/ j \notin blocklist.jids
<1>1. BlockTypes /\ StoredInv /\ BlocklistShown
  BY DEF BlockInv
<1>2. /\ blocklist \in [source : {"None", "Db", "Xmpp"}, jids : SUBSET BlockableJids]
      /\ page \in [open : BOOLEAN, entries : [BlockableJids -> Int]]
      /\ watcher \in [jid : BlockableJids \cup {NoJid}, blocked : BOOLEAN]
      /\ IsSequence(jobs) /\ (\A i \in DOMAIN jobs : jobs[i] \in BlockJobs)
  BY <1>1 DEF BlockTypes
<1>3. CASE ~new
  <2>1. UNCHANGED <<blocklist, page, watcher, jobs>> /\ K = blocklist.jids
    BY <1>3 DEF OnJidBlocked, Changes, shownVars
  <2>2. StoredInv' /\ BlocklistShown'
    BY <1>1, <2>1 DEF StoredInv, BlocklistShown
  <2> QED BY <1>2, <2>1, <2>2 DEF ShownTypes
<1>4. CASE new
  <2> DEFINE q == [op |-> IF op = "block" THEN "add" ELSE "remove", jids |-> {j}]
             d == IF op = "block" THEN 1 ELSE 0 - 1
  <2>1. /\ blocklist' = [blocklist EXCEPT !.jids = K]
        /\ page' = IF page.open THEN [page EXCEPT !.entries[j] = @ + d] ELSE page
        /\ watcher' = Refreshed(watcher, K)
        /\ jobs' = Append(jobs, q)
    <3>1. CASE op = "block"
      BY <1>4, <3>1 DEF OnJidBlocked, Changes
    <3>2. CASE op = "unblock"
      <4>1. page.open => page.entries[j] - 1 = page.entries[j] + (0 - 1)
        <5>1. page.entries[j] \in Int
          BY <1>2
        <5> QED BY <5>1
      <4> QED BY <3>2, <4>1 DEF OnJidUnblocked, Changes
    <3> QED BY <3>1, <3>2
  <2>2. K \in SUBSET BlockableJids /\ \A c \in BlockableJids :
           c \in K <=> IF c = j THEN op = "block" ELSE c \in blocklist.jids
    BY <1>2 DEF Changes
  <2>3. j \in blocklist.jids <=> op = "unblock"
    BY <1>4
  <2> HIDE DEF K
  <2>4. /\ blocklist' \in [source : {"None", "Db", "Xmpp"}, jids : SUBSET BlockableJids]
        /\ blocklist'.source = "Xmpp" /\ blocklist'.jids = K
    BY <1>2, <2>1, <2>2
  <2>5. /\ page' \in [open : BOOLEAN, entries : [BlockableJids -> Int]]
        /\ page'.open => page'.entries = Entries(K)
    <3>1. CASE ~page.open
      BY <1>2, <2>1, <3>1
    <3>2. CASE page.open
      <4>1. page.entries = Entries(blocklist.jids)
        BY <1>1, <3>2 DEF BlocklistShown
      <4>2. \A c \in BlockableJids :
               Entries(K)[c] = IF c = j THEN Entries(blocklist.jids)[c] + d ELSE Entries(blocklist.jids)[c]
        BY <2>2, <2>3 DEF Entries
      <4>3. [Entries(blocklist.jids) EXCEPT ![j] = @ + d] = Entries(K)
        <5>1. DOMAIN Entries(K) = BlockableJids /\ DOMAIN Entries(blocklist.jids) = BlockableJids
              /\ Entries(K) = [c \in BlockableJids |-> Entries(K)[c]]
          BY DEF Entries
        <5> QED BY <4>2, <5>1
      <4>4. page' = [page EXCEPT !.entries = [page.entries EXCEPT ![j] = @ + d]]
        BY <2>1, <3>2
      <4>5. page' = [page EXCEPT !.entries = Entries(K)]
        BY <4>1, <4>3, <4>4
      <4>6. Entries(K) \in [BlockableJids -> Int]
        BY DEF Entries
      <4> QED BY <1>2, <4>5, <4>6
    <3> QED BY <3>1, <3>2
  <2>6. /\ watcher' \in [jid : BlockableJids \cup {NoJid}, blocked : BOOLEAN]
        /\ watcher'.blocked = (watcher'.jid \in K)
    <3>1. watcher' = [watcher EXCEPT !.blocked = watcher.jid \in K]
      BY <2>1 DEF Refreshed
    <3>2. watcher'.jid = watcher.jid /\ watcher'.blocked = (watcher.jid \in K)
      BY <1>2, <3>1
    <3>3. (watcher.jid \in K) \in BOOLEAN
      OBVIOUS
    <3>4. watcher' \in [jid : BlockableJids \cup {NoJid}, blocked : BOOLEAN]
      BY <1>2, <3>1, <3>3
    <3> QED BY <3>2, <3>4
  <2>7. BlocklistShown'
    BY <2>4, <2>5, <2>6 DEF BlocklistShown
  <2>8. q \in BlockJobs /\ q.op = (IF op = "block" THEN "add" ELSE "remove") /\ q.jids = {j}
    BY DEF BlockJobs
  <2> HIDE DEF q
  <2>9. JobAdded(q)
    BY <1>1, <2>1, <2>8, JobsAppend
  <2>10. StoredLeads(jobs', blocked, K)
    <3> SUFFICES ASSUME NEW c \in BlockableJids
                 PROVE  Leads(jobs', Len(jobs'), StoredChange(c), InList(c, blocked), InList(c, K))
      BY DEF StoredLeads
    <3>1. Leads(jobs, Len(jobs), StoredChange(c), InList(c, blocked), InList(c, blocklist.jids))
      BY <1>1 DEF StoredInv
    <3>2. /\ q \in DOMAIN StoredChange(c) <=> c = j
          /\ c = j => StoredChange(c)[q] = IF op = "block" THEN "blocked" ELSE "free"
      BY <2>8, StoredChangeOf
    <3>3. InList(c, K) = IF q \in DOMAIN StoredChange(c) THEN StoredChange(c)[q]
                         ELSE InList(c, blocklist.jids)
      BY <2>2, <3>2 DEF InList
    <3>4. Leads(Append(jobs, q), Len(jobs) + 1, StoredChange(c), InList(c, blocked), InList(c, K))
      BY <1>2, <3>1, <3>3, LeadsAppend
    <3>5. Len(Append(jobs, q)) = Len(jobs) + 1
      BY <1>2, AppendOf
    <3> QED BY <2>1, <3>4, <3>5
  <2>11. StoredInv'
    BY <1>1, <2>4, <2>9, <2>10 DEF StoredInv, StoredLeads, JobAdded
  <2> QED BY <2>4, <2>5, <2>6, <2>7, <2>9, <2>11 DEF ShownTypes, JobAdded, K
<1> QED BY <1>3, <1>4

-----------------------------------------------------------------------------
(* The client receives a stanza.                                           *)

\* What does not depend on the kind of the stanza
LEMMA ReceivedKeeps ==
    ASSUME BlockInv, stream # <<>>, stream' = Tail(stream),
           isSubscribed' = (isSubscribed \/ Head(stream).kind = "list"),
           running' = IF Head(stream).kind = "result" THEN running - 1 ELSE running,
           UNCHANGED <<blockServer, requests, subscribed, blocked, results, connected, failures>>,
           ShownTypes', StoredInv', BlocklistShown',
           isSubscribed' => blocklist'.source = "Xmpp",
           Follows(stream', blockServer.tells, blocklist'.jids, blockServer.jids)
    PROVE  BlockInv'
<1> DEFINE z == Head(stream)
<1>1. BlockTypes /\ FetchInv /\ RunningInv
  BY DEF BlockInv
<1>2. StanzasOnly(stream) /\ IsSequence(stream) /\ isSubscribed \in BOOLEAN /\ Ordered(stream, isSubscribed)
      /\ (blockServer.tells <=> isSubscribed \/ HasList(stream))
  BY BlockFacts
<1>3. StanzasOnly(stream') /\ z \in BlockStanzas
  BY <1>2, StanzasTail
<1>4. /\ Ordered(stream', isSubscribed')
      /\ HasList(stream) <=> HasList(stream') \/ z.kind = "list"
  BY <1>2, OrderedTail
<1>5. \A i \in DOMAIN stream' : i + 1 \in DOMAIN stream /\ stream'[i] = stream[i + 1]
  BY <1>2, TailOf
<1>6. z.kind = "list" => subscribed
  <2>1. 1 \in DOMAIN stream /\ z = stream[1]
    BY <1>2, TailOf
  <2> QED BY <1>1, <2>1 DEF FetchInv
<1>7. z.kind = "result" <=> z \in Answers
  BY <1>3 DEF Answers
<1>8. RunningInv'
  <2>1. /\ CountOf(stream, Answers) \in Nat /\ CountOf(stream', Answers) \in Nat
        /\ z \in Answers => CountOf(stream, Answers) = CountOf(stream', Answers) + 1
        /\ z \notin Answers => CountOf(stream, Answers) = CountOf(stream', Answers)
    BY <1>2, CountLess
  <2>2. CountOf(requests, Actions) \in Nat /\ running = CountOf(requests, Actions) + CountOf(stream, Answers)
    BY NetworkFacts
  <2> HIDE DEF z
  <2>3. running' = CountOf(requests, Actions) + CountOf(stream', Answers)
    <3>1. CASE z.kind = "result"
      BY <1>7, <2>1, <2>2, <3>1 DEF z
    <3>2. CASE z.kind # "result"
      BY <1>7, <2>1, <2>2, <3>2 DEF z
    <3> QED BY <3>1, <3>2
  <2> QED BY <2>3 DEF RunningInv
<1> HIDE DEF z
<1>9. isSubscribed' \in BOOLEAN /\ (isSubscribed' <=> isSubscribed \/ z.kind = "list")
  BY <1>2 DEF z
<1>10. BlockTypes'
  BY <1>1, <1>3, <1>9 DEF BlockTypes, ShownTypes, StanzasOnly
<1>11. FetchInv'
  <2>1. (\E i \in DOMAIN stream' : stream'[i].kind \in {"list", "refused"}) \/ isSubscribed' => subscribed
    <3>1. isSubscribed => subscribed
      BY <1>1 DEF FetchInv
    <3>2. (\E i \in DOMAIN stream' : stream'[i].kind \in {"list", "refused"}) => subscribed
      BY <1>1, <1>5 DEF FetchInv
    <3> QED BY <1>6, <1>9, <3>1, <3>2
  <2>2. (\E i \in DOMAIN stream' : stream'[i].kind = "refused") => failures > 0
    BY <1>1, <1>5 DEF FetchInv
  <2>3. blockServer.tells <=> isSubscribed' \/ HasList(stream')
    BY <1>2, <1>4, <1>9
  <2>4. subscribed /\ connected => isSubscribed' \/ failures > 0 \/ Fetches(requests) \/ HasList(stream')
    BY <1>1, <1>4, <1>9 DEF FetchInv
  <2>5. /\ \A i, k \in DOMAIN requests : requests[i].op = "fetch" /\ requests[k].op = "fetch" => i = k
        /\ Fetches(requests) => subscribed /\ ~blockServer.tells
    BY <1>1 DEF FetchInv
  <2> QED BY <1>4, <2>1, <2>2, <2>3, <2>4, <2>5 DEF FetchInv
<1>12. FollowInv'
  BY DEF FollowInv
<1> QED BY <1>8, <1>10, <1>11, <1>12 DEF BlockInv

LEMMA ReceiveBlockStanzaKeeps ==
    ASSUME BlockInv, ReceiveBlockStanza
    PROVE  BlockInv'
<1> DEFINE z == Head(stream)
           L == blocklist.jids
<1>1. /\ stream # <<>> /\ stream' = Tail(stream)
      /\ isSubscribed' = (isSubscribed \/ z.kind = "list")
      /\ running' = IF z.kind = "result" THEN running - 1 ELSE running
      /\ UNCHANGED <<blockServer, requests, subscribed, blocked, results, connected, failures>>
  BY DEF ReceiveBlockStanza
<1>2. BlockTypes /\ FetchInv /\ FollowInv /\ StoredInv /\ BlocklistShown
  BY DEF BlockInv
<1>3. StanzasOnly(stream) /\ IsSequence(stream) /\ isSubscribed \in BOOLEAN /\ Ordered(stream, isSubscribed)
      /\ (blockServer.tells <=> isSubscribed \/ HasList(stream))
      /\ Follows(stream, blockServer.tells, L, blockServer.jids)
  BY BlockFacts
<1>4. 1 \in DOMAIN stream /\ z = stream[1] /\ z \in BlockStanzas
  BY <1>1, <1>3, TailOf, StanzasTail
<1>5. /\ z.kind \in {"block", "unblock"} => isSubscribed
      /\ isSubscribed => z.kind \notin {"list", "refused"}
  BY <1>1, <1>3, OrderedTail
<1>6. /\ z.kind \in {"list", "refused"} => subscribed
      /\ isSubscribed => subscribed /\ blocklist.source = "Xmpp"
  BY <1>2, <1>4 DEF FetchInv
<1>7. z.kind \in {"list", "refused", "result", "block", "unblock"}
  BY <1>4, StanzaKinds
<1> DEFINE Rest(M) == Follows(stream', blockServer.tells, M, blockServer.jids)
<1>8. CASE z.kind \in {"list", "refused"}
  <2> DEFINE J == IF z.kind = "list" THEN z.jids ELSE {}
  <2>1. J \in SUBSET BlockableJids
    BY <1>4, StanzaKinds
  <2>2. HandleBlocklist("Xmpp", J)
    BY <1>8 DEF ReceiveBlockStanza, HandleXmppBlocklistResult
  <2> HIDE DEF J
  <2>3. /\ blocklist'.source = "Xmpp" /\ blocklist'.jids = J
        /\ ShownTypes' /\ StoredInv' /\ BlocklistShown'
    BY <1>1, <1>6, <1>8, <2>1, <2>2, ListReplaced
  <2>4. Rest(J)
    <3>1. Follows(stream, blockServer.tells, J, blockServer.jids)
      <4>1. ~isSubscribed
        BY <1>3, <1>5, <1>8
      <4>2. Ordered(stream, FALSE) /\ (blockServer.tells => HasList(stream))
        <5>1. isSubscribed = FALSE
          BY <1>3, <4>1
        <5> QED BY <1>3, <5>1
      <4> QED BY <1>3, <4>2, FollowsFromAny
    <3>2. \A j \in BlockableJids :
             InList(j, J) = IF z \in DOMAIN ListChange(j) THEN ListChange(j)[z] ELSE InList(j, J)
      <4>1. CASE z.kind = "list"
        BY <1>4, <4>1, ListChangeOf DEF J
      <4>2. CASE z.kind = "refused"
        BY <1>4, <4>2, ListChangeOf
      <4> QED BY <1>8, <4>1, <4>2
    <3> QED BY <1>1, <1>3, <3>1, <3>2, FollowsTail
  <2> QED BY <1>1, <2>3, <2>4, ReceivedKeeps
<1>9. CASE z.kind \in {"block", "unblock"}
  <2> DEFINE j == z.jid
             K == Changes(z.kind, j, L)
  <2>1. j \in BlockableJids /\ z = [kind |-> z.kind, jid |-> j]
    BY <1>4, <1>9, StanzaKinds
  <2>2. /\ z.kind = "block" => OnJidBlocked(j)
        /\ z.kind = "unblock" => OnJidUnblocked(j)
    <3>1. CASE z.kind = "block"
      BY <3>1 DEF ReceiveBlockStanza
    <3>2. CASE z.kind = "unblock"
      BY <3>2 DEF ReceiveBlockStanza
    <3> QED BY <1>9, <3>1, <3>2
  <2>3. z.kind = "unblock" => j \in L
    <3> SUFFICES ASSUME z.kind = "unblock"
                 PROVE  j \in L
      OBVIOUS
    <3>1. stream[1] = [kind |-> "unblock", jid |-> j]
      BY <1>4, <2>1
    <3>2. Leads(stream, 1 - 1, ListChange(j), InList(j, L), "blocked")
      BY <1>3, <1>4, <2>1, <3>1 DEF Follows
    <3>3. InList(j, L) = "blocked"
      BY <3>2, LeadsNone
    <3> QED BY <3>3, InListSame
  <2>4. blocklist.source = "Xmpp" /\ subscribed
    BY <1>5, <1>6, <1>9
  <2>5. /\ blocklist'.source = "Xmpp" /\ blocklist'.jids = K
        /\ ShownTypes' /\ StoredInv' /\ BlocklistShown'
    BY <1>1, <1>9, <2>1, <2>2, <2>3, <2>4, ListChanged
  <2>6. Rest(K)
    <3>1. \A c \in BlockableJids :
             InList(c, K) = IF z \in DOMAIN ListChange(c) THEN ListChange(c)[z] ELSE InList(c, L)
      <4> SUFFICES ASSUME NEW c \in BlockableJids
                   PROVE  InList(c, K) = IF z \in DOMAIN ListChange(c) THEN ListChange(c)[z]
                                         ELSE InList(c, L)
        OBVIOUS
      <4>1. /\ z \in DOMAIN ListChange(c) <=> j = c
            /\ j = c => ListChange(c)[z] = IF z.kind = "block" THEN "blocked" ELSE "free"
        BY <1>4, <1>9, ListChangeOf
      <4>2. c \in K <=> IF c = j THEN z.kind = "block" ELSE c \in L
        BY <1>9 DEF Changes
      <4> QED BY <4>1, <4>2 DEF InList
    <3> HIDE DEF K
    <3> QED BY <1>1, <1>3, <3>1, FollowsTail
  <2> QED BY <1>1, <2>5, <2>6, ReceivedKeeps
<1>10. CASE z.kind = "result"
  <2>1. UNCHANGED <<blocklist, page, watcher, jobs>>
    BY <1>10 DEF ReceiveBlockStanza, shownVars
  <2>2. Rest(L)
    <3>1. \A c \in BlockableJids :
             InList(c, L) = IF z \in DOMAIN ListChange(c) THEN ListChange(c)[z] ELSE InList(c, L)
      BY <1>4, <1>10, ListChangeOf
    <3> QED BY <1>1, <1>3, <3>1, FollowsTail
  <2>3. ShownTypes' /\ StoredInv' /\ BlocklistShown'
    BY <1>1, <1>2, <2>1 DEF ShownTypes, BlockTypes, StoredInv, BlocklistShown
  <2>4. isSubscribed' => blocklist'.source = "Xmpp"
    BY <1>1, <1>6, <1>10, <2>1
  <2> QED BY <1>1, <2>1, <2>2, <2>3, <2>4, ReceivedKeeps
<1> QED BY <1>7, <1>8, <1>9, <1>10

-----------------------------------------------------------------------------
(* Connection, database and start.                                         *)

LEMMA NoElement ==
    ASSUME NEW s, IsSequence(s), DOMAIN s = {}
    PROVE  s = <<>>
BY TailOf

LEMMA FetchesOne ==
    /\ RequestsOnly(<<>>) /\ ~Fetches(<<>>) /\ CountOf(<<>>, Actions) = 0
    /\ RequestsOnly(<<FetchBlocklist>>) /\ Fetches(<<FetchBlocklist>>)
    /\ CountOf(<<FetchBlocklist>>, Actions) = 0
<1>1. RequestsOnly(<<>>) /\ ~Fetches(<<>>) /\ CountOf(<<>>, Actions) = 0
  BY EmptyQueue, CountNone DEF RequestsOnly, Fetches
<1>2. /\ IsSequence(<<FetchBlocklist>>) /\ DOMAIN <<FetchBlocklist>> = {1}
      /\ <<FetchBlocklist>>[1] = FetchBlocklist
  BY OneElement
<1>3. RequestsOnly(<<FetchBlocklist>>) /\ Fetches(<<FetchBlocklist>>)
  BY <1>2, RequestKinds DEF RequestsOnly, Fetches
<1>4. CountOf(<<FetchBlocklist>>, Actions) = 0
  <2>1. FetchBlocklist \notin Actions
    BY RequestKinds DEF Actions
  <2>2. {i \in DOMAIN <<FetchBlocklist>> : <<FetchBlocklist>>[i] \in Actions} = {}
    BY <1>2, <2>1
  <2> QED BY <2>2, FS_EmptySet DEF CountOf
<1> QED BY <1>1, <1>3, <1>4

LEMMA FetchingWhat ==
    ASSUME RequestsOnly(requests)
    PROVE  Fetching <=> Fetches(requests) \/ HasList(stream)
<1>1. \A r \in BlockRequests : r.op = "fetch" => r = FetchBlocklist
  <2> SUFFICES ASSUME NEW r \in BlockRequests, r.op = "fetch"
               PROVE  r = FetchBlocklist
    OBVIOUS
  <2>1. r \in [op : {"fetch"}, jid : {NoJid}]
    <3>1. r \notin [op : {"block", "unblock"}, jid : BlockableJids]
      OBVIOUS
    <3> QED BY <3>1 DEF BlockRequests
  <2> QED BY <2>1 DEF FetchBlocklist
<1>2. FetchBlocklist \in ToSet(requests) <=> Fetches(requests)
  <2>1. \A i \in DOMAIN requests : requests[i].op = "fetch" <=> requests[i] = FetchBlocklist
    BY <1>1, RequestKinds DEF RequestsOnly
  <2> QED BY <2>1 DEF ToSet, Fetches
<1> QED BY <1>2 DEF Fetching, HasList

LEMMA ConnectBlockingKeeps ==
    ASSUME BlockInv, NEW resumed \in BOOLEAN, ConnectBlocking(resumed)
    PROVE  BlockInv'
<1>1. /\ UNCHANGED <<blocklist, page, watcher, subscribed, blocked, jobs, results, failures>>
      /\ IF resumed
         THEN /\ requests' = IF subscribed /\ ~isSubscribed /\ ~Fetching
                             THEN Append(requests, FetchBlocklist) ELSE requests
              /\ UNCHANGED <<blockServer, stream, isSubscribed, running>>
         ELSE /\ blockServer' = [blockServer EXCEPT !.tells = FALSE, !.resumes = TRUE]
              /\ stream' = <<>> /\ isSubscribed' = FALSE /\ running' = 0
              /\ requests' = IF subscribed THEN <<FetchBlocklist>> ELSE <<>>
  BY DEF ConnectBlocking, shownVars
<1>2. BlockTypes /\ FetchInv /\ RunningInv /\ FollowInv /\ StoredInv /\ BlocklistShown
  BY DEF BlockInv
<1>3. StoredInv' /\ BlocklistShown'
  BY <1>1, <1>2 DEF StoredInv, BlocklistShown
<1>4. subscribed \in BOOLEAN /\ isSubscribed \in BOOLEAN /\ RequestsOnly(requests)
  BY BlockFacts
<1>5. CASE resumed
  <2>1. /\ requests' = IF subscribed /\ ~isSubscribed /\ ~Fetching
                       THEN Append(requests, FetchBlocklist) ELSE requests
        /\ UNCHANGED <<blockServer, stream, isSubscribed, running>>
    BY <1>1, <1>5
  <2>2. Fetching <=> Fetches(requests) \/ HasList(stream)
    BY <1>4, FetchingWhat
  <2>3. /\ RequestsOnly(requests') /\ CountOf(requests', Actions) = CountOf(requests, Actions)
        /\ Fetches(requests') <=> Fetches(requests) \/ (subscribed /\ ~isSubscribed /\ ~Fetching)
    <3>1. CASE subscribed /\ ~isSubscribed /\ ~Fetching
      <4>1. requests' = Append(requests, FetchBlocklist) /\ ~Fetches(requests)
        BY <2>1, <2>2, <3>1
      <4>2. FetchBlocklist \notin Actions
        BY RequestKinds DEF Actions
      <4>3. CountOf(Append(requests, FetchBlocklist), Actions) = CountOf(requests, Actions)
        BY <1>4, <4>2, CountMore DEF RequestsOnly
      <4>4. /\ RequestsOnly(Append(requests, FetchBlocklist))
            /\ Fetches(Append(requests, FetchBlocklist))
        BY <1>4, <4>1, RequestsAppend, RequestKinds
      <4> QED BY <3>1, <4>1, <4>3, <4>4
    <3>2. CASE ~(subscribed /\ ~isSubscribed /\ ~Fetching)
      BY <1>4, <2>1, <3>2
    <3> QED BY <3>1, <3>2
  <2>4. BlockTypes'
    BY <1>1, <1>2, <2>1, <2>3 DEF BlockTypes, RequestsOnly
  <2>5. FetchInv'
    <3>1. \A i, k \in DOMAIN requests' : requests'[i].op = "fetch" /\ requests'[k].op = "fetch" => i = k
      BY <2>3 DEF RequestsOnly
    <3>2. Fetches(requests') => subscribed /\ ~blockServer.tells
      BY <1>2, <2>2, <2>3 DEF FetchInv
    <3>3. subscribed => isSubscribed \/ failures > 0 \/ Fetches(requests') \/ HasList(stream)
      BY <2>2, <2>3
    <3> QED BY <1>1, <1>2, <2>1, <3>1, <3>2, <3>3 DEF FetchInv
  <2>6. RunningInv' /\ FollowInv'
    BY <1>1, <1>2, <2>1, <2>3 DEF RunningInv, FollowInv
  <2> QED BY <1>3, <2>4, <2>5, <2>6 DEF BlockInv
<1>6. CASE ~resumed
  <2>1. /\ blockServer' = [blockServer EXCEPT !.tells = FALSE, !.resumes = TRUE]
        /\ stream' = <<>> /\ isSubscribed' = FALSE /\ running' = 0
        /\ requests' = IF subscribed THEN <<FetchBlocklist>> ELSE <<>>
    BY <1>1, <1>6
  <2>2. /\ blockServer'.tells = FALSE
        /\ blockServer' \in [jids : SUBSET BlockableJids, tells : BOOLEAN, resumes : BOOLEAN]
    BY <1>2, <2>1 DEF BlockTypes
  <2>3. RequestsOnly(requests') /\ CountOf(requests', Actions) = 0 /\ (Fetches(requests') <=> subscribed)
    BY <1>4, <2>1, FetchesOne
  <2>4. IsSequence(stream') /\ DOMAIN stream' = {} /\ CountOf(stream', Answers) = 0
    BY <2>1, EmptyQueue, CountNone
  <2>5. BlockTypes'
    BY <1>1, <1>2, <2>1, <2>2, <2>3, <2>4 DEF BlockTypes, RequestsOnly
  <2>6. FetchInv'
    <3>1. \A i, k \in DOMAIN requests' : requests'[i].op = "fetch" /\ requests'[k].op = "fetch" => i = k
      BY <2>3 DEF RequestsOnly
    <3>2. ~HasList(stream') /\ Ordered(stream', isSubscribed')
      BY <2>1, <2>4, OrderedNothing DEF HasList
    <3> QED BY <1>1, <2>1, <2>2, <2>3, <2>4, <3>1, <3>2 DEF FetchInv
  <2>7. RunningInv'
    BY <2>1, <2>3, <2>4 DEF RunningInv
  <2>8. FollowInv'
    BY <2>1, <2>2, FollowsNothing DEF FollowInv
  <2> QED BY <1>3, <2>5, <2>6, <2>7, <2>8 DEF BlockInv
<1> QED BY <1>5, <1>6

LEMMA RunBlockJobKeeps ==
    ASSUME BlockInv, RunBlockJob
    PROVE  BlockInv'
<1> DEFINE q == Head(jobs)
<1>1. /\ jobs # <<>> /\ jobs' = Tail(jobs) /\ blocked' = BlockedAfter(q)
      /\ results' = IF q.op = "load" THEN Append(results, blocked) ELSE results
      /\ UNCHANGED <<blockServer, requests, stream, isSubscribed, blocklist, page, watcher, subscribed,
                     running, connected, failures>>
  BY DEF RunBlockJob, netVars, shownVars
<1>2. BlockTypes /\ FetchInv /\ RunningInv /\ FollowInv /\ StoredInv /\ BlocklistShown
  BY DEF BlockInv
<1>3. /\ IsSequence(jobs) /\ (\A i \in DOMAIN jobs : jobs[i] \in BlockJobs) /\ IsSequence(results)
      /\ (\A i \in DOMAIN results : results[i] \in SUBSET BlockableJids)
      /\ blocked \in SUBSET BlockableJids
  BY <1>2 DEF BlockTypes
<1>4. /\ IsSequence(jobs') /\ Len(jobs) \in Nat \ {0} /\ Len(jobs') = Len(jobs) - 1
      /\ DOMAIN jobs' = 1..(Len(jobs) - 1) /\ DOMAIN jobs = 1..Len(jobs)
      /\ (\A i \in DOMAIN jobs' : i + 1 \in DOMAIN jobs /\ jobs'[i] = jobs[i + 1])
      /\ 1 \in DOMAIN jobs /\ q = jobs[1]
  BY <1>1, <1>3, TailOf
<1>5. q \in BlockJobs /\ q.op \in {"load", "reset", "add", "remove"} /\ q.jids \in SUBSET BlockableJids
  <2>1. q \in BlockJobs
    BY <1>3, <1>4
  <2> QED BY <2>1 DEF BlockJobs
<1>6. /\ q.op = "load" => blocked' = blocked
      /\ q.op = "reset" => blocked' = q.jids
      /\ q.op = "add" => blocked' = blocked \cup q.jids
      /\ q.op = "remove" => blocked' = blocked \ q.jids
  BY <1>1, <1>5 DEF BlockedAfter
<1> HIDE DEF q
<1>7. blocked' \in SUBSET BlockableJids
  BY <1>3, <1>5, <1>6
<1>8. /\ IsSequence(results') /\ \A i \in DOMAIN results' : results'[i] \in SUBSET BlockableJids
      /\ \A i \in DOMAIN results' : (i \in DOMAIN results /\ results'[i] = results[i]) \/ results'[i] = blocked
  <2>1. CASE q.op = "load"
    <3>1. /\ IsSequence(Append(results, blocked))
          /\ \A i \in DOMAIN Append(results, blocked) :
                (i \in DOMAIN results /\ Append(results, blocked)[i] = results[i])
                \/ Append(results, blocked)[i] = blocked
      BY <1>3, AppendOf
    <3>2. results' = Append(results, blocked)
      BY <1>1, <2>1
    <3> QED BY <1>3, <3>1, <3>2
  <2>2. CASE q.op # "load"
    BY <1>1, <1>3, <2>2
  <2> QED BY <2>1, <2>2
<1>9. BlockTypes'
  BY <1>1, <1>2, <1>3, <1>4, <1>7, <1>8 DEF BlockTypes
<1>10. FetchInv' /\ RunningInv' /\ FollowInv' /\ BlocklistShown'
  BY <1>1, <1>2 DEF FetchInv, RunningInv, FollowInv, BlocklistShown
<1>11. StoredInv'
  <2>1. blocklist.source = "None" =>
           /\ blocklist.jids = {}
           /\ \A i \in DOMAIN jobs' : jobs'[i].op = "load"
           /\ \A i \in DOMAIN results' : results'[i] = blocked'
    <3> SUFFICES ASSUME blocklist.source = "None"
                 PROVE  /\ blocklist.jids = {}
                        /\ \A i \in DOMAIN jobs' : jobs'[i].op = "load"
                        /\ \A i \in DOMAIN results' : results'[i] = blocked'
      OBVIOUS
    <3>1. q.op = "load" /\ blocklist.jids = {} /\ (\A i \in DOMAIN results : results[i] = blocked)
          /\ \A i \in DOMAIN jobs : jobs[i].op = "load"
      BY <1>2, <1>4 DEF StoredInv
    <3> QED BY <1>4, <1>6, <1>8, <3>1
  <2>2. blocklist.source # "Db"
    BY <1>1, <1>2 DEF StoredInv
  <2>3. blocklist.source = "Xmpp" =>
           \A j \in BlockableJids :
              Leads(jobs', Len(jobs'), StoredChange(j), InList(j, blocked'), InList(j, blocklist.jids))
    <3> SUFFICES ASSUME blocklist.source = "Xmpp", NEW j \in BlockableJids
                 PROVE  Leads(jobs', Len(jobs'), StoredChange(j), InList(j, blocked'),
                              InList(j, blocklist.jids))
      OBVIOUS
    <3>1. Leads(jobs, Len(jobs), StoredChange(j), InList(j, blocked), InList(j, blocklist.jids))
      BY <1>2 DEF StoredInv
    <3>2. Leads(Tail(jobs), Len(jobs) - 1, StoredChange(j),
                IF Head(jobs) \in DOMAIN StoredChange(j) THEN StoredChange(j)[Head(jobs)]
                ELSE InList(j, blocked), InList(j, blocklist.jids))
      <4>1. Len(jobs) \in 1..Len(jobs)
        BY <1>4
      <4> QED BY <1>1, <1>3, <3>1, <4>1, LeadsTail
    <3>3. InList(j, blocked') = IF q \in DOMAIN StoredChange(j) THEN StoredChange(j)[q]
                                ELSE InList(j, blocked)
      BY <1>5, <1>6, StoredChangeOf DEF InList
    <3> QED BY <1>1, <1>4, <3>2, <3>3 DEF q
  <2>4. subscribed
    BY <1>1, <1>2 DEF StoredInv
  <2>5. \A i, k \in DOMAIN jobs' : jobs'[i].op = "load" /\ jobs'[k].op = "load" => i = k
    <3> SUFFICES ASSUME NEW i \in DOMAIN jobs', NEW k \in DOMAIN jobs', jobs'[i].op = "load",
                        jobs'[k].op = "load"
                 PROVE  i = k
      OBVIOUS
    <3>1. i + 1 = k + 1
      BY <1>2, <1>4 DEF StoredInv
    <3> QED BY <1>4, <3>1
  <2>6. results' # <<>> => Len(results') = 1 /\ \A i \in DOMAIN jobs' : jobs'[i].op # "load"
    <3>1. CASE q.op = "load"
      <4>1. results = <<>>
        BY <1>2, <1>4, <3>1 DEF StoredInv
      <4>2. Len(Append(results, blocked)) = Len(results) + 1 /\ results' = Append(results, blocked)
        BY <1>1, <1>3, <3>1, AppendOf
      <4>3. Len(results) = 0
        BY <4>1, EmptyQueue
      <4>4. ASSUME NEW i \in DOMAIN jobs', jobs'[i].op = "load"
            PROVE  FALSE
        <5>1. i + 1 = 1
          BY <1>2, <1>4, <3>1, <4>4 DEF StoredInv
        <5> QED BY <1>4, <5>1
      <4> QED BY <4>2, <4>3, <4>4
    <3>2. CASE q.op # "load"
      BY <1>1, <1>2, <1>4, <3>2 DEF StoredInv
    <3> QED BY <3>1, <3>2
  <2> QED BY <1>1, <2>1, <2>2, <2>3, <2>4, <2>5, <2>6 DEF StoredInv
<1> QED BY <1>9, <1>10, <1>11 DEF BlockInv

LEMMA BlocklistLoadedKeeps ==
    ASSUME BlockInv, BlocklistLoaded
    PROVE  BlockInv'
<1> DEFINE J == Head(results)
<1>1. /\ results # <<>> /\ results' = Tail(results) /\ HandleBlocklist("Db", J)
      /\ UNCHANGED <<blockServer, requests, stream, isSubscribed, subscribed, running, blocked,
                     connected, failures>>
  BY DEF BlocklistLoaded, netVars
<1>2. BlockTypes /\ FetchInv /\ RunningInv /\ FollowInv /\ StoredInv /\ BlocklistShown
  BY DEF BlockInv
<1>3. /\ Len(results) = 1 /\ (\A i \in DOMAIN jobs : jobs[i].op # "load") /\ subscribed
      /\ blocklist.source # "Db"
  BY <1>1, <1>2 DEF StoredInv
<1>4. IsSequence(results') /\ results' = <<>> /\ J = results[1] /\ 1 \in DOMAIN results
  <2>1. IsSequence(results)
    BY <1>2 DEF BlockTypes
  <2>2. /\ IsSequence(results') /\ DOMAIN results' = 1..(Len(results) - 1) /\ J = results[1]
        /\ 1 \in DOMAIN results
    BY <1>1, <2>1, TailOf
  <2>3. DOMAIN results' = {}
    BY <1>3, <2>2
  <2> QED BY <2>2, <2>3, NoElement
<1>5. RunningInv'
  BY <1>1, <1>2 DEF RunningInv
<1>6. CASE blocklist.source = "Xmpp"
  <2>1. UNCHANGED <<blocklist, page, watcher, jobs>>
    BY <1>1, <1>6 DEF HandleBlocklist, shownVars
  <2>2. BlockTypes'
    BY <1>1, <1>2, <1>4, <2>1, EmptyQueue DEF BlockTypes
  <2>3. FetchInv' /\ FollowInv' /\ BlocklistShown'
    BY <1>1, <1>2, <2>1 DEF FetchInv, FollowInv, BlocklistShown
  <2>4. StoredInv'
    BY <1>1, <1>2, <1>3, <1>4, <1>6, <2>1 DEF StoredInv
  <2> QED BY <1>5, <2>2, <2>3, <2>4 DEF BlockInv
<1>7. CASE blocklist.source = "None"
  <2>1. J = blocked /\ blocked \in SUBSET BlockableJids
    BY <1>2, <1>4, <1>7 DEF StoredInv, BlockTypes
  <2>2. jobs = <<>>
    <3>1. DOMAIN jobs = {} /\ IsSequence(jobs)
      BY <1>2, <1>3, <1>7 DEF StoredInv, BlockTypes
    <3> QED BY <3>1, NoElement
  <2>3. /\ blocklist' = [source |-> "Db", jids |-> J]
        /\ page' = IF page.open /\ (blocklist.source = "None" \/ blocklist.jids # J)
                   THEN [page EXCEPT !.entries = Entries(J)] ELSE page
        /\ watcher' = Refreshed(watcher, J)
        /\ jobs' = jobs
    BY <1>1, <1>7 DEF HandleBlocklist
  <2> HIDE DEF J
  <2>4. /\ BlocklistShown'
        /\ blocklist' \in [source : {"None", "Db", "Xmpp"}, jids : SUBSET BlockableJids]
        /\ page' \in [open : BOOLEAN, entries : [BlockableJids -> Int]]
        /\ watcher' \in [jid : BlockableJids \cup {NoJid}, blocked : BOOLEAN]
        /\ blocklist'.source = "Db" /\ blocklist'.jids = J
    BY <1>2, <2>1, <2>3, ShownReplaced
  <2>5. BlockTypes'
    BY <1>1, <1>2, <1>4, <2>3, <2>4, EmptyQueue DEF BlockTypes
  <2>6. ~isSubscribed /\ isSubscribed \in BOOLEAN
    BY <1>2, <1>7 DEF FetchInv, BlockTypes
  <2>7. FetchInv'
    BY <1>1, <1>2, <2>4, <2>6 DEF FetchInv
  <2>8. FollowInv'
    <3>1. /\ StanzasOnly(stream) /\ Ordered(stream, isSubscribed)
          /\ (blockServer.tells <=> isSubscribed \/ HasList(stream))
          /\ Follows(stream, blockServer.tells, blocklist.jids, blockServer.jids)
      BY BlockFacts
    <3>2. isSubscribed = FALSE
      BY <2>6
    <3>3. Follows(stream, blockServer.tells, J, blockServer.jids)
      BY <3>1, <3>2, FollowsFromAny
    <3> QED BY <1>1, <2>4, <3>3 DEF FollowInv
  <2>9. StoredInv'
    BY <1>1, <1>2, <1>3, <1>4, <2>1, <2>2, <2>3, <2>4, EmptyQueue DEF StoredInv
  <2> QED BY <1>5, <2>4, <2>5, <2>7, <2>8, <2>9 DEF BlockInv
<1>8. blocklist.source \in {"None", "Db", "Xmpp"}
  BY <1>2 DEF BlockTypes
<1> QED BY <1>3, <1>6, <1>7, <1>8

LEMMA RestartBlockingKeeps ==
    ASSUME BlockInv, RestartBlocking
    PROVE  BlockInv'
<1>1. /\ blocked' \in {blocked} \cup IF jobs # <<>> /\ Head(jobs).op = "reset"
                                     THEN SUBSET Head(jobs).jids ELSE {}
      /\ blockServer' = [blockServer EXCEPT !.tells = FALSE, !.resumes = FALSE]
      /\ requests' = <<>> /\ stream' = <<>> /\ isSubscribed' = FALSE
      /\ blocklist' = NoBlocklist /\ subscribed' = FALSE /\ running' = 0
      /\ page' = NoPage /\ watcher' = [jid |-> NoJid, blocked |-> FALSE]
      /\ jobs' = <<>> /\ results' = <<>> /\ connected' = FALSE
      /\ failures' = failures
  BY DEF RestartBlocking
<1>2. BlockTypes
  BY DEF BlockInv
<1>3. blocked' \in SUBSET BlockableJids
  <2>1. blocked \in SUBSET BlockableJids
    BY <1>2 DEF BlockTypes
  <2>2. jobs # <<>> => Head(jobs).jids \in SUBSET BlockableJids
    <3>1. IsSequence(jobs) /\ \A i \in DOMAIN jobs : jobs[i] \in BlockJobs
      BY <1>2 DEF BlockTypes
    <3>2. jobs # <<>> => Head(jobs) \in BlockJobs
      BY <3>1, TailOf
    <3> QED BY <3>2 DEF BlockJobs
  <2> QED BY <1>1, <2>1, <2>2
<1>4. /\ blockServer' \in [jids : SUBSET BlockableJids, tells : BOOLEAN, resumes : BOOLEAN]
      /\ blockServer'.tells = FALSE /\ failures' \in Nat
  BY <1>1, <1>2 DEF BlockTypes
<1>5. page' \in [open : BOOLEAN, entries : [BlockableJids -> Int]]
  BY <1>1 DEF NoPage
<1>6. BlockTypes'
  BY <1>1, <1>3, <1>4, <1>5, EmptyQueue DEF BlockTypes, NoBlocklist
<1>7. FetchInv'
  BY <1>1, <1>4, EmptyQueue, OrderedNothing DEF FetchInv, Fetches, HasList
<1>8. RunningInv'
  BY <1>1, CountNone DEF RunningInv
<1>9. FollowInv'
  BY <1>1, <1>4, FollowsNothing DEF FollowInv
<1>10. StoredInv'
  BY <1>1, EmptyQueue DEF StoredInv, NoBlocklist
<1>11. BlocklistShown'
  BY <1>1 DEF BlocklistShown, NoBlocklist
<1> QED BY <1>6, <1>7, <1>8, <1>9, <1>10, <1>11 DEF BlockInv

LEMMA BlockInvNext ==
    ASSUME BlockInv, BlockNext
    PROVE  BlockInv'
<1>1. CASE OpenPage
  BY <1>1, OpenPageKeeps
<1>2. CASE ClosePage
  BY <1>2, ClosePageKeeps
<1>3. CASE \E j \in BlockableJids : Watch(j)
  BY <1>3, WatchKeeps
<1>4. CASE \E op \in {"block", "unblock"}, j \in BlockableJids :
              RequestBlocking(op, j) \/ ChangedByOtherClient(op, j)
  BY <1>4, RequestBlockingKeeps, ChangedByOtherClientKeeps
<1>5. CASE ServeBlocking
  BY <1>5, ServeBlockingKeeps
<1>6. CASE ReceiveBlockStanza
  BY <1>6, ReceiveBlockStanzaKeeps
<1>7. CASE DisconnectBlocking
  BY <1>7, DisconnectBlockingKeeps
<1>8. CASE \E resumed \in BOOLEAN : ConnectBlocking(resumed)
  BY <1>8, ConnectBlockingKeeps
<1>9. CASE RunBlockJob
  BY <1>9, RunBlockJobKeeps
<1>10. CASE BlocklistLoaded
  BY <1>10, BlocklistLoadedKeeps
<1>11. CASE RestartBlocking
  BY <1>11, RestartBlockingKeeps
<1> QED BY <1>1, <1>2, <1>3, <1>4, <1>5, <1>6, <1>7, <1>8, <1>9, <1>10, <1>11 DEF BlockNext

\* What the invariant says once nothing is under way
LEMMA BlockInvSays ==
    BlockInv => BlocklistShown /\ BlocklistStored /\ BlocklistFetched
<1> SUFFICES ASSUME BlockInv
             PROVE  BlocklistShown /\ BlocklistStored /\ BlocklistFetched
  OBVIOUS
<1>1. BlockTypes /\ FetchInv /\ RunningInv /\ FollowInv /\ StoredInv /\ BlocklistShown
  BY DEF BlockInv
<1>2. blocklist.source \in {"None", "Db", "Xmpp"} /\ blocklist.jids \in SUBSET BlockableJids
      /\ blocked \in SUBSET BlockableJids /\ blockServer.jids \in SUBSET BlockableJids
      /\ blocklist \in [source : {"None", "Db", "Xmpp"}, jids : SUBSET BlockableJids]
  BY <1>1 DEF BlockTypes
<1>3. BlocklistStored
  <2> SUFFICES ASSUME Settled, blocklist.source # "None"
               PROVE  blocked = blocklist.jids
    BY DEF BlocklistStored
  <2>1. CASE blocklist.source = "Db"
    BY <1>1, <2>1 DEF StoredInv
  <2>2. CASE blocklist.source = "Xmpp"
    <3>1. Len(jobs) = 0
      BY EmptyQueue DEF Settled
    <3>2. \A j \in BlockableJids : InList(j, blocked) = InList(j, blocklist.jids)
      BY <1>1, <2>2, <3>1, LeadsNone DEF StoredInv
    <3>3. \A j \in BlockableJids : j \in blocked <=> j \in blocklist.jids
      BY <3>2, InListSame
    <3> QED BY <1>2, <3>3
  <2> QED BY <1>2, <2>1, <2>2
<1>4. BlocklistFetched
  <2> SUFFICES ASSUME Quiet, connected
               PROVE  /\ subscribed => isSubscribed \/ failures > 0
                      /\ isSubscribed => blocklist = [source |-> "Xmpp", jids |-> blockServer.jids]
                      /\ running = 0
    BY DEF BlocklistFetched
  <2>1. requests = <<>> /\ stream = <<>>
    BY DEF Quiet
  <2>2. ~Fetches(requests) /\ ~HasList(stream)
    BY <2>1, EmptyQueue DEF Fetches, HasList
  <2>3. subscribed => isSubscribed \/ failures > 0
    BY <1>1, <2>2 DEF FetchInv
  <2>4. running = 0
    BY <1>1, <2>1, CountNone DEF RunningInv
  <2>5. isSubscribed => blocklist = [source |-> "Xmpp", jids |-> blockServer.jids]
    <3> SUFFICES ASSUME isSubscribed
                 PROVE  blocklist = [source |-> "Xmpp", jids |-> blockServer.jids]
      OBVIOUS
    <3>1. blockServer.tells /\ blocklist.source = "Xmpp" /\ Len(stream) = 0
      BY <1>1, <2>1, EmptyQueue DEF FetchInv
    <3>2. \A j \in BlockableJids : InList(j, blocklist.jids) = InList(j, blockServer.jids)
      BY <1>1, <3>1, LeadsNone DEF FollowInv, Follows
    <3>3. \A j \in BlockableJids : j \in blocklist.jids <=> j \in blockServer.jids
      BY <3>2, InListSame
    <3>4. blocklist.jids = blockServer.jids
      BY <1>2, <3>3
    <3> QED BY <1>2, <3>1, <3>4
  <2> QED BY <2>3, <2>4, <2>5
<1> QED BY <1>1, <1>3, <1>4
-----------------------------------------------------------------------------
(* Drafts.                                                                 *)

Pieces == (DraftChats \X {1, 2}) \cup {Forwarded}
Contents == [text : SUBSET Pieces, replaces : BOOLEAN]

DraftJobs ==
    [op : {"load", "add", "update", "remove", "send", "correct", "receive"}, chat : DraftChats,
     content : Contents]

DraftResults ==
    [op : {"load"}, draft : Seq(Contents)]
    \cup [op : {"remove"}, chat : DraftChats, last : {"none", "message"}]
    \cup [op : {"add", "update", "send", "receive"}, chat : DraftChats]

DraftTypes ==
    /\ started \in BOOLEAN /\ openChat \in DraftChats \cup {NoChat}
    /\ toForward \in BOOLEAN /\ astray \in BOOLEAN
    /\ composed \in [text : SUBSET Pieces, replaces : BOOLEAN, isDraft : BOOLEAN,
                     isForwarding : BOOLEAN]
    /\ drafts \in [DraftChats -> Seq(Contents)]
    /\ messages \in [DraftChats -> {"none", "older", "newer"}]
    /\ listed \in [DraftChats -> {"none", "draft", "draft as message", "message"}]
    /\ wrote \in [DraftChats -> Contents]
    /\ IsSequence(jobs) /\ \A i \in DOMAIN jobs : jobs[i] \in DraftJobs
    /\ IsSequence(results) /\ \A i \in DOMAIN results : results[i] \in DraftResults
    /\ ~started => openChat = NoChat /\ results = <<>>
    /\ openChat = NoChat => /\ composed = Cleared /\ ~toForward
                            /\ started => ~DraftLoading

\* What the list will show of a chat once all results are handled.
ResultFor(i, ops, c) == results[i].op \in ops /\ results[i].chat = c
LastResult(c, ops, undoing) ==
    \E i \in DOMAIN results :
        ResultFor(i, ops, c) /\ \A j \in DOMAIN results : j > i => ~ResultFor(j, undoing, c)
NoResult(c, ops) == \A i \in DOMAIN results : ~ResultFor(i, ops, c)

WillList(c) ==
    /\ drafts[c] = <<>> =>
          \/ LastResult(c, {"remove"}, {"add"})
          \/ listed[c] # "draft" /\ NoResult(c, {"add"})
    /\ drafts[c] # <<>> /\ messages[c] # "newer" =>
          \/ LastResult(c, {"add", "update"}, {"remove", "send", "receive"})
          \/ /\ listed[c] \in {"draft", "draft as message"}
             /\ NoResult(c, {"remove", "send", "receive"})

DraftsListedInv == started => \A c \in DraftChats : WillList(c)

-----------------------------------------------------------------------------

LEMMA ContentTyped ==
    ASSUME DraftTypes
    PROVE  /\ Content(composed) \in Contents /\ NothingWritten \in Contents
           /\ \A op \in {"load", "remove", "send", "correct", "receive"}, c \in DraftChats :
                 DraftJob(op, c) \in DraftJobs /\ DraftJob(op, c).op = op /\ DraftJob(op, c).chat = c
                 /\ DraftJob(op, c).content = NothingWritten
BY DEF DraftTypes, Content, Contents, NothingWritten, DraftJob, DraftJobs

LEMMA SavedTyped ==
    ASSUME DraftTypes
    PROVE  /\ IsSequence(SavedDraft) /\ \A i \in DOMAIN SavedDraft : SavedDraft[i] \in DraftJobs
           /\ \A i \in DOMAIN SavedDraft : SavedDraft[i].op # "load"
<1>1. CASE openChat = NoChat \/ (composed.text = {} /\ ~composed.isDraft)
  BY <1>1, EmptyQueue DEF SavedDraft
<1>2. CASE openChat # NoChat /\ composed.text # {}
  <2> DEFINE job == [op |-> IF composed.isDraft THEN "update" ELSE "add", chat |-> openChat,
                     content |-> Content(composed)]
  <2>1. SavedDraft = <<job>>
    BY <1>2 DEF SavedDraft
  <2>2. job \in DraftJobs /\ job.op # "load"
    BY <1>2, ContentTyped DEF DraftJobs, DraftTypes
  <2> HIDE DEF job
  <2> QED BY <2>1, <2>2, OneElement
<1>3. CASE openChat # NoChat /\ composed.text = {} /\ composed.isDraft
  <2>1. SavedDraft = <<DraftJob("remove", openChat)>>
    BY <1>3 DEF SavedDraft
  <2>2. openChat \in DraftChats
    BY <1>3 DEF DraftTypes
  <2> QED BY <2>1, <2>2, ContentTyped, OneElement
<1> QED BY <1>1, <1>2, <1>3

LEMMA LoadingWhere ==
    DraftLoading <=> \/ \E i \in DOMAIN jobs : jobs[i].op = "load"
                     \/ \E i \in DOMAIN results : results[i].op = "load"
BY DEF DraftLoading, ToSet

LEMMA DraftTypesInit == DraftsInit /\ jobs = <<>> /\ results = <<>> => DraftTypes
<1> SUFFICES ASSUME DraftsInit, jobs = <<>>, results = <<>>
             PROVE  DraftTypes
  OBVIOUS
<1>1. IsSequence(jobs) /\ DOMAIN jobs = {} /\ IsSequence(results) /\ DOMAIN results = {}
  BY EmptyQueue
<1>2. ~DraftLoading
  BY <1>1, LoadingWhere
<1>3. NothingWritten \in Contents /\ Cleared \in [text : SUBSET Pieces, replaces : BOOLEAN,
                                                isDraft : BOOLEAN, isForwarding : BOOLEAN]
  BY DEF NothingWritten, Contents, Cleared
<1>4. <<>> \in Seq(Contents)
  OBVIOUS
<1> QED BY <1>1, <1>2, <1>3, <1>4 DEF DraftsInit, DraftTypes

\* The types of a queue to which a typed one is added
LEMMA DraftJobsJoined ==
    ASSUME NEW q, NEW r, IsSequence(q), IsSequence(r), NEW S,
           \A i \in DOMAIN q : q[i] \in S, \A i \in DOMAIN r : r[i] \in S
    PROVE  IsSequence(q \o r) /\ \A i \in DOMAIN (q \o r) : (q \o r)[i] \in S
BY Joined

LEMMA ComposeTypes ==
    ASSUME DraftTypes, NEW content \in Contents, Compose(content)
    PROVE  DraftTypes'
<1>1. openChat \in DraftChats /\ openChat # NoChat
  BY DEF Compose, DraftTypes
<1>2. composed' \in [text : SUBSET Pieces, replaces : BOOLEAN, isDraft : BOOLEAN,
                     isForwarding : BOOLEAN]
  BY DEF Compose, DraftTypes, Contents
<1>3. wrote' \in [DraftChats -> Contents]
  BY DEF Compose, DraftTypes
<1> QED BY <1>1, <1>2, <1>3 DEF Compose, DraftTypes

LEMMA ComposedWhat ==
    ASSUME DraftTypes
    PROVE  /\ \A text \in Typed(openChat) \cup {{}} :
                 TypeText(text) => \E content \in Contents : Compose(content)
           /\ PrepareCorrection => \E content \in Contents : Compose(content)
<1>1. ASSUME NEW text \in Typed(openChat) \cup {{}}, TypeText(text)
      PROVE  \E content \in Contents : Compose(content)
  <2> DEFINE content == [text |-> text, replaces |-> composed.replaces]
  <2>1. Compose(content) /\ openChat \in DraftChats
    BY <1>1 DEF TypeText, Compose, DraftTypes
  <2>2. text \in SUBSET Pieces
    BY <2>1 DEF Typed, Pieces
  <2>3. content \in Contents
    BY <2>2 DEF Contents, DraftTypes
  <2> QED BY <2>1, <2>3
<1>2. ASSUME PrepareCorrection
      PROVE  \E content \in Contents : Compose(content)
  <2> DEFINE content == [text |-> {<<openChat, 1>>}, replaces |-> TRUE]
  <2>1. Compose(content) /\ openChat \in DraftChats
    BY <1>2 DEF PrepareCorrection, DraftTypes
  <2>2. content \in Contents
    BY <2>1 DEF Contents, Pieces
  <2> QED BY <2>1, <2>2
<1> QED BY <1>1, <1>2

LEMMA OpenChatTypes ==
    ASSUME DraftTypes, NEW chat \in DraftChats, OpenChat(chat)
    PROVE  DraftTypes'
<1> DEFINE q == jobs \o SavedDraft
<1> DEFINE last == <<DraftJob("load", chat)>>
<1>1. IsSequence(q) /\ \A i \in DOMAIN q : q[i] \in DraftJobs
  BY SavedTyped, DraftJobsJoined DEF DraftTypes
<1>2. DraftJob("load", chat) \in DraftJobs
  BY ContentTyped
<1>3. IsSequence(last) /\ \A i \in DOMAIN last : last[i] \in DraftJobs
  BY <1>2, OneElement
<1> HIDE DEF q, last
<1>4. IsSequence(q \o last) /\ \A i \in DOMAIN (q \o last) : (q \o last)[i] \in DraftJobs
  BY <1>1, <1>3, DraftJobsJoined
<1>5. jobs' = q \o last
  BY DEF OpenChat, q, last
<1>6. chat # NoChat /\ openChat' = chat /\ started' = started /\ started /\ toForward' = toForward
      /\ drafts' = drafts /\ messages' = messages /\ listed' = listed /\ results' = results
  BY DraftsAssumption DEF OpenChat
<1>7. composed' \in [text : SUBSET Pieces, replaces : BOOLEAN, isDraft : BOOLEAN,
                     isForwarding : BOOLEAN]
  BY DEF OpenChat, DraftTypes, Cleared
<1>8. wrote' \in [DraftChats -> Contents]
  <2>1. Left \in [DraftChats -> Contents]
    BY ContentTyped DEF Left, DraftTypes
  <2>2. Forwarded \in Pieces
    BY DEF Pieces
  <2>3. [Left EXCEPT ![chat].text = @ \cup {Forwarded}] \in [DraftChats -> Contents]
    BY <2>1, <2>2 DEF Contents
  <2> QED BY <2>1, <2>3 DEF OpenChat
<1>9. astray' \in BOOLEAN
  BY DEF OpenChat, DraftLoading, DraftTypes
<1> QED BY <1>4, <1>5, <1>6, <1>7, <1>8, <1>9 DEF DraftTypes

LEMMA SendTypes ==
    ASSUME DraftTypes, SendComposed
    PROVE  DraftTypes'
<1> DEFINE job == [DraftJob(IF composed.replaces THEN "correct" ELSE "send", openChat)
                          EXCEPT !.content = Content(composed)]
<1>1. openChat \in DraftChats /\ openChat # NoChat
  BY DEF SendComposed, DraftTypes
<1>2. job \in DraftJobs
  BY <1>1, ContentTyped DEF DraftJob, DraftJobs
<1> HIDE DEF job
<1>3. IsSequence(jobs \o <<job>>) /\ \A i \in DOMAIN (jobs \o <<job>>) : (jobs \o <<job>>)[i] \in DraftJobs
  <2>1. IsSequence(<<job>>) /\ \A i \in DOMAIN <<job>> : <<job>>[i] \in DraftJobs
    BY <1>2, OneElement
  <2> QED BY <2>1, DraftJobsJoined DEF DraftTypes
<1>4. IsSequence(ResetDraft(composed.isDraft))
      /\ \A i \in DOMAIN ResetDraft(composed.isDraft) : ResetDraft(composed.isDraft)[i] \in DraftJobs
  BY <1>1, ContentTyped, OneElement, EmptyQueue DEF ResetDraft
<1>5. jobs' = (jobs \o <<job>>) \o ResetDraft(composed.isDraft)
  BY DEF SendComposed, job
<1>6. IsSequence(jobs') /\ \A i \in DOMAIN jobs' : jobs'[i] \in DraftJobs
  BY <1>3, <1>4, <1>5, DraftJobsJoined
<1>7. wrote' \in [DraftChats -> Contents] /\ astray' \in BOOLEAN
  BY <1>1, ContentTyped DEF SendComposed, DraftTypes
<1>8. composed' \in [text : SUBSET Pieces, replaces : BOOLEAN, isDraft : BOOLEAN,
                     isForwarding : BOOLEAN]
  BY DEF SendComposed, Cleared
<1> QED BY <1>1, <1>6, <1>7, <1>8 DEF DraftTypes, SendComposed

LEMMA RowsAfter ==
    ASSUME NEW job \in DraftJobs, NEW rows \in Seq(Contents)
    PROVE  DraftsAfter(job, rows) \in Seq(Contents)
<1>1. job.content \in Contents
  BY DEF DraftJobs
<1>2. CASE job.op = "update"
  <2>1. DOMAIN rows = 1..Len(rows) /\ Len(rows) \in Nat
    OBVIOUS
  <2>2. [i \in 1..Len(rows) |-> job.content] \in Seq(Contents)
    BY <1>1, <2>1
  <2> QED BY <1>2, <2>1, <2>2 DEF DraftsAfter
<1>3. CASE job.op = "add"
  BY <1>1, <1>3 DEF DraftsAfter
<1>4. CASE job.op \notin {"add", "update"}
  <2>1. <<>> \in Seq(Contents)
    OBVIOUS
  <2> QED BY <1>4, <2>1 DEF DraftsAfter
<1> QED BY <1>2, <1>3, <1>4

\* What a job's signal is
LEMMA DraftResultOf ==
    ASSUME DraftTypes, NEW job \in DraftJobs
    PROVE  /\ IsSequence(DraftResult(job))
           /\ \A i \in DOMAIN DraftResult(job) : /\ DraftResult(job)[i] \in DraftResults
                                                 /\ DraftResult(job)[i].op = job.op
           /\ job.op = "load" => DraftResult(job) = <<[op |-> "load", draft |-> drafts[job.chat]]>>
           /\ job.op = "correct" \/ NoRow(job) => DraftResult(job) = <<>>
           /\ job.op \in {"add", "remove", "send", "receive"} \/ (job.op = "update" /\ ~NoRow(job)) =>
                 \E r : DraftResult(job) = <<r>> /\ r.op = job.op /\ r.chat = job.chat
<1>1. job.chat \in DraftChats
  BY DEF DraftJobs
<1>2. job.op \in {"load", "add", "update", "remove", "send", "correct", "receive"}
  BY DEF DraftJobs
<1>3. CASE job.op = "load"
  <2> DEFINE r == [op |-> "load", draft |-> drafts[job.chat]]
  <2>1. DraftResult(job) = <<r>>
    BY <1>3 DEF DraftResult, NoRow
  <2>2. r \in DraftResults /\ r.op = "load"
    BY <1>1 DEF DraftResults, DraftTypes
  <2> HIDE DEF r
  <2>3. ~NoRow(job)
    BY <1>3 DEF NoRow
  <2> QED BY <1>3, <2>1, <2>2, <2>3, OneElement DEF r
<1>4. CASE job.op = "remove"
  <2> DEFINE r == [op |-> "remove", chat |-> job.chat,
                   last |-> IF messages[job.chat] = "none" THEN "none" ELSE "message"]
  <2>1. DraftResult(job) = <<r>>
    BY <1>4 DEF DraftResult, NoRow
  <2>2. r \in DraftResults /\ r.op = "remove" /\ r.chat = job.chat
    BY <1>1 DEF DraftResults
  <2> HIDE DEF r
  <2>3. ~NoRow(job)
    BY <1>4 DEF NoRow
  <2> QED BY <1>4, <2>1, <2>2, <2>3, OneElement
<1>5. CASE job.op = "correct" \/ NoRow(job)
  <2>1. DraftResult(job) = <<>>
    BY <1>5 DEF DraftResult, NoRow
  <2> QED BY <1>5, <2>1, EmptyQueue DEF NoRow
<1>6. CASE job.op \in {"add", "update", "send", "receive"} /\ ~NoRow(job)
  <2> DEFINE r == [op |-> job.op, chat |-> job.chat]
  <2>1. DraftResult(job) = <<r>>
    BY <1>6 DEF DraftResult
  <2>2. r \in DraftResults /\ r.op = job.op /\ r.chat = job.chat
    BY <1>1, <1>6 DEF DraftResults
  <2> HIDE DEF r
  <2> QED BY <1>6, <2>1, <2>2, OneElement
<1> QED BY <1>2, <1>3, <1>4, <1>5, <1>6 DEF NoRow

\* The first job of the queue
LEMMA FirstJob ==
    ASSUME DraftTypes, jobs # <<>>
    PROVE  /\ Head(jobs) \in DraftJobs /\ Head(jobs) = jobs[1] /\ 1 \in DOMAIN jobs
           /\ Head(jobs).chat \in DraftChats
BY TailOf DEF DraftTypes, DraftJobs

LEMMA RunDraftJobTypes ==
    ASSUME DraftTypes, RunDraftJob
    PROVE  DraftTypes'
<1> DEFINE job == Head(jobs)
<1>1. job \in DraftJobs /\ job.chat \in DraftChats /\ jobs # <<>>
  BY FirstJob DEF RunDraftJob
<1>2. /\ drafts' = [drafts EXCEPT ![job.chat] = DraftsAfter(job, @)]
      /\ messages' = [messages EXCEPT ![job.chat] = MessagesAfter(job, @)]
      /\ jobs' = Tail(jobs)
      /\ results' = IF started THEN results \o DraftResult(job) ELSE results
      /\ UNCHANGED <<started, openChat, composed, toForward, listed, wrote, astray>>
  BY DEF RunDraftJob
<1>job. job = Head(jobs)
  OBVIOUS
<1> HIDE DEF job
<1>3. drafts' \in [DraftChats -> Seq(Contents)]
  BY <1>1, <1>2, RowsAfter DEF DraftTypes
<1>4. messages' \in [DraftChats -> {"none", "older", "newer"}]
  BY <1>1, <1>2 DEF DraftTypes, MessagesAfter
<1>5. IsSequence(jobs') /\ \A i \in DOMAIN jobs' : jobs'[i] \in DraftJobs
  BY <1>1, <1>2, TailOf DEF DraftTypes
<1>6. IsSequence(results') /\ \A i \in DOMAIN results' : results'[i] \in DraftResults
  BY <1>1, <1>2, DraftResultOf, DraftJobsJoined DEF DraftTypes
<1>7. openChat = NoChat /\ started => ~DraftLoading'
  <2> SUFFICES ASSUME openChat = NoChat, started
               PROVE  ~DraftLoading'
    OBVIOUS
  <2>1. ~DraftLoading
    BY DEF DraftTypes
  <2>2. job.op # "load"
    BY <2>1, LoadingWhere, <1>1, FirstJob DEF job
  <2>3. ASSUME NEW i \in DOMAIN jobs'
        PROVE  jobs'[i].op # "load"
    <3>1. i + 1 \in DOMAIN jobs /\ jobs'[i] = jobs[i + 1]
      BY <1>1, <1>2, TailOf DEF DraftTypes
    <3> QED BY <2>1, <3>1, LoadingWhere
  <2>4. ASSUME NEW i \in DOMAIN results'
        PROVE  results'[i].op # "load"
    <3> DEFINE new == DraftResult(job)
    <3>1. IsSequence(new) /\ \A k \in DOMAIN new : new[k].op # "load"
      BY <1>1, <2>2, DraftResultOf
    <3>2. \A k \in DOMAIN results : results[k].op # "load"
      BY <2>1, LoadingWhere
    <3>3. results' = results \o new
      BY <1>2
    <3>4. IsSequence(results)
      BY DEF DraftTypes
    <3> HIDE DEF new
    <3>5. \/ i \in DOMAIN results /\ results'[i] = results[i]
          \/ i - Len(results) \in DOMAIN new /\ results'[i] = new[i - Len(results)]
      BY <3>1, <3>3, <3>4, Joined
    <3> QED BY <3>1, <3>2, <3>5
  <2> QED BY <2>3, <2>4 DEF DraftLoading, ToSet
<1>8. ~started => results' = <<>>
  BY <1>2 DEF DraftTypes
<1> QED BY <1>2, <1>3, <1>4, <1>5, <1>6, <1>7, <1>8 DEF DraftTypes

LEMMA FirstResult ==
    ASSUME DraftTypes, results # <<>>
    PROVE  /\ Head(results) \in DraftResults /\ Head(results) = results[1] /\ 1 \in DOMAIN results
           /\ started
           /\ Head(results).op = "load" =>
                 openChat # NoChat /\ Head(results).draft \in Seq(Contents)
           /\ Head(results).op # "load" => Head(results).chat \in DraftChats
<1>1. Head(results) \in DraftResults /\ Head(results) = results[1] /\ 1 \in DOMAIN results
  <2>1. IsSequence(results) /\ \A i \in DOMAIN results : results[i] \in DraftResults
    BY DEF DraftTypes
  <2> QED BY <2>1, TailOf
<1>2. started
  BY DEF DraftTypes
<1>3. Head(results).op = "load" => openChat # NoChat /\ Head(results).draft \in Seq(Contents)
  <2>1. Head(results).op = "load" => openChat # NoChat
    BY <1>1, <1>2, LoadingWhere DEF DraftTypes
  <2> QED BY <1>1, <2>1 DEF DraftResults
<1>4. Head(results).op # "load" => Head(results).chat \in DraftChats
  BY <1>1 DEF DraftResults
<1> QED BY <1>1, <1>2, <1>3, <1>4

LEMMA PreparedTyped ==
    ASSUME DraftTypes, NEW draft \in Seq(Contents)
    PROVE  Prepared(draft) \in [text : SUBSET Pieces, replaces : BOOLEAN, isDraft : BOOLEAN,
                                isForwarding : BOOLEAN]
<1> DEFINE Composed == [text : SUBSET Pieces, replaces : BOOLEAN, isDraft : BOOLEAN,
                        isForwarding : BOOLEAN]
<1> DEFINE loaded == IF draft = <<>> THEN composed ELSE WithDraft(Head(draft))
<1>1. loaded \in Composed
  <2>1. CASE draft = <<>>
    BY <2>1 DEF DraftTypes
  <2>2. CASE draft # <<>>
    <3>1. Head(draft) \in Contents
      BY <2>2
    <3> QED BY <2>2, <3>1 DEF WithDraft, DraftTypes, Contents
  <2> QED BY <2>1, <2>2
<1>2. Forwarded \in Pieces
  BY DEF Pieces
<1>3. Prepared(draft) = IF toForward
        THEN [loaded EXCEPT !.text = @ \cup {Forwarded}, !.isForwarding = TRUE]
        ELSE IF loaded.isDraft \/ loaded.isForwarding THEN loaded
        ELSE [loaded EXCEPT !.text = {}]
  BY DEF Prepared
<1> HIDE DEF loaded
<1> QED BY <1>1, <1>2, <1>3

LEMMA HandleDraftResultTypes ==
    ASSUME DraftTypes, HandleDraftResult
    PROVE  DraftTypes'
<1> DEFINE result == Head(results)
<1>1. /\ results # <<>> /\ results' = Tail(results)
      /\ UNCHANGED <<started, openChat, drafts, messages, wrote, astray, jobs>>
  BY DEF HandleDraftResult
<1>2. result.op = "load" => composed' = Prepared(result.draft) /\ toForward' = FALSE /\ UNCHANGED listed
  BY DEF HandleDraftResult
<1>3. result.op # "load" => /\ listed' = [listed EXCEPT ![result.chat] = Listed(result, @)]
                            /\ UNCHANGED <<composed, toForward>>
  BY DEF HandleDraftResult
<1>4. /\ result \in DraftResults /\ started
      /\ result.op = "load" => openChat # NoChat /\ result.draft \in Seq(Contents)
      /\ result.op # "load" => result.chat \in DraftChats
  BY <1>1, FirstResult
<1> HIDE DEF result
<1>5. composed' \in [text : SUBSET Pieces, replaces : BOOLEAN, isDraft : BOOLEAN,
                     isForwarding : BOOLEAN] /\ toForward' \in BOOLEAN
  BY <1>2, <1>3, <1>4, PreparedTyped DEF DraftTypes
<1>6. listed' \in [DraftChats -> {"none", "draft", "draft as message", "message"}]
  <2>1. CASE result.op = "load"
    BY <1>2, <2>1 DEF DraftTypes
  <2>2. CASE result.op # "load"
    <3>1. Listed(result, listed[result.chat]) \in {"none", "draft", "draft as message", "message"}
      BY <1>4, <2>2 DEF DraftResults, Listed, DraftTypes
    <3> QED BY <1>3, <1>4, <2>2, <3>1 DEF DraftTypes
  <2> QED BY <2>1, <2>2
<1>7. IsSequence(results') /\ \A i \in DOMAIN results' : results'[i] \in DraftResults
  BY <1>1, TailOf DEF DraftTypes
<1>8. openChat = NoChat => composed' = Cleared /\ ~toForward' /\ ~DraftLoading'
  <2> SUFFICES ASSUME openChat = NoChat
               PROVE  composed' = Cleared /\ ~toForward' /\ ~DraftLoading'
    OBVIOUS
  <2>1. ~DraftLoading
    BY <1>4 DEF DraftTypes
  <2>2. ASSUME NEW i \in DOMAIN results'
        PROVE  results'[i].op # "load"
    <3>1. i + 1 \in DOMAIN results /\ results'[i] = results[i + 1]
      BY <1>1, TailOf DEF DraftTypes
    <3> QED BY <2>1, <3>1, LoadingWhere
  <2>3. ~DraftLoading'
    BY <1>1, <2>1, <2>2 DEF DraftLoading, ToSet
  <2>4. composed = Cleared /\ ~toForward
    BY DEF DraftTypes
  <2>5. UNCHANGED <<composed, toForward>>
    BY <1>3, <1>4
  <2> QED BY <2>3, <2>4, <2>5
<1> QED BY <1>1, <1>4, <1>5, <1>6, <1>7, <1>8 DEF DraftTypes

LEMMA LeftTyped ==
    ASSUME DraftTypes
    PROVE  Left \in [DraftChats -> Contents]
BY ContentTyped DEF Left, DraftTypes

LEMMA QuitTypes ==
    ASSUME DraftTypes, QuitApplication
    PROVE  DraftTypes'
<1>1. IsSequence(jobs') /\ \A i \in DOMAIN jobs' : jobs'[i] \in DraftJobs
  BY SavedTyped, DraftJobsJoined DEF DraftTypes, QuitApplication
<1>2. Cleared \in [text : SUBSET Pieces, replaces : BOOLEAN, isDraft : BOOLEAN,
                   isForwarding : BOOLEAN]
  BY DEF Cleared
<1> QED BY <1>1, <1>2, LeftTyped, EmptyQueue DEF QuitApplication, DraftTypes, DraftLoading

LEMMA StartAgainTypes ==
    ASSUME DraftTypes, StartAgain
    PROVE  DraftTypes'
<1>1. IsSequence(jobs') /\ DOMAIN jobs' = {} /\ results' = <<>>
  BY EmptyQueue DEF StartAgain, DraftTypes
<1>2. ~DraftLoading'
  BY <1>1, EmptyQueue DEF DraftLoading, ToSet
<1>3. listed' \in [DraftChats -> {"none", "draft", "draft as message", "message"}]
  BY DEF StartAgain
<1>4. wrote' \in [DraftChats -> Contents]
  <2>1. \A c \in DraftChats : drafts[c] # <<>> => Head(drafts[c]) \in Contents
    <3>1. \A c \in DraftChats : drafts[c] \in Seq(Contents)
      BY DEF DraftTypes
    <3> QED BY <3>1
  <2> QED BY <2>1, ContentTyped DEF StartAgain, DraftTypes
<1> QED BY <1>1, <1>2, <1>3, <1>4 DEF StartAgain, DraftTypes

\* Every step keeps the types.
LEMMA DraftTypesNext ==
    ASSUME DraftTypes, DraftsNext
    PROVE  DraftTypes'
<1>1. ASSUME NEW chat \in DraftChats, OpenChat(chat)
      PROVE  DraftTypes'
  BY <1>1, OpenChatTypes
<1>2. ASSUME NEW chat \in DraftChats, ReceiveMessage(chat)
      PROVE  DraftTypes'
  <2>1. IsSequence(jobs') /\ \A i \in DOMAIN jobs' : jobs'[i] \in DraftJobs
    <3> DEFINE job == DraftJob("receive", chat)
    <3>1. job \in DraftJobs /\ jobs' = Append(jobs, job)
      BY <1>2, ContentTyped DEF ReceiveMessage
    <3>2. IsSequence(jobs) /\ \A i \in DOMAIN jobs : jobs[i] \in DraftJobs
      BY DEF DraftTypes
    <3> HIDE DEF job
    <3> QED BY <3>1, <3>2, AppendOf
  <2>2. openChat = NoChat /\ started => ~DraftLoading'
    <3> SUFFICES ASSUME openChat = NoChat, started
                 PROVE  ~DraftLoading'
      OBVIOUS
    <3>1. ~DraftLoading
      BY DEF DraftTypes
    <3>2. ASSUME NEW i \in DOMAIN jobs'
          PROVE  jobs'[i].op # "load"
      <4>1. \A k \in DOMAIN jobs : jobs[k].op # "load"
        BY <3>1, LoadingWhere
      <4>2. jobs' = Append(jobs, DraftJob("receive", chat)) /\ DraftJob("receive", chat).op = "receive"
        BY <1>2 DEF ReceiveMessage, DraftJob
      <4> DEFINE job == DraftJob("receive", chat)
      <4>3. IsSequence(jobs) /\ jobs' = Append(jobs, job) /\ job.op # "load"
        BY <4>2 DEF DraftTypes
      <4> HIDE DEF job
      <4> QED BY <4>1, <4>3, AppendOf
    <3>3. \A i \in DOMAIN results : results[i].op # "load"
      BY <3>1, LoadingWhere
    <3> QED BY <1>2, <3>2, <3>3 DEF ReceiveMessage, DraftLoading, ToSet
  <2> QED BY <1>2, <2>1, <2>2 DEF ReceiveMessage, draftVars, DraftTypes
<1>3. ASSUME NEW text \in Typed(openChat) \cup {{}}, TypeText(text)
      PROVE  DraftTypes'
  BY <1>3, ComposedWhat, ComposeTypes
<1>4. CASE PrepareCorrection
  BY <1>4, ComposedWhat, ComposeTypes
<1>5. CASE SendComposed
  BY <1>5, SendTypes
<1>6. CASE CancelCorrection
  <2>1. Cleared \in [text : SUBSET Pieces, replaces : BOOLEAN, isDraft : BOOLEAN,
                     isForwarding : BOOLEAN] /\ ~Cleared.replaces
    BY DEF Cleared
  <2>2. openChat # NoChat
    BY <1>6, <2>1 DEF CancelCorrection, DraftTypes
  <2>3. wrote' \in [DraftChats -> Contents]
    BY <1>6, ContentTyped DEF CancelCorrection, DraftTypes
  <2> QED BY <1>6, <2>1, <2>2, <2>3 DEF CancelCorrection, DraftTypes
<1>7. CASE SetForward
  <2>1. toForward' \in BOOLEAN /\ astray' \in BOOLEAN /\ openChat # NoChat
    BY <1>7 DEF SetForward, DraftTypes
  <2> QED BY <1>7, <2>1 DEF SetForward, DraftTypes
<1>8. CASE RunDraftJob
  BY <1>8, RunDraftJobTypes
<1>9. CASE HandleDraftResult
  BY <1>9, HandleDraftResultTypes
<1>10. CASE QuitApplication
  BY <1>10, QuitTypes
<1>11. CASE StartAgain
  BY <1>11, StartAgainTypes
<1> QED BY <1>1, <1>2, <1>3, <1>4, <1>5, <1>6, <1>7, <1>8, <1>9, <1>10, <1>11 DEF DraftsNext

-----------------------------------------------------------------------------
(* The list of chats.                                                      *)

LEMMA ListedInit == DraftsInit /\ results = <<>> => DraftsListedInv
<1> SUFFICES ASSUME DraftsInit, results = <<>>
             PROVE  DraftsListedInv
  OBVIOUS
<1>1. DOMAIN results = {}
  BY EmptyQueue
<1> QED BY <1>1 DEF DraftsInit, DraftsListedInv, WillList, LastResult, NoResult

\* Results that stay at their place
LEMMA ListedUnchanged ==
    ASSUME DraftsListedInv, UNCHANGED <<started, drafts, messages, listed, results>>
    PROVE  DraftsListedInv'
<1>1. \A c, ops, undoing : LastResult(c, ops, undoing)' <=> LastResult(c, ops, undoing)
  BY DEF LastResult, ResultFor
<1>2. \A c, ops : NoResult(c, ops)' <=> NoResult(c, ops)
  BY DEF NoResult, ResultFor
<1>3. \A c : WillList(c) => WillList(c)'
  BY <1>1, <1>2 DEF WillList
<1> QED BY <1>3 DEF DraftsListedInv

LEMMA ListedRun ==
    ASSUME DraftTypes, DraftsListedInv, RunDraftJob
    PROVE  DraftsListedInv'
<1> DEFINE job == Head(jobs)
<1>1. job \in DraftJobs /\ job.chat \in DraftChats /\ jobs # <<>>
  BY FirstJob DEF RunDraftJob
<1>2. /\ drafts' = [drafts EXCEPT ![job.chat] = DraftsAfter(job, @)]
      /\ messages' = [messages EXCEPT ![job.chat] = MessagesAfter(job, @)]
      /\ jobs' = Tail(jobs)
      /\ results' = IF started THEN results \o DraftResult(job) ELSE results
      /\ UNCHANGED <<started, openChat, composed, toForward, listed, wrote, astray>>
  BY DEF RunDraftJob
<1> HIDE DEF job
<1> SUFFICES ASSUME started, NEW c \in DraftChats
             PROVE  WillList(c)'
  BY <1>2 DEF DraftsListedInv
<1> DEFINE new == DraftResult(job)
<1>3. WillList(c) /\ IsSequence(results)
  BY DEF DraftsListedInv, DraftTypes
<1>4. /\ IsSequence(new) /\ \A i \in DOMAIN new : new[i].op = job.op
      /\ results' = results \o new
  BY <1>1, <1>2, DraftResultOf
<1>5. /\ job.op = "correct" \/ NoRow(job) => new = <<>>
      /\ job.op \in {"add", "remove", "send", "receive"} \/ (job.op = "update" /\ ~NoRow(job)) =>
                 \E r : new = <<r>> /\ r.op = job.op /\ r.chat = job.chat
  BY <1>1, DraftResultOf
<1>6. job.op \in {"load", "add", "update", "remove", "send", "correct", "receive"}
  BY <1>1 DEF DraftJobs
<1> HIDE DEF new
\* No result of another chat or of another kind disturbs.
<1>7. ASSUME NEW ops, job.op \notin ops \/ (job.chat # c /\ job.op # "load") \/ new = <<>>,
             "load" \notin ops
      PROVE  /\ NoResult(c, ops) => NoResult(c, ops)'
             /\ \A before : LastResult(c, before, ops) => LastResult(c, before, ops)'
  <2>1. \A i \in DOMAIN new : ~(new[i].op \in ops /\ new[i].chat = c)
    <3>1. CASE job.op \notin ops
      BY <3>1, <1>4
    <3>2. CASE job.chat # c /\ job.op # "load"
      <4>1. new = <<>> \/ \E r : new = <<r>> /\ r.op = job.op /\ r.chat = job.chat
        BY <3>2, <1>5, <1>6
      <4> QED BY <3>2, <4>1, OneElement, EmptyQueue
    <3>3. CASE new = <<>>
      BY <3>3, EmptyQueue
    <3> QED BY <1>7, <3>1, <3>2, <3>3
  <2>2. \A i \in DOMAIN results' : \/ i \in DOMAIN results /\ results'[i] = results[i]
                                   \/ ~(results'[i].op \in ops /\ results'[i].chat = c)
    <3>1. \A i \in DOMAIN (results \o new) :
             \/ i \in DOMAIN results /\ (results \o new)[i] = results[i]
             \/ i - Len(results) \in DOMAIN new /\ (results \o new)[i] = new[i - Len(results)]
      BY <1>3, <1>4, Joined
    <3> QED BY <1>4, <2>1, <3>1
  <2>3. \A i \in DOMAIN results : i \in DOMAIN results' /\ results'[i] = results[i]
    BY <1>3, <1>4, Joined
  <2>4. NoResult(c, ops) => NoResult(c, ops)'
    BY <2>2 DEF NoResult, ResultFor
  <2>5. ASSUME NEW before, LastResult(c, before, ops)
        PROVE  LastResult(c, before, ops)'
    <3>1. PICK i \in DOMAIN results : ResultFor(i, before, c)
                  /\ \A j \in DOMAIN results : j > i => ~ResultFor(j, ops, c)
      BY <2>5 DEF LastResult
    <3>2. i \in DOMAIN results' /\ ResultFor(i, before, c)'
      BY <2>3, <3>1 DEF ResultFor
    <3>3. ASSUME NEW j \in DOMAIN results', j > i
          PROVE  ~ResultFor(j, ops, c)'
      BY <2>2, <3>1, <3>3 DEF ResultFor
    <3> QED BY <3>2, <3>3 DEF LastResult
  <2> QED BY <2>4, <2>5
\* The new result is the last one.
<1>8. ASSUME NEW r, new = <<r>>, r.op = job.op, r.chat = c, NEW ops, NEW undoing, job.op \in ops
      PROVE  LastResult(c, ops, undoing)'
  <2>1. DOMAIN new = {1} /\ new[1] = r
    BY <1>8, OneElement
  <2>2. Len(results) + 1 \in DOMAIN results' /\ results'[Len(results) + 1] = r
    <3>1. \A i \in DOMAIN new : /\ Len(results) + i \in DOMAIN (results \o new)
                                /\ (results \o new)[Len(results) + i] = new[i]
      BY <1>3, <1>4, Joined
    <3> QED BY <1>4, <2>1, <3>1
  <2>3. \A j \in DOMAIN results' : ~(j > Len(results) + 1)
    <3>1. DOMAIN results' = 1..(Len(results) + Len(new)) /\ Len(new) = 1 /\ Len(results) \in Nat
      BY <1>3, <1>4, <1>8, Joined, OneElement
    <3> QED BY <3>1
  <2> QED BY <1>8, <2>2, <2>3 DEF LastResult, ResultFor
<1>9. drafts \in [DraftChats -> Seq(Contents)] /\ messages \in [DraftChats -> {"none", "older", "newer"}]
  BY DEF DraftTypes
<1>10. drafts'[c] = <<>> => LastResult(c, {"remove"}, {"add"})' \/ (listed'[c] # "draft" /\ NoResult(c, {"add"})')
  <2> SUFFICES ASSUME drafts'[c] = <<>>
               PROVE  LastResult(c, {"remove"}, {"add"})' \/ (listed'[c] # "draft" /\ NoResult(c, {"add"})')
    OBVIOUS
  <2>1. CASE job.op = "remove" /\ job.chat = c
    BY <2>1, <1>5, <1>8
  <2>2. CASE ~(job.op = "remove" /\ job.chat = c)
    <3>1. ~(job.op = "add" /\ job.chat = c)
      <4> SUFFICES ASSUME job.op = "add", job.chat = c
                   PROVE  FALSE
        OBVIOUS
      <4>1. drafts'[c] = Append(drafts[c], job.content)
        BY <1>2, <1>9 DEF DraftsAfter
      <4>2. job.content \in Contents /\ drafts[c] \in Seq(Contents)
        BY <1>1, <1>9 DEF DraftJobs
      <4> QED BY <4>1, <4>2
    <3>2. drafts[c] = <<>>
      <4>1. CASE job.chat # c
        BY <4>1, <1>2, <1>9
      <4>2. CASE job.chat = c /\ job.op = "update"
        <5>1. drafts'[c] = [i \in DOMAIN drafts[c] |-> job.content]
          BY <4>2, <1>2, <1>9 DEF DraftsAfter
        <5>2. DOMAIN drafts[c] = {} /\ drafts[c] \in Seq(Contents)
          BY <5>1, <1>9, EmptyQueue
        <5>3. DOMAIN drafts[c] = 1..Len(drafts[c]) /\ Len(drafts[c]) \in Nat
          BY <1>9
        <5>4. Len(drafts[c]) = 0
          BY <5>2, <5>3
        <5> QED BY <5>2, <5>4
      <4>3. CASE job.chat = c /\ job.op # "update"
        BY <4>3, <2>2, <3>1, <1>2, <1>9 DEF DraftsAfter
      <4> QED BY <4>1, <4>2, <4>3
    <3>3. LastResult(c, {"remove"}, {"add"}) \/ (listed[c] # "draft" /\ NoResult(c, {"add"}))
      BY <3>2, <1>3 DEF WillList
    <3> QED BY <3>1, <3>3, <1>2, <1>7, <1>6
  <2> QED BY <2>1, <2>2
<1>11. drafts'[c] # <<>> /\ messages'[c] # "newer" =>
          \/ LastResult(c, {"add", "update"}, {"remove", "send", "receive"})'
          \/ listed'[c] \in {"draft", "draft as message"} /\ NoResult(c, {"remove", "send", "receive"})'
  <2> DEFINE undoing == {"remove", "send", "receive"}
  <2> SUFFICES ASSUME drafts'[c] # <<>>, messages'[c] # "newer"
               PROVE  \/ LastResult(c, {"add", "update"}, undoing)'
                      \/ listed'[c] \in {"draft", "draft as message"} /\ NoResult(c, undoing)'
    OBVIOUS
  <2>1. ~(job.op \in {"send", "receive"} /\ job.chat = c)
    BY <1>2, <1>9 DEF MessagesAfter
  <2>2. ~(job.op = "remove" /\ job.chat = c)
    BY <1>2, <1>9 DEF DraftsAfter
  <2>3. CASE job.op \in {"add", "update"} /\ job.chat = c /\ ~NoRow(job)
    <3>1. PICK r : new = <<r>> /\ r.op = job.op /\ r.chat = job.chat
      BY <2>3, <1>5
    <3>2. job.op \in {"add", "update"} /\ r.chat = c
      BY <2>3, <3>1
    <3>3. LastResult(c, {"add", "update"}, undoing)'
      BY <3>1, <3>2, <1>8
    <3> QED BY <3>3
  <2>4. CASE ~(job.op \in {"add", "update"} /\ job.chat = c /\ ~NoRow(job))
    <3>1. drafts[c] # <<>> /\ messages[c] # "newer"
      <4>1. CASE job.chat # c
        BY <4>1, <1>2, <1>9
      <4>2. CASE job.chat = c /\ NoRow(job)
        <5>1. drafts'[c] = [i \in DOMAIN <<>> |-> job.content] /\ drafts[c] = <<>>
          BY <4>2, <1>2, <1>9 DEF DraftsAfter, NoRow
        <5>2. [i \in {} |-> job.content] = <<>>
          OBVIOUS
        <5> QED BY <5>1, <5>2, EmptyQueue
      <4>3. CASE job.chat = c /\ ~NoRow(job)
        <5>1. job.op \in {"load", "correct"}
          BY <4>3, <2>1, <2>2, <2>4, <1>6
        <5>2. drafts'[c] = drafts[c]
          BY <4>3, <5>1, <1>2, <1>9 DEF DraftsAfter
        <5>3. messages'[c] = messages[c]
          BY <4>3, <5>1, <1>2, <1>9 DEF MessagesAfter
        <5> QED BY <5>2, <5>3
      <4> QED BY <4>1, <4>2, <4>3
    <3>2. \/ LastResult(c, {"add", "update"}, undoing)
          \/ listed[c] \in {"draft", "draft as message"} /\ NoResult(c, undoing)
      BY <3>1, <1>3 DEF WillList
    <3>3. job.op \notin undoing \/ (job.chat # c /\ job.op # "load")
      BY <2>1, <2>2, <1>6
    <3> QED BY <3>2, <3>3, <1>2, <1>7
  <2> QED BY <2>3, <2>4
<1> QED BY <1>10, <1>11 DEF WillList

LEMMA ListedHandle ==
    ASSUME DraftTypes, DraftsListedInv, HandleDraftResult
    PROVE  DraftsListedInv'
<1> DEFINE result == Head(results)
<1>1. /\ results # <<>> /\ results' = Tail(results)
      /\ UNCHANGED <<started, drafts, messages>>
  BY DEF HandleDraftResult
<1>2. result.op = "load" => UNCHANGED listed
  BY DEF HandleDraftResult
<1>3. result.op # "load" => listed' = [listed EXCEPT ![result.chat] = Listed(result, @)]
  BY DEF HandleDraftResult
<1>4. result \in DraftResults /\ result = results[1] /\ 1 \in DOMAIN results
  BY <1>1, FirstResult
<1>5. listed \in [DraftChats -> {"none", "draft", "draft as message", "message"}] /\ IsSequence(results)
  BY DEF DraftTypes
<1> HIDE DEF result
<1> SUFFICES ASSUME started, NEW c \in DraftChats
             PROVE  WillList(c)'
  BY <1>1 DEF DraftsListedInv
<1>6. WillList(c)
  BY DEF DraftsListedInv
<1>7. /\ Len(results) \in Nat \ {0} /\ DOMAIN results = 1..Len(results)
      /\ DOMAIN results' = 1..(Len(results) - 1)
      /\ \A i \in DOMAIN results' : i + 1 \in DOMAIN results /\ results'[i] = results[i + 1]
  BY <1>1, <1>5, TailOf
<1>8. ASSUME NEW ops, NoResult(c, ops)
      PROVE  NoResult(c, ops)' /\ ~(result.op \in ops /\ result.chat = c)
  BY <1>4, <1>7, <1>8 DEF NoResult, ResultFor
<1>9. ASSUME NEW ops, NEW undoing, LastResult(c, ops, undoing)
      PROVE  \/ LastResult(c, ops, undoing)'
             \/ result.op \in ops /\ result.chat = c /\ NoResult(c, undoing)'
  <2>1. PICK i \in DOMAIN results : ResultFor(i, ops, c)
                /\ \A j \in DOMAIN results : j > i => ~ResultFor(j, undoing, c)
    BY <1>9 DEF LastResult
  <2>2. CASE i = 1
    <3>1. result.op \in ops /\ result.chat = c
      BY <1>4, <2>1, <2>2 DEF ResultFor
    <3>2. ASSUME NEW j \in DOMAIN results'
          PROVE  ~ResultFor(j, undoing, c)'
      <4>1. j + 1 \in DOMAIN results /\ j + 1 > 1 /\ results'[j] = results[j + 1]
        BY <1>7
      <4> QED BY <2>1, <2>2, <4>1 DEF ResultFor
    <3> QED BY <3>1, <3>2 DEF NoResult
  <2>3. CASE i # 1
    <3>1. i - 1 \in DOMAIN results' /\ results'[i - 1] = results[i]
      BY <1>7, <2>3
    <3>2. ASSUME NEW j \in DOMAIN results', j > i - 1
          PROVE  ~ResultFor(j, undoing, c)'
      <4>1. j + 1 \in DOMAIN results /\ j + 1 > i /\ results'[j] = results[j + 1]
        BY <1>7, <3>2
      <4> QED BY <2>1, <4>1 DEF ResultFor
    <3> QED BY <2>1, <3>1, <3>2 DEF LastResult, ResultFor
  <2> QED BY <2>2, <2>3
<1>10. result.op = "load" \/ result.chat # c => listed'[c] = listed[c]
  BY <1>2, <1>3, <1>5
<1>11. result.op # "load" /\ result.chat = c => listed'[c] = Listed(result, listed[c])
  BY <1>3, <1>5
<1>12. result.op \in {"load", "add", "update", "remove", "send", "receive"}
       /\ (result.op = "remove" => result.last \in {"none", "message"})
  BY <1>4 DEF DraftResults
<1>13. drafts[c] = <<>> => LastResult(c, {"remove"}, {"add"})' \/ (listed'[c] # "draft" /\ NoResult(c, {"add"})')
  <2> SUFFICES ASSUME drafts[c] = <<>>
               PROVE  LastResult(c, {"remove"}, {"add"})' \/ (listed'[c] # "draft" /\ NoResult(c, {"add"})')
    OBVIOUS
  <2>1. CASE LastResult(c, {"remove"}, {"add"})
    <3>1. CASE LastResult(c, {"remove"}, {"add"})'
      BY <3>1
    <3>2. CASE result.op \in {"remove"} /\ result.chat = c /\ NoResult(c, {"add"})'
      <4>1. listed'[c] = result.last
        BY <3>2, <1>11 DEF Listed
      <4> QED BY <3>2, <4>1, <1>12
    <3> QED BY <2>1, <3>1, <3>2, <1>9
  <2>2. CASE listed[c] # "draft" /\ NoResult(c, {"add"})
    <3>1. NoResult(c, {"add"})' /\ ~(result.op = "add" /\ result.chat = c)
      BY <2>2, <1>8
    <3>2. listed'[c] # "draft"
      <4>1. CASE result.op = "load" \/ result.chat # c
        BY <4>1, <2>2, <1>10
      <4>2. CASE result.op # "load" /\ result.chat = c
        BY <4>2, <2>2, <3>1, <1>11, <1>12 DEF Listed
      <4> QED BY <4>1, <4>2
    <3> QED BY <3>1, <3>2
  <2> QED BY <2>1, <2>2, <1>6 DEF WillList
<1>14. drafts[c] # <<>> /\ messages[c] # "newer" =>
          \/ LastResult(c, {"add", "update"}, {"remove", "send", "receive"})'
          \/ listed'[c] \in {"draft", "draft as message"} /\ NoResult(c, {"remove", "send", "receive"})'
  <2> DEFINE undoing == {"remove", "send", "receive"}
  <2> SUFFICES ASSUME drafts[c] # <<>>, messages[c] # "newer"
               PROVE  \/ LastResult(c, {"add", "update"}, undoing)'
                      \/ listed'[c] \in {"draft", "draft as message"} /\ NoResult(c, undoing)'
    OBVIOUS
  <2>1. CASE LastResult(c, {"add", "update"}, undoing)
    <3>1. CASE LastResult(c, {"add", "update"}, undoing)'
      BY <3>1
    <3>2. CASE result.op \in {"add", "update"} /\ result.chat = c /\ NoResult(c, undoing)'
      <4>1. listed'[c] \in {"draft", "draft as message"}
        BY <3>2, <1>11, <1>5 DEF Listed
      <4> QED BY <3>2, <4>1
    <3> QED BY <2>1, <3>1, <3>2, <1>9
  <2>2. CASE listed[c] \in {"draft", "draft as message"} /\ NoResult(c, undoing)
    <3>1. NoResult(c, undoing)' /\ ~(result.op \in undoing /\ result.chat = c)
      BY <2>2, <1>8
    <3>2. listed'[c] \in {"draft", "draft as message"}
      <4>1. CASE result.op = "load" \/ result.chat # c
        BY <4>1, <2>2, <1>10
      <4>2. CASE result.op # "load" /\ result.chat = c
        BY <4>2, <2>2, <3>1, <1>11, <1>12 DEF Listed
      <4> QED BY <4>1, <4>2
    <3> QED BY <3>1, <3>2
  <2> QED BY <2>1, <2>2, <1>6 DEF WillList
<1> QED BY <1>1, <1>13, <1>14 DEF WillList

LEMMA ListedStartAgain ==
    ASSUME DraftTypes, StartAgain
    PROVE  DraftsListedInv'
<1>1. results' = <<>> /\ drafts' = drafts /\ messages' = messages
  BY DEF StartAgain, DraftTypes
<1>2. DOMAIN results' = {}
  BY <1>1, EmptyQueue
<1>3. \A c \in DraftChats : NoResult(c, {"add"})' /\ NoResult(c, {"remove", "send", "receive"})'
  BY <1>2 DEF NoResult
<1>4. \A c \in DraftChats : /\ drafts[c] = <<>> => listed'[c] # "draft"
                            /\ drafts[c] # <<>> /\ messages[c] # "newer" => listed'[c] = "draft"
  BY DEF StartAgain
<1> QED BY <1>1, <1>3, <1>4 DEF DraftsListedInv, WillList

\* Every step leads to a list that shows the stored drafts once its signals are handled.
LEMMA ListedNext ==
    ASSUME DraftTypes, DraftsListedInv, DraftsNext
    PROVE  DraftsListedInv'
<1>1. ASSUME NEW chat \in DraftChats, OpenChat(chat) \/ ReceiveMessage(chat)
      PROVE  DraftsListedInv'
  BY <1>1, ListedUnchanged DEF OpenChat, ReceiveMessage, draftVars
<1>2. CASE \/ \E text \in Typed(openChat) \cup {{}} : TypeText(text)
           \/ PrepareCorrection
  BY <1>2, ListedUnchanged DEF TypeText, PrepareCorrection, Compose
<1>3. CASE SendComposed \/ CancelCorrection \/ SetForward
  BY <1>3, ListedUnchanged DEF SendComposed, CancelCorrection, SetForward
<1>4. CASE RunDraftJob
  BY <1>4, ListedRun
<1>5. CASE HandleDraftResult
  BY <1>5, ListedHandle
<1>6. CASE QuitApplication
  BY <1>6 DEF QuitApplication, DraftsListedInv
<1>7. CASE StartAgain
  BY <1>7, ListedStartAgain
<1> QED BY <1>1, <1>2, <1>3, <1>4, <1>5, <1>6, <1>7 DEF DraftsNext

LEMMA DraftsListedFrom == DraftTypes /\ DraftsListedInv => DraftsListed
<1> SUFFICES ASSUME DraftTypes, DraftsListedInv, DraftsSettled, NEW c \in DraftChats
             PROVE  /\ listed[c] = "draft" => drafts[c] # <<>>
                    /\ drafts[c] # <<>> /\ messages[c] # "newer" =>
                         listed[c] \in {"draft", "draft as message"}
  BY DEF DraftsListed
<1>1. DOMAIN results = {} /\ WillList(c)
  BY EmptyQueue DEF DraftsSettled, DraftsListedInv
<1> QED BY <1>1 DEF WillList, LastResult

-----------------------------------------------------------------------------
(* What was written.                                                       *)

Owned(c, text) == \A piece \in text : piece = Forwarded \/ piece[1] = c
Drafted(c) == {x \in Contents : x.text # {} /\ Owned(c, x.text)}
DraftRows(c) == {<<>>} \cup {<<x>> : x \in Drafted(c)}
DraftTables == {h \in [DraftChats -> Seq(Contents)] : \A c \in DraftChats : h[c] \in DraftRows(c)}
Expected(content) == IF content = NothingWritten THEN <<>> ELSE <<content>>

\* The queued jobs change the stored drafts to those of the table, of which a queued load sees the
\* row of its chat.
DraftsApplied(job, table) == [table EXCEPT ![job.chat] = DraftsAfter(job, @)]
DraftsLead(queue, from, to) ==
    \E h \in [1..(Len(queue) + 1) -> DraftTables] :
        /\ h[1] = from /\ h[Len(queue) + 1] = to
        /\ \A i \in DOMAIN queue :
              /\ h[i + 1] = DraftsApplied(queue[i], h[i])
              /\ queue[i].op = "load" => h[i][queue[i].chat] = to[queue[i].chat]

OneLoad ==
    /\ \A i, j \in DOMAIN jobs : jobs[i].op = "load" /\ jobs[j].op = "load" => i = j
    /\ \A i, j \in DOMAIN results : results[i].op = "load" /\ results[j].op = "load" => i = j
    /\ \A i \in DOMAIN jobs, j \in DOMAIN results : ~(jobs[i].op = "load" /\ results[j].op = "load")
    /\ \A i \in DOMAIN jobs : jobs[i].op = "load" => started /\ jobs[i].chat = openChat

\* The composition of the open chat, which has the row while nothing is loaded and gets it otherwise
ComposedFrom(row) ==
    IF DraftLoading
    THEN \E base \in Contents :
            /\ row = Expected(base)
            /\ wrote[openChat] = IF toForward THEN [base EXCEPT !.text = @ \cup {Forwarded}] ELSE base
            /\ ~composed.isDraft /\ ~composed.replaces /\ ~composed.isForwarding
            /\ toForward => composed.text = {}
    ELSE Content(composed) = wrote[openChat] /\ Len(row) = IF composed.isDraft THEN 1 ELSE 0

FinalDrafts(table) ==
    /\ \A c \in DraftChats \ {openChat} : table[c] = Expected(wrote[c])
    /\ openChat # NoChat => ComposedFrom(table[openChat])
    /\ \A i \in DOMAIN results : results[i].op = "load" => results[i].draft = table[openChat]

KeptInv ==
    ~astray =>
        /\ \A c \in DraftChats : Owned(c, wrote[c].text)
        /\ \A i \in DOMAIN jobs : Owned(jobs[i].chat, jobs[i].content.text)
        /\ OneLoad
        /\ \E table \in DraftTables : DraftsLead(jobs, drafts, table) /\ FinalDrafts(table)

LEMMA DraftsLeadNowhere ==
    ASSUME NEW t \in DraftTables
    PROVE  DraftsLead(<<>>, t, t)
<1> DEFINE h == [i \in 1..(Len(<<>>) + 1) |-> t]
<1>1. Len(<<>>) = 0 /\ DOMAIN <<>> = {}
  BY EmptyQueue
<1>2. h \in [1..(Len(<<>>) + 1) -> DraftTables] /\ h[1] = t /\ h[Len(<<>>) + 1] = t
  BY <1>1
<1> HIDE DEF h
<1> QED BY <1>1, <1>2 DEF DraftsLead

LEMMA DraftsLeadEmpty ==
    ASSUME NEW t, NEW d, DraftsLead(<<>>, t, d)
    PROVE  t = d
BY EmptyQueue DEF DraftsLead

LEMMA DraftsLeadFrom ==
    ASSUME NEW q, IsSequence(q), NEW t, NEW d, DraftsLead(q, t, d)
    PROVE  t \in DraftTables /\ d \in DraftTables
<1>1. Len(q) \in Nat
  BY EmptyQueue, TailOf
<1>2. PICK h \in [1..(Len(q) + 1) -> DraftTables] : h[1] = t /\ h[Len(q) + 1] = d
  BY DEF DraftsLead
<1> QED BY <1>1, <1>2

\* One more job at the end
LEMMA DraftsLeadAppend ==
    ASSUME NEW q, IsSequence(q), NEW t, NEW d, DraftsLead(q, t, d), NEW job,
           DraftsApplied(job, d) \in DraftTables,
           \A i \in DOMAIN q : q[i].op = "load" => DraftsApplied(job, d)[q[i].chat] = d[q[i].chat],
           job.op = "load" => DraftsApplied(job, d) = d
    PROVE  DraftsLead(Append(q, job), t, DraftsApplied(job, d))
<1> DEFINE e == DraftsApplied(job, d)
<1> DEFINE n == Len(q)
<1> DEFINE p == Append(q, job)
<1>1. PICK h \in [1..(n + 1) -> DraftTables] :
        /\ h[1] = t /\ h[n + 1] = d
        /\ \A i \in DOMAIN q :
              /\ h[i + 1] = DraftsApplied(q[i], h[i])
              /\ q[i].op = "load" => h[i][q[i].chat] = d[q[i].chat]
  BY DEF DraftsLead
<1>2. /\ Len(p) = n + 1 /\ n \in Nat /\ DOMAIN q = 1..n /\ DOMAIN p = 1..(n + 1)
      /\ p[n + 1] = job /\ \A i \in DOMAIN q : p[i] = q[i]
  BY AppendOf
<1> HIDE DEF p, n
<1> DEFINE g == [i \in 1..(n + 2) |-> IF i <= n + 1 THEN h[i] ELSE e]
<1>3. g \in [1..(n + 2) -> DraftTables] /\ g[1] = t /\ g[n + 2] = e
  BY <1>1, <1>2
<1>4. ASSUME NEW i \in DOMAIN p
      PROVE  /\ g[i + 1] = DraftsApplied(p[i], g[i])
             /\ p[i].op = "load" => g[i][p[i].chat] = e[p[i].chat]
  <2>1. CASE i \in DOMAIN q
    <3>1. g[i] = h[i] /\ g[i + 1] = h[i + 1] /\ p[i] = q[i]
      BY <1>2, <2>1
    <3>2. q[i].op = "load" => e[q[i].chat] = d[q[i].chat]
      BY <2>1
    <3> QED BY <1>1, <2>1, <3>1, <3>2
  <2>2. CASE i = n + 1
    <3>1. g[i] = d /\ g[i + 1] = e /\ p[i] = job
      BY <1>1, <1>2, <2>2
    <3>2. p[i].op = "load" => e = d
      BY <3>1
    <3>3. e = DraftsApplied(job, d)
      OBVIOUS
    <3> HIDE DEF e, g
    <3> QED BY <3>1, <3>2, <3>3
  <2> QED BY <1>2, <2>1, <2>2
<1> HIDE DEF g, e
<1>5. Len(p) + 1 = n + 2
  BY <1>2
<1>6. DraftsLead(p, t, e)
  BY <1>3, <1>4, <1>5 DEF DraftsLead
<1> QED BY <1>6 DEF e, p

\* The first job is run.
LEMMA DraftsLeadTail ==
    ASSUME NEW q, IsSequence(q), q # <<>>, NEW t, NEW d, DraftsLead(q, t, d)
    PROVE  /\ DraftsLead(Tail(q), DraftsApplied(Head(q), t), d)
           /\ Head(q).op = "load" => t[Head(q).chat] = d[Head(q).chat]
<1> DEFINE n == Len(q)
<1> DEFINE p == Tail(q)
<1>1. PICK h \in [1..(n + 1) -> DraftTables] :
        /\ h[1] = t /\ h[n + 1] = d
        /\ \A i \in DOMAIN q :
              /\ h[i + 1] = DraftsApplied(q[i], h[i])
              /\ q[i].op = "load" => h[i][q[i].chat] = d[q[i].chat]
  BY DEF DraftsLead
<1>2. /\ n \in Nat \ {0} /\ DOMAIN q = 1..n /\ Len(p) = n - 1 /\ DOMAIN p = 1..(n - 1)
      /\ Head(q) = q[1] /\ 1 \in DOMAIN q /\ \A i \in DOMAIN p : i + 1 \in DOMAIN q /\ p[i] = q[i + 1]
  BY TailOf
<1> HIDE DEF p, n
<1> DEFINE g == [i \in 1..n |-> h[i + 1]]
<1>3. g \in [1..n -> DraftTables] /\ g[1] = h[2] /\ g[n] = d
  BY <1>1, <1>2
<1>4. h[2] = DraftsApplied(Head(q), t) /\ (Head(q).op = "load" => t[Head(q).chat] = d[Head(q).chat])
  BY <1>1, <1>2
<1>5. ASSUME NEW i \in DOMAIN p
      PROVE  /\ g[i + 1] = DraftsApplied(p[i], g[i])
             /\ p[i].op = "load" => g[i][p[i].chat] = d[p[i].chat]
  <2>1. g[i] = h[i + 1] /\ g[i + 1] = h[(i + 1) + 1] /\ p[i] = q[i + 1] /\ i + 1 \in DOMAIN q
    BY <1>2
  <2> HIDE DEF g
  <2> QED BY <1>1, <2>1
<1> HIDE DEF g
<1>6. Len(p) + 1 = n
  BY <1>2
<1>7. DraftsLead(p, DraftsApplied(Head(q), t), d)
  BY <1>3, <1>4, <1>5, <1>6 DEF DraftsLead
<1> QED BY <1>4, <1>7 DEF p

LEMMA KeptInit == DraftsInit /\ jobs = <<>> /\ results = <<>> => KeptInv
<1> SUFFICES ASSUME DraftsInit, jobs = <<>>, results = <<>>
             PROVE  KeptInv
  OBVIOUS
<1>1. DOMAIN jobs = {} /\ DOMAIN results = {}
  BY EmptyQueue
<1>2. drafts \in DraftTables
  BY DEF DraftsInit, DraftTables, DraftRows
<1>3. DraftsLead(jobs, drafts, drafts)
  BY <1>2, DraftsLeadNowhere
<1>4. FinalDrafts(drafts)
  BY <1>1 DEF FinalDrafts, DraftsInit, Expected
<1>5. OneLoad
  BY <1>1 DEF OneLoad
<1>6. \A c \in DraftChats : Owned(c, wrote[c].text)
  BY DEF DraftsInit, NothingWritten, Owned
<1> QED BY <1>1, <1>2, <1>3, <1>4, <1>5, <1>6 DEF KeptInv

LEMMA AppliedTable ==
    ASSUME NEW d \in DraftTables, NEW job, job.chat \in DraftChats,
           DraftsAfter(job, d[job.chat]) \in DraftRows(job.chat)
    PROVE  /\ DraftsApplied(job, d) \in DraftTables
           /\ DraftsApplied(job, d)[job.chat] = DraftsAfter(job, d[job.chat])
           /\ \A c \in DraftChats : c # job.chat => DraftsApplied(job, d)[c] = d[c]
<1>1. DraftsAfter(job, d[job.chat]) \in Seq(Contents)
  <2>1. <<>> \in Seq(Contents) /\ \A x \in Contents : <<x>> \in Seq(Contents)
    OBVIOUS
  <2> QED BY <2>1 DEF DraftRows, Drafted
<1> QED BY <1>1 DEF DraftTables, DraftsApplied

\* A job that changes no draft
LEMMA AppliedNothing ==
    ASSUME NEW d \in DraftTables, NEW job, job.chat \in DraftChats,
           job.op \in {"load", "send", "correct", "receive"}
    PROVE  DraftsApplied(job, d) = d
<1>1. DraftsAfter(job, d[job.chat]) = d[job.chat]
  BY DEF DraftsAfter
<1> QED BY <1>1 DEF DraftTables, DraftsApplied

LEMMA ShortRows ==
    ASSUME NEW d \in DraftTables, NEW c \in DraftChats
    PROVE  /\ Len(d[c]) = 0 => d[c] = <<>>
           /\ Len(d[c]) = 1 => \E x \in Drafted(c) : d[c] = <<x>>
           /\ Len(d[c]) \in {0, 1}
           /\ d[c] = <<>> \/ \E x \in Drafted(c) : d[c] = <<x>>
<1>1. d[c] = <<>> \/ \E x \in Drafted(c) : d[c] = <<x>>
  BY DEF DraftTables, DraftRows
<1>2. Len(<<>>) = 0 /\ \A x : Len(<<x>>) = 1
  BY EmptyQueue, OneElement
<1>3. CASE d[c] = <<>>
  BY <1>2, <1>3
<1>4. ASSUME NEW x \in Drafted(c), d[c] = <<x>>
      PROVE  Len(d[c]) = 1
  BY <1>2, <1>4
<1> QED BY <1>1, <1>2, <1>3, <1>4

\* A saved draft is what was written in the chat.
LEMMA SavedLeads ==
    ASSUME DraftTypes, KeptInv, ~astray, ~DraftLoading
    PROVE  /\ \E table \in DraftTables :
                 /\ DraftsLead(jobs \o SavedDraft, drafts, table)
                 /\ \A c \in DraftChats : table[c] = Expected(Left[c])
           /\ \A c \in DraftChats : Owned(c, Left[c].text)
           /\ \A i \in DOMAIN (jobs \o SavedDraft) :
                 Owned((jobs \o SavedDraft)[i].chat, (jobs \o SavedDraft)[i].content.text)
<1>1. PICK table \in DraftTables : DraftsLead(jobs, drafts, table) /\ FinalDrafts(table)
  BY DEF KeptInv
<1>2. /\ \A c \in DraftChats \ {openChat} : table[c] = Expected(wrote[c])
      /\ openChat # NoChat => /\ Content(composed) = wrote[openChat]
                              /\ Len(table[openChat]) = IF composed.isDraft THEN 1 ELSE 0
  BY <1>1 DEF FinalDrafts, ComposedFrom
<1>3. IsSequence(jobs) /\ wrote \in [DraftChats -> Contents] /\ openChat \in DraftChats \cup {NoChat}
  BY DEF DraftTypes
<1>4. \A i \in DOMAIN jobs : jobs[i].op # "load"
  BY LoadingWhere
<1>5. \A i \in DOMAIN jobs : Owned(jobs[i].chat, jobs[i].content.text)
  BY DEF KeptInv
<1>6. \A c \in DraftChats : Owned(c, Left[c].text)
  <2>1. \A c \in DraftChats : Owned(c, wrote[c].text)
    BY DEF KeptInv
  <2>2. \A c \in DraftChats : Left[c] = wrote[c] \/ Left[c] = NothingWritten
    BY <1>3 DEF Left
  <2> QED BY <2>1, <2>2 DEF Owned, NothingWritten
\* One job on the row of the open chat
<1>7. ASSUME NEW job, SavedDraft = <<job>>, openChat # NoChat, job.chat = openChat, job.op # "load",
             DraftsAfter(job, table[openChat]) \in DraftRows(openChat),
             DraftsAfter(job, table[openChat]) = Expected(Left[openChat]),
             \A c \in DraftChats \ {openChat} : Left[c] = wrote[c],
             Owned(openChat, job.content.text)
      PROVE  /\ \E t \in DraftTables :
                   /\ DraftsLead(jobs \o SavedDraft, drafts, t)
                   /\ \A c \in DraftChats : t[c] = Expected(Left[c])
             /\ \A i \in DOMAIN (jobs \o SavedDraft) :
                   Owned((jobs \o SavedDraft)[i].chat, (jobs \o SavedDraft)[i].content.text)
  <2> DEFINE t == DraftsApplied(job, table)
  <2>1. jobs \o SavedDraft = Append(jobs, job)
    BY <1>3, <1>7, JoinedOne
  <2>2. openChat \in DraftChats
    BY <1>3, <1>7
  <2>3. /\ t \in DraftTables /\ t[openChat] = DraftsAfter(job, table[openChat])
        /\ \A c \in DraftChats : c # openChat => t[c] = table[c]
    BY <1>7, <2>2, AppliedTable
  <2>4. DraftsLead(Append(jobs, job), drafts, t)
    BY <1>1, <1>3, <1>4, <1>7, <2>3, DraftsLeadAppend
  <2>5. \A c \in DraftChats : t[c] = Expected(Left[c])
    BY <1>2, <1>7, <2>2, <2>3
  <2>6. \A i \in DOMAIN (jobs \o SavedDraft) :
                   Owned((jobs \o SavedDraft)[i].chat, (jobs \o SavedDraft)[i].content.text)
    BY <1>3, <1>5, <1>7, <2>1, AppendOf
  <2> HIDE DEF t
  <2> QED BY <2>1, <2>3, <2>4, <2>5, <2>6
<1>8. CASE openChat = NoChat
  <2>1. jobs \o SavedDraft = jobs /\ Left = wrote
    BY <1>3, <1>8, JoinedOne DEF SavedDraft, Left
  <2>2. \A c \in DraftChats : c # openChat
    BY <1>8, DraftsAssumption
  <2>3. \A c \in DraftChats : table[c] = Expected(Left[c])
    BY <1>2, <2>1, <2>2
  <2> QED BY <1>1, <1>5, <1>6, <2>1, <2>3
<1>9. CASE openChat # NoChat /\ composed.text = {} /\ ~composed.isDraft
  <2>1. jobs \o SavedDraft = jobs /\ Left = [wrote EXCEPT ![openChat] = NothingWritten]
    BY <1>3, <1>9, JoinedOne DEF SavedDraft, Left
  <2>2. table[openChat] = <<>>
    BY <1>2, <1>3, <1>9, ShortRows
  <2>3. \A c \in DraftChats : table[c] = Expected(Left[c])
    BY <1>2, <1>3, <2>1, <2>2 DEF Expected
  <2> QED BY <1>1, <1>5, <1>6, <2>1, <2>3
<1>10. CASE openChat # NoChat /\ composed.text = {} /\ composed.isDraft
  <2> DEFINE job == DraftJob("remove", openChat)
  <2>1. SavedDraft = <<job>> /\ Left = [wrote EXCEPT ![openChat] = NothingWritten]
    BY <1>10 DEF SavedDraft, Left
  <2>2. job.chat = openChat /\ job.op = "remove" /\ job.content.text = {}
    BY DEF DraftJob, NothingWritten
  <2>3. DraftsAfter(job, table[openChat]) = <<>>
    BY <2>2 DEF DraftsAfter
  <2>4. Left[openChat] = NothingWritten /\ \A c \in DraftChats \ {openChat} : Left[c] = wrote[c]
    BY <1>3, <1>10, <2>1
  <2> HIDE DEF job
  <2> QED BY <1>6, <1>7, <1>10, <2>1, <2>2, <2>3, <2>4 DEF Expected, DraftRows, Owned
<1>11. CASE openChat # NoChat /\ composed.text # {}
  <2> DEFINE job == [op |-> IF composed.isDraft THEN "update" ELSE "add", chat |-> openChat,
                     content |-> Content(composed)]
  <2>1. SavedDraft = <<job>> /\ Left = wrote
    BY <1>11 DEF SavedDraft, Left
  <2>2. /\ job.chat = openChat /\ job.op = IF composed.isDraft THEN "update" ELSE "add"
        /\ job.content = wrote[openChat]
    BY <1>2, <1>11
  <2> HIDE DEF job
  <2>3. openChat \in DraftChats /\ Owned(openChat, wrote[openChat].text)
    BY <1>3, <1>11 DEF KeptInv
  <2>4. wrote[openChat] \in Drafted(openChat)
    <3>1. wrote[openChat].text # {}
      BY <1>2, <1>11 DEF Content
    <3> QED BY <1>3, <2>3, <3>1 DEF Drafted
  <2>5. DraftsAfter(job, table[openChat]) = <<wrote[openChat]>>
    <3>1. CASE composed.isDraft
      <4>1. PICK x : table[openChat] = <<x>>
        BY <1>2, <1>11, <2>3, <3>1, ShortRows
      <4>2. DOMAIN <<x>> = {1}
        BY OneElement
      <4>3. DraftsAfter(job, table[openChat]) = [i \in {1} |-> wrote[openChat]]
        BY <2>2, <3>1, <4>1, <4>2 DEF DraftsAfter
      <4>4. [i \in {1} |-> wrote[openChat]] = <<wrote[openChat]>>
        OBVIOUS
      <4> QED BY <4>3, <4>4
    <3>2. CASE ~composed.isDraft
      <4>1. table[openChat] = <<>>
        BY <1>2, <1>11, <2>3, <3>2, ShortRows
      <4>2. DraftsAfter(job, table[openChat]) = Append(<<>>, wrote[openChat])
        BY <2>2, <3>2, <4>1 DEF DraftsAfter
      <4>3. Append(<<>>, wrote[openChat]) = <<wrote[openChat]>>
        OBVIOUS
      <4> QED BY <4>2, <4>3
    <3> QED BY <3>1, <3>2
  <2>6. Expected(Left[openChat]) = <<wrote[openChat]>>
    BY <2>1, <2>4 DEF Expected, NothingWritten, Drafted
  <2>7. DraftsAfter(job, table[openChat]) \in DraftRows(openChat)
    BY <2>4, <2>5 DEF DraftRows
  <2> QED BY <1>6, <1>7, <1>11, <2>1, <2>2, <2>3, <2>5, <2>6, <2>7
<1> QED BY <1>3, <1>8, <1>9, <1>10, <1>11

\* A job that changes no draft is queued: what it leads to stays.
LEMMA DraftsLeadMore ==
    ASSUME NEW q, IsSequence(q), NEW d \in DraftTables, DraftsLead(q, drafts, d), NEW job, job.chat \in DraftChats,
           job.op \in {"load", "send", "correct", "receive"}
    PROVE  DraftsLead(Append(q, job), drafts, d)
<1>1. DraftsApplied(job, d) = d
  BY AppliedNothing
<1> QED BY <1>1, DraftsLeadAppend

LEMMA KeptOpenChat ==
    ASSUME DraftTypes, KeptInv, NEW chat \in DraftChats, OpenChat(chat)
    PROVE  KeptInv'
<1> SUFFICES ASSUME ~astray'
             PROVE  KeptInv'
  BY DEF KeptInv
<1>1. /\ ~astray /\ ~DraftLoading /\ (toForward => composed.text = {})
      /\ started /\ chat # openChat /\ openChat' = chat
      /\ jobs' = jobs \o SavedDraft \o <<DraftJob("load", chat)>>
      /\ composed' = [Cleared EXCEPT !.text = composed.text]
      /\ wrote' = IF toForward THEN [Left EXCEPT ![chat].text = @ \cup {Forwarded}] ELSE Left
      /\ UNCHANGED <<started, toForward, drafts, results>>
  BY DEF OpenChat
<1> DEFINE q == jobs \o SavedDraft
<1> DEFINE job == DraftJob("load", chat)
<1>2. /\ \A c \in DraftChats : Owned(c, Left[c].text)
      /\ \A i \in DOMAIN q : Owned(q[i].chat, q[i].content.text)
  BY <1>1, SavedLeads
<1>3. PICK table \in DraftTables : DraftsLead(q, drafts, table) /\ \A c \in DraftChats : table[c] = Expected(Left[c])
  BY <1>1, SavedLeads
<1>4. IsSequence(jobs) /\ IsSequence(SavedDraft) /\ \A i \in DOMAIN SavedDraft : SavedDraft[i].op # "load"
  BY SavedTyped DEF DraftTypes
<1>5. \A i \in DOMAIN jobs : jobs[i].op # "load"
  BY <1>1, LoadingWhere
<1>6. \A i \in DOMAIN results : results[i].op # "load"
  BY <1>1, LoadingWhere
<1>7. IsSequence(q) /\ \A i \in DOMAIN q : q[i].op # "load"
  BY <1>4, <1>5, Joined
<1>8. job.op = "load" /\ job.chat = chat /\ job.content.text = {}
  BY DEF DraftJob, NothingWritten
<1>9. jobs' = Append(q, job)
  BY <1>1, <1>7, JoinedOne
<1> HIDE DEF q, job
<1>10. /\ DOMAIN jobs' = 1..(Len(q) + 1) /\ Len(q) + 1 \in DOMAIN jobs' /\ jobs'[Len(q) + 1] = job
       /\ \A i \in DOMAIN jobs' : \/ i \in DOMAIN q /\ jobs'[i] = q[i]
                                  \/ i = Len(q) + 1 /\ jobs'[i] = job
  BY <1>7, <1>9, AppendOf
<1>11. OneLoad'
  <2>1. \A i \in DOMAIN jobs' : jobs'[i].op = "load" => i = Len(q) + 1 /\ jobs'[i] = job
    BY <1>7, <1>10
  <2> QED BY <1>1, <1>6, <1>8, <2>1 DEF OneLoad
<1>12. DraftLoading'
  BY <1>8, <1>10 DEF DraftLoading, ToSet
<1>13. \A i \in DOMAIN jobs' : Owned(jobs'[i].chat, jobs'[i].content.text)
  BY <1>2, <1>8, <1>10 DEF Owned
<1>14. Left \in [DraftChats -> Contents] /\ openChat \in DraftChats \cup {NoChat}
  BY LeftTyped DEF DraftTypes
<1>15. \A c \in DraftChats : Owned(c, wrote'[c].text)
  <2>1. \A c \in DraftChats : wrote'[c].text = Left[c].text \/ wrote'[c].text = Left[c].text \cup {Forwarded}
    BY <1>1, <1>14 DEF Contents
  <2> QED BY <1>2, <2>1 DEF Owned
<1>16. DraftsLead(jobs', drafts', table)
  <2>1. DraftsLead(Append(q, job), drafts, table)
    BY <1>3, <1>7, <1>8, DraftsLeadMore
  <2> QED BY <1>1, <1>9, <2>1
<1>17. ComposedFrom(table[chat])'
  <2>1. Left[chat] \in Contents /\ table[chat] = Expected(Left[chat])
    BY <1>3, <1>14
  <2>2. wrote'[chat] = IF toForward THEN [Left[chat] EXCEPT !.text = @ \cup {Forwarded}] ELSE Left[chat]
    BY <1>1, <1>14
  <2>3. /\ ~composed'.isDraft /\ ~composed'.replaces /\ ~composed'.isForwarding
        /\ composed'.text = composed.text
    BY <1>1 DEF Cleared
  <2> QED BY <1>1, <1>12, <2>1, <2>2, <2>3 DEF ComposedFrom
<1>18. FinalDrafts(table)'
  <2>1. \A c \in DraftChats \ {chat} : wrote'[c] = Left[c]
    BY <1>1, <1>14
  <2> QED BY <1>1, <1>3, <1>6, <1>17, <2>1 DEF FinalDrafts
<1> QED BY <1>11, <1>13, <1>15, <1>16, <1>18 DEF KeptInv

LEMMA KeptQuit ==
    ASSUME DraftTypes, KeptInv, QuitApplication
    PROVE  KeptInv'
<1> SUFFICES ASSUME ~astray'
             PROVE  KeptInv'
  BY DEF KeptInv
<1>1. /\ ~astray /\ ~DraftLoading /\ started' = FALSE /\ jobs' = jobs \o SavedDraft
      /\ results' = <<>> /\ openChat' = NoChat /\ wrote' = Left /\ drafts' = drafts
  BY DEF QuitApplication
<1>2. /\ \A c \in DraftChats : Owned(c, wrote'[c].text)
      /\ \A i \in DOMAIN jobs' : Owned(jobs'[i].chat, jobs'[i].content.text)
      /\ \E table \in DraftTables : /\ DraftsLead(jobs', drafts', table)
                                    /\ \A c \in DraftChats : table[c] = Expected(wrote'[c])
  BY <1>1, SavedLeads
<1>3. \A i \in DOMAIN jobs' : jobs'[i].op # "load"
  <2>1. IsSequence(jobs) /\ IsSequence(SavedDraft) /\ \A i \in DOMAIN SavedDraft : SavedDraft[i].op # "load"
    BY SavedTyped DEF DraftTypes
  <2>2. \A i \in DOMAIN jobs : jobs[i].op # "load"
    BY <1>1, LoadingWhere
  <2> QED BY <1>1, <2>1, <2>2, Joined
<1>4. DOMAIN results' = {}
  BY <1>1, EmptyQueue
<1>5. OneLoad'
  BY <1>3, <1>4 DEF OneLoad
<1> QED BY <1>1, <1>2, <1>4, <1>5 DEF KeptInv, FinalDrafts

LEMMA KeptStartAgain ==
    ASSUME DraftTypes, KeptInv, StartAgain
    PROVE  KeptInv'
<1> SUFFICES ASSUME ~astray'
             PROVE  KeptInv'
  BY DEF KeptInv
<1>1. /\ ~astray /\ started' = TRUE /\ jobs' = <<>> /\ results' = <<>> /\ openChat' = NoChat
      /\ openChat = NoChat /\ drafts' = drafts
      /\ wrote' = IF jobs = <<>> THEN wrote
                  ELSE [c \in DraftChats |-> IF drafts[c] = <<>> THEN NothingWritten ELSE Head(drafts[c])]
  BY DEF StartAgain, DraftTypes
<1>2. PICK table \in DraftTables : DraftsLead(jobs, drafts, table) /\ FinalDrafts(table)
  BY <1>1 DEF KeptInv
<1>3. drafts \in DraftTables
  BY <1>2, DraftsLeadFrom DEF DraftTypes
<1>4. DOMAIN jobs' = {} /\ DOMAIN results' = {}
  BY <1>1, EmptyQueue
<1>5. \A c \in DraftChats : Owned(c, wrote'[c].text) /\ drafts[c] = Expected(wrote'[c])
  <2>1. CASE jobs = <<>>
    <3>1. drafts = table
      BY <1>2, <2>1, DraftsLeadEmpty
    <3>2. \A c \in DraftChats : c # openChat
      BY <1>1, DraftsAssumption
    <3> QED BY <1>1, <1>2, <2>1, <3>1, <3>2 DEF FinalDrafts, KeptInv
  <2>2. CASE jobs # <<>>
    <3> SUFFICES ASSUME NEW c \in DraftChats
                 PROVE  Owned(c, wrote'[c].text) /\ drafts[c] = Expected(wrote'[c])
      OBVIOUS
    <3>1. CASE drafts[c] = <<>>
      BY <1>1, <2>2, <3>1 DEF Expected, Owned, NothingWritten
    <3>2. CASE drafts[c] # <<>>
      <4>1. PICK x \in Drafted(c) : drafts[c] = <<x>>
        BY <1>3, <3>2, ShortRows
      <4>2. Head(<<x>>) = x
        OBVIOUS
      <4>3. wrote'[c] = x
        BY <1>1, <2>2, <3>2, <4>1, <4>2
      <4> QED BY <4>1, <4>3 DEF Drafted, Expected, NothingWritten
    <3> QED BY <3>1, <3>2
  <2> QED BY <2>1, <2>2
<1>6. PICK now \in DraftTables : now = drafts
  BY <1>3
<1>7. DraftsLead(jobs', drafts', now)
  BY <1>1, <1>6, DraftsLeadNowhere
<1>8. OneLoad'
  BY <1>4 DEF OneLoad
<1>9. FinalDrafts(now)'
  BY <1>1, <1>4, <1>5, <1>6 DEF FinalDrafts
<1> QED BY <1>1, <1>4, <1>5, <1>6, <1>7, <1>8, <1>9 DEF KeptInv

LEMMA KeptReceive ==
    ASSUME DraftTypes, KeptInv, NEW chat \in DraftChats, ReceiveMessage(chat)
    PROVE  KeptInv'
<1> DEFINE job == DraftJob("receive", chat)
<1>1. /\ jobs' = Append(jobs, job) /\ job.op = "receive" /\ job.chat = chat /\ job.content.text = {}
      /\ UNCHANGED <<started, openChat, composed, toForward, drafts, wrote, astray, results>>
  BY DEF ReceiveMessage, DraftJob, NothingWritten, draftVars
<1> HIDE DEF job
<1> SUFFICES ASSUME ~astray
             PROVE  KeptInv'
  BY <1>1 DEF KeptInv
<1>2. IsSequence(jobs)
  BY DEF DraftTypes
<1>3. /\ \A i \in DOMAIN jobs : i \in DOMAIN jobs' /\ jobs'[i] = jobs[i]
      /\ \A i \in DOMAIN jobs' : (i \in DOMAIN jobs /\ jobs'[i] = jobs[i]) \/ jobs'[i] = job
  BY <1>1, <1>2, AppendOf
<1>4. PICK table \in DraftTables : DraftsLead(jobs, drafts, table) /\ FinalDrafts(table)
  BY DEF KeptInv
<1>5. DraftsLead(jobs', drafts', table)
  <2>1. DraftsLead(Append(jobs, job), drafts, table)
    BY <1>1, <1>2, <1>4, DraftsLeadMore
  <2> QED BY <1>1, <2>1
<1>6. DraftLoading' <=> DraftLoading
  BY <1>1, <1>3 DEF DraftLoading, ToSet
<1>7. FinalDrafts(table)'
  <2>1. openChat # NoChat => ComposedFrom(table[openChat])'
    BY <1>1, <1>4, <1>6 DEF FinalDrafts, ComposedFrom
  <2> QED BY <1>1, <1>4, <2>1 DEF FinalDrafts
<1>8. \A i \in DOMAIN jobs' : jobs'[i].op = "load" => i \in DOMAIN jobs /\ jobs'[i] = jobs[i]
  BY <1>1, <1>3
<1>9. OneLoad'
  BY <1>1, <1>8 DEF OneLoad, KeptInv
<1>10. \A i \in DOMAIN jobs' : Owned(jobs'[i].chat, jobs'[i].content.text)
  BY <1>1, <1>3 DEF KeptInv, Owned
<1> QED BY <1>1, <1>5, <1>7, <1>9, <1>10 DEF KeptInv

\* While no draft is loaded, a change of what is composed and of what is queued for the open chat
LEMMA KeptWriting ==
    ASSUME DraftTypes, KeptInv, ~astray, ~DraftLoading, openChat \in DraftChats,
           UNCHANGED <<started, openChat, drafts, results>>,
           IsSequence(jobs'), \A i \in DOMAIN jobs' : jobs'[i].op # "load",
           \A i \in DOMAIN jobs' : Owned(jobs'[i].chat, jobs'[i].content.text),
           wrote' \in [DraftChats -> Contents], \A c \in DraftChats \ {openChat} : wrote'[c] = wrote[c],
           Owned(openChat, wrote'[openChat].text), Content(composed') = wrote'[openChat],
           NEW table \in DraftTables, DraftsLead(jobs', drafts, table),
           \A c \in DraftChats \ {openChat} : table[c] = Expected(wrote[c]),
           Len(table[openChat]) = IF composed'.isDraft THEN 1 ELSE 0
    PROVE  KeptInv'
<1>1. \A i \in DOMAIN results : results[i].op # "load"
  BY LoadingWhere
<1>2. ~DraftLoading'
  BY <1>1 DEF DraftLoading, ToSet
<1>3. OneLoad'
  BY <1>1 DEF OneLoad
<1>4. \A c \in DraftChats : Owned(c, wrote'[c].text)
  BY DEF KeptInv
<1>5. FinalDrafts(table)'
  <2>1. ComposedFrom(table[openChat])'
    BY <1>2 DEF ComposedFrom, Content
  <2> QED BY <1>1, <2>1 DEF FinalDrafts
<1>6. DraftsLead(jobs', drafts', table)
  OBVIOUS
<1> QED BY <1>3, <1>4, <1>5, <1>6 DEF KeptInv

LEMMA KeptBefore ==
    ASSUME DraftTypes, KeptInv, ~astray, ~DraftLoading, openChat \in DraftChats
    PROVE  /\ \A i \in DOMAIN jobs : jobs[i].op # "load" /\ Owned(jobs[i].chat, jobs[i].content.text)
           /\ Content(composed) = wrote[openChat] /\ Owned(openChat, wrote[openChat].text)
           /\ \E table \in DraftTables :
                 /\ DraftsLead(jobs, drafts, table)
                 /\ \A c \in DraftChats \ {openChat} : table[c] = Expected(wrote[c])
                 /\ Len(table[openChat]) = IF composed.isDraft THEN 1 ELSE 0
<1>1. openChat # NoChat
  BY DraftsAssumption
<1>2. \A i \in DOMAIN jobs : jobs[i].op # "load"
  BY LoadingWhere
<1> QED BY <1>1, <1>2 DEF KeptInv, FinalDrafts, ComposedFrom

LEMMA KeptCompose ==
    ASSUME DraftTypes, KeptInv, NEW content \in Contents, Compose(content),
           Owned(openChat, content.text)
    PROVE  KeptInv'
<1> SUFFICES ASSUME ~astray'
             PROVE  KeptInv'
  BY DEF KeptInv
<1>1. /\ ~astray /\ ~DraftLoading /\ openChat \in DraftChats
      /\ composed' = [composed EXCEPT !.text = content.text, !.replaces = content.replaces]
      /\ wrote' = [wrote EXCEPT ![openChat] = content]
      /\ UNCHANGED <<started, openChat, drafts, results, jobs>>
  BY DEF Compose, DraftTypes
<1>2. /\ composed'.text = content.text /\ composed'.replaces = content.replaces
      /\ composed'.isDraft = composed.isDraft
  BY <1>1 DEF DraftTypes
<1>3. Content(composed') = content
  BY <1>2 DEF Content, Contents
<1>4. /\ wrote' \in [DraftChats -> Contents] /\ wrote'[openChat] = content
      /\ \A c \in DraftChats \ {openChat} : wrote'[c] = wrote[c]
  BY <1>1 DEF DraftTypes
<1>5. IsSequence(jobs)
  BY DEF DraftTypes
<1>6. PICK table \in DraftTables :
                 /\ DraftsLead(jobs, drafts, table)
                 /\ \A c \in DraftChats \ {openChat} : table[c] = Expected(wrote[c])
                 /\ Len(table[openChat]) = IF composed.isDraft THEN 1 ELSE 0
  BY <1>1, KeptBefore
<1>7. \A i \in DOMAIN jobs' : jobs'[i].op # "load" /\ Owned(jobs'[i].chat, jobs'[i].content.text)
  BY <1>1, KeptBefore
<1>8. IsSequence(jobs') /\ DraftsLead(jobs', drafts, table)
  BY <1>1, <1>5, <1>6
<1>9. Len(table[openChat]) = IF composed'.isDraft THEN 1 ELSE 0
  BY <1>2, <1>6
<1> QED BY <1>1, <1>3, <1>4, <1>6, <1>7, <1>8, <1>9, KeptWriting

LEMMA KeptSend ==
    ASSUME DraftTypes, KeptInv, SendComposed
    PROVE  KeptInv'
<1> SUFFICES ASSUME ~astray'
             PROVE  KeptInv'
  BY DEF KeptInv
<1> DEFINE job == [DraftJob(IF composed.replaces THEN "correct" ELSE "send", openChat)
                          EXCEPT !.content = Content(composed)]
<1>1. /\ ~astray /\ ~DraftLoading /\ openChat \in DraftChats
      /\ jobs' = jobs \o <<job>> \o ResetDraft(composed.isDraft)
      /\ composed' = Cleared /\ wrote' = [wrote EXCEPT ![openChat] = NothingWritten]
      /\ UNCHANGED <<started, openChat, drafts, results>>
  BY DEF SendComposed, DraftTypes
<1>2. /\ job.op \in {"correct", "send"} /\ job.chat = openChat /\ job.content = Content(composed)
  BY DEF DraftJob
<1> HIDE DEF job
<1>3. IsSequence(jobs)
  BY DEF DraftTypes
<1>4. PICK table \in DraftTables :
                 /\ DraftsLead(jobs, drafts, table)
                 /\ \A c \in DraftChats \ {openChat} : table[c] = Expected(wrote[c])
                 /\ Len(table[openChat]) = IF composed.isDraft THEN 1 ELSE 0
  BY <1>1, KeptBefore
<1> DEFINE q == Append(jobs, job)
<1>5. jobs \o <<job>> = q
  BY <1>3, JoinedOne
<1>6. IsSequence(q) /\ DraftsLead(q, drafts, table)
  BY <1>1, <1>2, <1>3, <1>4, AppendOf, DraftsLeadMore
<1>7. \A i \in DOMAIN q : q[i].op # "load" /\ Owned(q[i].chat, q[i].content.text)
  <2>1. job.content = wrote[openChat] /\ Owned(openChat, wrote[openChat].text)
    BY <1>1, <1>2, KeptBefore
  <2>2. \A i \in DOMAIN jobs : jobs[i].op # "load" /\ Owned(jobs[i].chat, jobs[i].content.text)
    BY <1>1, KeptBefore
  <2> QED BY <1>2, <1>3, <2>1, <2>2, AppendOf
<1> HIDE DEF q
<1>8. Content(composed') = NothingWritten /\ ~composed'.isDraft
  BY <1>1 DEF Content, Cleared, NothingWritten
<1>9. /\ wrote' \in [DraftChats -> Contents] /\ wrote'[openChat] = NothingWritten
      /\ \A c \in DraftChats \ {openChat} : wrote'[c] = wrote[c]
  <2>1. NothingWritten \in Contents
    BY ContentTyped
  <2>2. wrote \in [DraftChats -> Contents]
    BY DEF DraftTypes
  <2> QED BY <1>1, <2>1, <2>2
<1>10. Owned(openChat, NothingWritten.text)
  BY DEF Owned, NothingWritten
<1>11. CASE ~composed.isDraft
  <2>1. jobs' = q
    BY <1>1, <1>5, <1>6, <1>11, JoinedOne DEF ResetDraft
  <2> QED BY <1>1, <1>4, <1>6, <1>7, <1>8, <1>9, <1>10, <1>11, <2>1, KeptWriting
<1>12. CASE composed.isDraft
  <2> DEFINE removal == DraftJob("remove", openChat)
  <2> DEFINE t == DraftsApplied(removal, table)
  <2>1. removal.op = "remove" /\ removal.chat = openChat /\ removal.content.text = {}
    BY DEF DraftJob, NothingWritten
  <2>2. jobs' = Append(q, removal)
    BY <1>1, <1>5, <1>6, <1>12, JoinedOne DEF ResetDraft
  <2> HIDE DEF removal
  <2>3. DraftsAfter(removal, table[openChat]) = <<>>
    BY <2>1 DEF DraftsAfter
  <2>4. /\ t \in DraftTables /\ t[openChat] = <<>>
        /\ \A c \in DraftChats : c # openChat => t[c] = table[c]
    BY <1>1, <2>1, <2>3, AppliedTable DEF DraftRows
  <2>5. DraftsLead(jobs', drafts, t)
    BY <1>6, <1>7, <2>1, <2>2, <2>4, DraftsLeadAppend
  <2>6. IsSequence(jobs')
        /\ \A i \in DOMAIN jobs' : jobs'[i].op # "load" /\ Owned(jobs'[i].chat, jobs'[i].content.text)
    BY <1>6, <1>7, <2>1, <2>2, AppendOf DEF Owned
  <2>7. Len(t[openChat]) = IF composed'.isDraft THEN 1 ELSE 0
    BY <1>8, <2>4, EmptyQueue
  <2>8. \A c \in DraftChats \ {openChat} : t[c] = Expected(wrote[c])
    BY <1>4, <2>4
  <2> HIDE DEF t
  <2> QED BY <1>1, <1>8, <1>9, <1>10, <2>4, <2>5, <2>6, <2>7, <2>8, KeptWriting
<1> QED BY <1>11, <1>12

LEMMA KeptCancel ==
    ASSUME DraftTypes, KeptInv, CancelCorrection
    PROVE  KeptInv'
<1> SUFFICES ASSUME ~astray'
             PROVE  KeptInv'
  BY DEF KeptInv
<1>1. /\ ~astray /\ ~DraftLoading /\ ~composed.isDraft /\ composed.replaces
      /\ composed' = Cleared /\ wrote' = [wrote EXCEPT ![openChat] = NothingWritten]
      /\ UNCHANGED <<started, openChat, drafts, results, jobs>>
  BY DEF CancelCorrection
<1>2. openChat \in DraftChats
  <2>1. ~Cleared.replaces
    BY DEF Cleared
  <2> QED BY <1>1, <2>1 DEF DraftTypes
<1>3. PICK table \in DraftTables :
                 /\ DraftsLead(jobs, drafts, table)
                 /\ \A c \in DraftChats \ {openChat} : table[c] = Expected(wrote[c])
                 /\ Len(table[openChat]) = IF composed.isDraft THEN 1 ELSE 0
  BY <1>1, <1>2, KeptBefore
<1>4. \A i \in DOMAIN jobs' : jobs'[i].op # "load" /\ Owned(jobs'[i].chat, jobs'[i].content.text)
  BY <1>1, <1>2, KeptBefore
<1>5. Content(composed') = NothingWritten /\ ~composed'.isDraft
  BY <1>1 DEF Content, Cleared, NothingWritten
<1>6. /\ wrote' \in [DraftChats -> Contents] /\ wrote'[openChat] = NothingWritten
      /\ \A c \in DraftChats \ {openChat} : wrote'[c] = wrote[c]
  <2>1. NothingWritten \in Contents
    BY ContentTyped
  <2>2. wrote \in [DraftChats -> Contents]
    BY DEF DraftTypes
  <2> QED BY <1>1, <1>2, <2>1, <2>2
<1>7. Owned(openChat, NothingWritten.text)
  BY DEF Owned, NothingWritten
<1>8. IsSequence(jobs') /\ DraftsLead(jobs', drafts, table)
  BY <1>1, <1>3 DEF DraftTypes
<1>9. Len(table[openChat]) = IF composed'.isDraft THEN 1 ELSE 0
  BY <1>1, <1>3, <1>5
<1> QED BY <1>1, <1>2, <1>3, <1>4, <1>5, <1>6, <1>7, <1>8, <1>9, KeptWriting

LEMMA KeptForward ==
    ASSUME DraftTypes, KeptInv, SetForward
    PROVE  KeptInv'
<1> SUFFICES ASSUME ~astray'
             PROVE  KeptInv'
  BY DEF KeptInv
<1>1. /\ ~astray /\ ~DraftLoading /\ openChat # NoChat
      /\ UNCHANGED <<started, openChat, composed, drafts, wrote, results, jobs>>
  BY DEF SetForward
<1>2. PICK table \in DraftTables : DraftsLead(jobs, drafts, table) /\ FinalDrafts(table)
  BY <1>1 DEF KeptInv
<1>3. ~DraftLoading'
  BY <1>1 DEF DraftLoading
<1>4. FinalDrafts(table)'
  <2>1. ComposedFrom(table[openChat])'
    BY <1>1, <1>2, <1>3 DEF FinalDrafts, ComposedFrom
  <2> QED BY <1>1, <1>2, <2>1 DEF FinalDrafts
<1>5. DraftsLead(jobs', drafts', table)
  BY <1>1, <1>2
<1>6. OneLoad'
  BY <1>1 DEF OneLoad, KeptInv
<1> QED BY <1>1, <1>4, <1>5, <1>6 DEF KeptInv

LEMMA KeptRun ==
    ASSUME DraftTypes, KeptInv, RunDraftJob
    PROVE  KeptInv'
<1> DEFINE job == Head(jobs)
<1> DEFINE new == DraftResult(job)
<1>1. /\ jobs # <<>> /\ jobs' = Tail(jobs)
      /\ drafts' = DraftsApplied(job, drafts)
      /\ results' = IF started THEN results \o new ELSE results
      /\ UNCHANGED <<started, openChat, composed, toForward, wrote, astray>>
  BY DEF RunDraftJob, DraftsApplied
<1>2. job \in DraftJobs /\ job = jobs[1] /\ 1 \in DOMAIN jobs /\ job.chat \in DraftChats
  BY <1>1, FirstJob
<1>3. /\ IsSequence(new) /\ \A i \in DOMAIN new : new[i].op = job.op
      /\ job.op = "load" => new = <<[op |-> "load", draft |-> drafts[job.chat]]>>
  BY <1>2, DraftResultOf
<1> SUFFICES ASSUME ~astray
             PROVE  KeptInv'
  BY <1>1 DEF KeptInv
<1>4. IsSequence(jobs) /\ IsSequence(results)
  BY DEF DraftTypes
<1>5. PICK table \in DraftTables : DraftsLead(jobs, drafts, table) /\ FinalDrafts(table)
  BY DEF KeptInv
<1>6. DraftsLead(jobs', drafts', table) /\ (job.op = "load" => drafts[job.chat] = table[job.chat])
  BY <1>1, <1>4, <1>5, DraftsLeadTail
<1>7. /\ DOMAIN jobs = 1..Len(jobs) /\ Len(jobs) \in Nat
      /\ \A i \in DOMAIN jobs' : i \in Nat \ {0} /\ i + 1 \in DOMAIN jobs /\ jobs'[i] = jobs[i + 1]
  BY <1>1, <1>4, TailOf
<1>8. /\ OneLoad
      /\ \A i \in DOMAIN jobs : Owned(jobs[i].chat, jobs[i].content.text)
  BY DEF KeptInv
<1> HIDE DEF job, new
<1>9. CASE job.op # "load"
  <2>1. \A i \in DOMAIN results' : (i \in DOMAIN results /\ results'[i] = results[i]) \/ results'[i].op # "load"
    BY <1>1, <1>3, <1>4, <1>9, Joined
  <2>2. \A i \in DOMAIN results : i \in DOMAIN results' /\ results'[i] = results[i]
    BY <1>1, <1>3, <1>4, Joined
  <2>3. \A i \in DOMAIN jobs : jobs[i].op = "load" => i - 1 \in DOMAIN jobs' /\ jobs'[i - 1] = jobs[i]
    <3>1. DOMAIN jobs' = 1..(Len(jobs) - 1)
      BY <1>1, <1>4, TailOf
    <3>2. \A i \in DOMAIN jobs : jobs[i].op = "load" => i # 1
      BY <1>2, <1>9
    <3> QED BY <1>7, <3>1, <3>2
  <2>4. DraftLoading' <=> DraftLoading
    <3>1. ASSUME DraftLoading'
          PROVE  DraftLoading
      <4>1. CASE \E i \in DOMAIN jobs' : jobs'[i].op = "load"
        BY <4>1, <1>7, LoadingWhere
      <4>2. CASE \E i \in DOMAIN results' : results'[i].op = "load"
        BY <4>2, <2>1, LoadingWhere
      <4> QED BY <3>1, <4>1, <4>2 DEF DraftLoading, ToSet
    <3>2. ASSUME DraftLoading
          PROVE  DraftLoading'
      <4>1. CASE \E i \in DOMAIN jobs : jobs[i].op = "load"
        BY <4>1, <2>3 DEF DraftLoading, ToSet
      <4>2. CASE \E i \in DOMAIN results : results[i].op = "load"
        BY <4>2, <2>2 DEF DraftLoading, ToSet
      <4> QED BY <3>2, <4>1, <4>2, LoadingWhere
    <3> QED BY <3>1, <3>2
  <2>5. FinalDrafts(table)'
    <3>1. openChat # NoChat => ComposedFrom(table[openChat])'
      BY <1>1, <1>5, <2>4 DEF FinalDrafts, ComposedFrom
    <3> QED BY <1>1, <1>5, <2>1, <3>1 DEF FinalDrafts
  <2>6. OneLoad'
    BY <1>1, <1>7, <1>8, <2>1 DEF OneLoad
  <2> QED BY <1>1, <1>6, <1>7, <1>8, <2>5, <2>6 DEF KeptInv
<1>10. CASE job.op = "load"
  <2> DEFINE r == [op |-> "load", draft |-> drafts[job.chat]]
  <2>1. started /\ job.chat = openChat
    BY <1>2, <1>8, <1>10 DEF OneLoad
  <2>2. new = <<r>> /\ r.op = "load" /\ r.draft = table[openChat]
    BY <1>3, <1>6, <1>10, <2>1
  <2> HIDE DEF r
  <2>3. /\ results' = Append(results, r)
        /\ DOMAIN results' = 1..(Len(results) + 1) /\ DOMAIN results = 1..Len(results)
        /\ Len(results) \in Nat
        /\ Len(results) + 1 \in DOMAIN results' /\ results'[Len(results) + 1] = r
        /\ \A i \in DOMAIN results' : \/ i \in DOMAIN results /\ results'[i] = results[i]
                                      \/ i = Len(results) + 1 /\ results'[i] = r
    <3>1. results' = Append(results, r)
      BY <1>1, <1>4, <2>1, <2>2, JoinedOne
    <3> QED BY <1>4, <3>1, AppendOf
  <2>4. \A i \in DOMAIN results : results[i].op # "load"
    BY <1>2, <1>8, <1>10 DEF OneLoad
  <2>5. \A i \in DOMAIN jobs' : jobs'[i].op # "load"
    <3> SUFFICES ASSUME NEW i \in DOMAIN jobs', jobs'[i].op = "load"
                 PROVE  FALSE
      OBVIOUS
    <3>1. i + 1 \in DOMAIN jobs /\ jobs[i + 1].op = "load" /\ i + 1 # 1
      BY <1>7
    <3> QED BY <1>2, <1>8, <1>10, <3>1 DEF OneLoad
  <2>6. DraftLoading
    BY <1>2, <1>10, LoadingWhere
  <2>7. DraftLoading'
    BY <2>2, <2>3 DEF DraftLoading, ToSet
  <2>8. \A i \in DOMAIN results' : results'[i].op = "load" => i = Len(results) + 1 /\ results'[i] = r
    BY <2>3, <2>4
  <2>9. FinalDrafts(table)'
    <3>1. openChat # NoChat => ComposedFrom(table[openChat])'
      BY <1>1, <1>5, <2>6, <2>7 DEF FinalDrafts, ComposedFrom
    <3> QED BY <1>1, <1>5, <2>2, <2>8, <3>1 DEF FinalDrafts
  <2>10. OneLoad'
    BY <2>5, <2>8 DEF OneLoad
  <2> QED BY <1>1, <1>6, <1>7, <1>8, <2>9, <2>10 DEF KeptInv
<1> QED BY <1>9, <1>10

LEMMA KeptHandle ==
    ASSUME DraftTypes, KeptInv, HandleDraftResult
    PROVE  KeptInv'
<1> DEFINE result == Head(results)
<1>1. /\ results # <<>> /\ results' = Tail(results)
      /\ UNCHANGED <<started, openChat, drafts, wrote, astray, jobs>>
      /\ result.op = "load" => composed' = Prepared(result.draft) /\ toForward' = FALSE
      /\ result.op # "load" => UNCHANGED <<composed, toForward>>
  BY DEF HandleDraftResult
<1>2. /\ result = results[1] /\ 1 \in DOMAIN results
      /\ result.op = "load" => openChat # NoChat
  BY <1>1, FirstResult
<1>3. /\ \A i \in DOMAIN results' : i \in Nat \ {0} /\ i + 1 \in DOMAIN results /\ results'[i] = results[i + 1]
      /\ DOMAIN results = 1..Len(results) /\ Len(results) \in Nat
      /\ DOMAIN results' = 1..(Len(results) - 1)
  <2>1. IsSequence(results)
    BY DEF DraftTypes
  <2>2. /\ DOMAIN results' = 1..(Len(results) - 1) /\ Len(results) \in Nat \ {0}
        /\ \A i \in DOMAIN results' : i + 1 \in DOMAIN results /\ results'[i] = results[i + 1]
        /\ DOMAIN results = 1..Len(results)
    BY <1>1, <2>1, TailOf
  <2> QED BY <2>2
<1> HIDE DEF result
<1> SUFFICES ASSUME ~astray
             PROVE  KeptInv'
  BY <1>1 DEF KeptInv
<1>4. PICK table \in DraftTables : DraftsLead(jobs, drafts, table) /\ FinalDrafts(table)
  BY DEF KeptInv
<1>5. OneLoad
  BY DEF KeptInv
<1>6. OneLoad'
  BY <1>1, <1>3, <1>5 DEF OneLoad
<1>7. DraftsLead(jobs', drafts', table)
  BY <1>1, <1>4
<1>8. \A c \in DraftChats \ {openChat} : table[c] = Expected(wrote[c])
  BY <1>4 DEF FinalDrafts
<1>9. \A i \in DOMAIN results' : results'[i].op = "load" => results'[i].draft = table[openChat]
  BY <1>3, <1>4 DEF FinalDrafts
<1>10. openChat # NoChat => ComposedFrom(table[openChat])'
  <2> SUFFICES ASSUME openChat # NoChat
               PROVE  ComposedFrom(table[openChat])'
    OBVIOUS
  <2>1. ComposedFrom(table[openChat])
    BY <1>4 DEF FinalDrafts
  <2>2. CASE result.op # "load"
    <3>1. \A i \in DOMAIN results : results[i].op = "load" => i - 1 \in DOMAIN results' /\ results'[i - 1] = results[i]
      <4>1. \A i \in DOMAIN results : results[i].op = "load" => i # 1
        BY <1>2, <2>2
      <4> QED BY <1>3, <4>1
    <3>2. DraftLoading' <=> DraftLoading
      <4>1. ASSUME DraftLoading'
            PROVE  DraftLoading
        <5>1. \/ \E i \in DOMAIN jobs : jobs[i].op = "load"
              \/ \E i \in DOMAIN results' : results'[i].op = "load"
          BY <1>1, <4>1 DEF DraftLoading, ToSet
        <5> QED BY <5>1, <1>3, LoadingWhere
      <4>2. ASSUME DraftLoading
            PROVE  DraftLoading'
        <5>1. CASE \E i \in DOMAIN jobs : jobs[i].op = "load"
          BY <5>1, <1>1 DEF DraftLoading, ToSet
        <5>2. CASE \E i \in DOMAIN results : results[i].op = "load"
          BY <5>2, <3>1 DEF DraftLoading, ToSet
        <5> QED BY <4>2, <5>1, <5>2, LoadingWhere
      <4> QED BY <4>1, <4>2
    <3>3. UNCHANGED <<composed, toForward, openChat, wrote>>
      BY <1>1, <2>2
    <3>4. Content(composed)' = Content(composed)
      BY <3>3
    <3>5. CASE DraftLoading
      BY <2>1, <3>2, <3>3, <3>5 DEF ComposedFrom
    <3>6. CASE ~DraftLoading
      BY <2>1, <3>2, <3>3, <3>4, <3>6 DEF ComposedFrom, Content
    <3> QED BY <3>5, <3>6
  <2>3. CASE result.op = "load"
    <3>1. \A i \in DOMAIN jobs : jobs[i].op # "load"
      BY <1>2, <1>5, <2>3 DEF OneLoad
    <3>2. \A i \in DOMAIN results' : results'[i].op # "load"
      <4> SUFFICES ASSUME NEW i \in DOMAIN results', results'[i].op = "load"
                   PROVE  FALSE
        OBVIOUS
      <4>1. i + 1 \in DOMAIN results /\ results[i + 1].op = "load" /\ i + 1 # 1
        BY <1>3
      <4> QED BY <1>2, <1>5, <2>3, <4>1 DEF OneLoad
    <3>3. ~DraftLoading'
      BY <1>1, <3>1, <3>2 DEF DraftLoading, ToSet
    <3>4. DraftLoading
      BY <1>2, <2>3, LoadingWhere
    <3>5. PICK base \in Contents :
            /\ table[openChat] = Expected(base)
            /\ wrote[openChat] = IF toForward THEN [base EXCEPT !.text = @ \cup {Forwarded}] ELSE base
            /\ ~composed.isDraft /\ ~composed.replaces /\ ~composed.isForwarding
            /\ toForward => composed.text = {}
      BY <2>1, <3>4 DEF ComposedFrom
    <3>6. result.draft = table[openChat]
      BY <1>2, <1>4, <2>3 DEF FinalDrafts
    <3> DEFINE loaded == IF result.draft = <<>> THEN composed ELSE WithDraft(Head(result.draft))
    <3>7. composed' = IF toForward
                      THEN [loaded EXCEPT !.text = @ \cup {Forwarded}, !.isForwarding = TRUE]
                      ELSE IF loaded.isDraft \/ loaded.isForwarding THEN loaded
                      ELSE [loaded EXCEPT !.text = {}]
      BY <1>1, <2>3 DEF Prepared
    <3>8. composed \in [text : SUBSET Pieces, replaces : BOOLEAN, isDraft : BOOLEAN, isForwarding : BOOLEAN]
      BY DEF DraftTypes
    <3>9. CASE base = NothingWritten
      <4>1. result.draft = <<>> /\ loaded = composed
        BY <3>5, <3>6, <3>9 DEF Expected
      <4>2. /\ composed'.text = IF toForward THEN {Forwarded} ELSE {}
            /\ composed'.replaces = FALSE /\ composed'.isDraft = FALSE
        BY <3>5, <3>7, <3>8, <4>1
      <4>3. wrote[openChat] = [text |-> IF toForward THEN {Forwarded} ELSE {}, replaces |-> FALSE]
        BY <3>5, <3>9 DEF NothingWritten
      <4>4. Content(composed') = wrote[openChat] /\ Len(table[openChat]) = 0
        BY <3>6, <4>1, <4>2, <4>3, EmptyQueue DEF Content
      <4> QED BY <1>1, <3>3, <4>2, <4>4 DEF ComposedFrom, Content
    <3>10. CASE base # NothingWritten
      <4>1. result.draft = <<base>> /\ <<base>> # <<>> /\ Head(<<base>>) = base
        BY <3>5, <3>6, <3>10 DEF Expected
      <4>2. loaded = WithDraft(base)
        BY <4>1
      <4>3. loaded = [text |-> base.text, replaces |-> base.replaces, isDraft |-> TRUE, isForwarding |-> FALSE]
        BY <3>5, <3>8, <4>2 DEF WithDraft, Contents
      <4> HIDE DEF loaded
      <4>4. /\ composed'.text = IF toForward THEN base.text \cup {Forwarded} ELSE base.text
            /\ composed'.replaces = base.replaces /\ composed'.isDraft = TRUE
        BY <3>7, <4>3
      <4>5. wrote[openChat] = [text |-> IF toForward THEN base.text \cup {Forwarded} ELSE base.text,
                               replaces |-> base.replaces]
        BY <3>5 DEF Contents
      <4>6. Content(composed') = wrote[openChat] /\ Len(table[openChat]) = 1
        BY <3>6, <4>1, <4>4, <4>5, OneElement DEF Content
      <4> QED BY <1>1, <3>3, <4>4, <4>6 DEF ComposedFrom, Content
    <3> QED BY <3>9, <3>10
  <2> QED BY <2>2, <2>3
<1>11. FinalDrafts(table)'
  BY <1>1, <1>8, <1>9, <1>10 DEF FinalDrafts
<1> QED BY <1>1, <1>6, <1>7, <1>11 DEF KeptInv

LEMMA KeptNext ==
    ASSUME DraftTypes, KeptInv, DraftsNext
    PROVE  KeptInv'
<1>1. ASSUME NEW chat \in DraftChats, OpenChat(chat)
      PROVE  KeptInv'
  BY <1>1, KeptOpenChat
<1>2. ASSUME NEW chat \in DraftChats, ReceiveMessage(chat)
      PROVE  KeptInv'
  BY <1>2, KeptReceive
<1>3. ASSUME NEW text \in Typed(openChat) \cup {{}}, TypeText(text)
      PROVE  KeptInv'
  <2> DEFINE content == [text |-> text, replaces |-> composed.replaces]
  <2>1. Compose(content) /\ openChat \in DraftChats
    BY <1>3 DEF TypeText, Compose, DraftTypes
  <2>2. text \in SUBSET Pieces /\ Owned(openChat, text)
    BY <2>1 DEF Typed, Pieces, Owned
  <2>3. content \in Contents /\ Owned(openChat, content.text)
    BY <2>2 DEF Contents, DraftTypes
  <2> HIDE DEF content
  <2> QED BY <2>1, <2>3, KeptCompose
<1>4. CASE PrepareCorrection
  <2> DEFINE content == [text |-> {<<openChat, 1>>}, replaces |-> TRUE]
  <2>1. Compose(content) /\ openChat \in DraftChats
    BY <1>4 DEF PrepareCorrection, DraftTypes
  <2>2. content \in Contents /\ Owned(openChat, content.text)
    BY <2>1 DEF Contents, Pieces, Owned
  <2> HIDE DEF content
  <2> QED BY <2>1, <2>2, KeptCompose
<1>5. CASE SendComposed \/ CancelCorrection \/ SetForward
  BY <1>5, KeptSend, KeptCancel, KeptForward
<1>6. CASE RunDraftJob \/ HandleDraftResult
  BY <1>6, KeptRun, KeptHandle
<1>7. CASE QuitApplication \/ StartAgain
  BY <1>7, KeptQuit, KeptStartAgain
<1> QED BY <1>1, <1>2, <1>3, <1>4, <1>5, <1>6, <1>7 DEF DraftsNext

LEMMA DraftsKeptFrom == DraftTypes /\ KeptInv => DraftsKept
<1> SUFFICES ASSUME DraftTypes, KeptInv, ~astray
             PROVE  /\ DraftsSettled =>
                         \A c \in DraftChats :
                            IF c = openChat
                            THEN /\ Content(composed) = wrote[c]
                                 /\ Len(drafts[c]) = IF composed.isDraft THEN 1 ELSE 0
                            ELSE drafts[c] = IF wrote[c] = NothingWritten THEN <<>> ELSE <<wrote[c]>>
                    /\ \A i \in DOMAIN jobs : Owned(jobs[i].chat, jobs[i].content.text)
  BY DEF DraftsKept, Owned
<1>1. ASSUME DraftsSettled, NEW c \in DraftChats
      PROVE  IF c = openChat
             THEN /\ Content(composed) = wrote[c]
                  /\ Len(drafts[c]) = IF composed.isDraft THEN 1 ELSE 0
             ELSE drafts[c] = IF wrote[c] = NothingWritten THEN <<>> ELSE <<wrote[c]>>
  <2>1. jobs = <<>> /\ results = <<>>
    BY <1>1 DEF DraftsSettled
  <2>2. ~DraftLoading
    BY <2>1, LoadingWhere, EmptyQueue
  <2>3. PICK table \in DraftTables : DraftsLead(jobs, drafts, table) /\ FinalDrafts(table)
    BY DEF KeptInv
  <2>4. drafts = table
    BY <2>1, <2>3, DraftsLeadEmpty
  <2>5. c # NoChat
    BY DraftsAssumption
  <2> QED BY <2>2, <2>3, <2>4, <2>5 DEF FinalDrafts, ComposedFrom, Expected
<1> QED BY <1>1 DEF KeptInv

\* Type correctness, the list of chats and what was written
DraftsInv == DraftTypes /\ DraftsListedInv /\ KeptInv

LEMMA DraftsInvInit == DraftsInit /\ jobs = <<>> /\ results = <<>> => DraftsInv
BY DraftTypesInit, ListedInit, KeptInit DEF DraftsInv

LEMMA DraftsInvNext ==
    ASSUME DraftsInv, DraftsNext
    PROVE  DraftsInv'
BY DraftTypesNext, ListedNext, KeptNext DEF DraftsInv

LEMMA DraftsInvUnchanged ==
    ASSUME DraftsInv, UNCHANGED <<draftVars, queues>>
    PROVE  DraftsInv'
<1>1. /\ UNCHANGED <<started, openChat, composed, toForward, drafts, messages, listed, wrote, astray>>
      /\ UNCHANGED <<jobs, results>>
  BY DEF draftVars, queues
<1>2. DraftLoading' <=> DraftLoading
  BY <1>1 DEF DraftLoading
<1>3. DraftTypes'
  BY <1>1, <1>2 DEF DraftsInv, DraftTypes
<1>4. DraftsListedInv'
  BY <1>1, ListedUnchanged DEF DraftsInv
<1>5. KeptInv'
  <2>1. \A table : FinalDrafts(table)' <=> FinalDrafts(table)
    BY <1>1, <1>2 DEF FinalDrafts, ComposedFrom
  <2>2. OneLoad' <=> OneLoad
    BY <1>1 DEF OneLoad
  <2> QED BY <1>1, <2>1, <2>2 DEF DraftsInv, KeptInv
<1> QED BY <1>3, <1>4, <1>5 DEF DraftsInv

-----------------------------------------------------------------------------
(* Migration.                                                              *)

MigrationJobs ==
    [op : {"add account", "update account"}] \cup [op : {"add", "update"}, contact : OldContacts]
MigrationResults ==
    [op : {"add account", "update account"}] \cup [op : {"added", "updated"}, contact : OldContacts]
Phases == {"none", "exporting", "waiting", "importing", "settings", "publishing", "notifying"}
Settings == oldAccount.settings

MigrationTypes ==
    /\ migration.phase \in Phases /\ migration = [phase |-> migration.phase, data |-> migration.data]
    /\ exportFile = [state |-> exportFile.state, data |-> exportFile.data]
    /\ exportFile.state = "saved" => exportFile.data = Settings
    /\ oldAccount \in [settings : [OldContacts -> {"muted", "loud"}], connected : BOOLEAN]
    /\ newAccount \in [state : {"none", "created", "stored"}, connected : BOOLEAN, awaited : BOOLEAN]
    /\ imported \in SUBSET OldContacts /\ awaited \in SUBSET OldContacts
    /\ items \in [OldContacts -> {"absent", "stored", "shown"}]
    /\ applied \in [OldContacts -> {"default", "muted", "loud"}]
    /\ toldOfMove \in [contacts : SUBSET OldContacts, published : BOOLEAN]
    /\ unsaved \in BOOLEAN
    /\ IsSequence(jobs) /\ \A i \in DOMAIN jobs : jobs[i] \in MigrationJobs
    /\ IsSequence(results) /\ \A i \in DOMAIN results : results[i] \in MigrationResults

\* The signal that a job ends with
ResultOf(job) ==
    CASE job.op = "add" -> [op |-> "added", contact |-> job.contact]
      [] job.op = "update" -> [op |-> "updated", contact |-> job.contact]
      [] OTHER -> job

\* Nothing is queued or signaled twice.
OnceIn(q, r) ==
    /\ \A i, j \in DOMAIN q : q[i] = q[j] => i = j
    /\ \A i, j \in DOMAIN r : r[i] = r[j] => i = j
    /\ \A i \in DOMAIN q, j \in DOMAIN r : r[j] # ResultOf(q[i])
Once == OnceIn(jobs, results)

\* A job, or its signal, that waits
WaitingIn(q, r, e) ==
    \/ \E i \in DOMAIN q : q[i] = e
    \/ \E i \in DOMAIN r : r[i] = ResultOf(e)
Waiting(e) == WaitingIn(jobs, results, e)

AddingAccount == [op |-> "add account"]
UpdatingAccount == [op |-> "update account"]
UpdatingContact(c) == [op |-> "update", contact |-> c]
UpdatingContacts(C) == {UpdatingContact(c) : c \in C}

QueuesInv ==
    /\ Once
    /\ Waiting(AddingAccount) =>
          /\ Phase("waiting") /\ newAccount.state = "stored" /\ ~newAccount.awaited
          /\ imported = {}
    /\ Waiting(UpdatingAccount) =>
          /\ Phase("settings") /\ awaited = {}
          /\ \A c \in OldContacts : ~Waiting(UpdatingContact(c))
    /\ \A c \in OldContacts : Waiting(UpdatingContact(c)) =>
          Phase("settings") /\ c \in awaited /\ items[c] = "shown"
    /\ \A i \in DOMAIN jobs : jobs[i].op = "add" => items[jobs[i].contact] = "absent"
    /\ \A i \in DOMAIN results : results[i].op = "added" => items[results[i].contact] = "stored"
    /\ \A i \in DOMAIN results : results[i].op = "updated" =>
          applied[results[i].contact] = Settings[results[i].contact]

PhasesInv ==
    /\ migration.phase \in {"waiting", "importing", "settings", "publishing", "notifying"} =>
          migration.data = Settings
    /\ migration.phase \in {"importing", "settings", "publishing", "notifying"} =>
          newAccount.state = "stored" /\ ~newAccount.awaited
    /\ newAccount.state = "created" => Phase("waiting") /\ ~newAccount.awaited /\ imported = {}
    /\ newAccount.awaited => Phase("waiting") /\ newAccount.state = "stored" /\ imported = {}
    /\ Phase("importing") => imported = {}
    /\ migration.phase \in {"settings", "publishing", "notifying"} => imported = OldContacts
    /\ migration.phase # "settings" => awaited = {}
    /\ Phase("settings") =>
          \A c \in OldContacts :
             c \in awaited \/ applied[c] = Settings[c] \/ Waiting(UpdatingAccount)
    /\ migration.phase \in {"publishing", "notifying"} => applied = Settings
    /\ Phase("notifying") => toldOfMove.published
    /\ toldOfMove.contacts # {} => toldOfMove.published
    /\ toldOfMove.published =>
          /\ imported = OldContacts /\ applied = Settings
          /\ migration.phase \in {"none", "exporting", "waiting", "notifying"}
          /\ newAccount.state # "created" /\ ~newAccount.awaited /\ ~Waiting(AddingAccount)

ExportInv ==
    imported # {} /\ imported # OldContacts /\ ~unsaved => exportFile = Saved(Settings)

MigrationInv == MigrationTypes /\ QueuesInv /\ PhasesInv /\ ExportInv

LEMMA WaitingTyped ==
           /\ ResultOf(AddingAccount) = AddingAccount /\ ResultOf(UpdatingAccount) = UpdatingAccount
           /\ \A c : ResultOf(UpdatingContact(c)) = [op |-> "updated", contact |-> c]
           /\ \A e \in MigrationJobs : ResultOf(e) \in MigrationResults
           /\ \A e, f \in MigrationJobs : ResultOf(e) = ResultOf(f) => e = f
<1>1. ResultOf(AddingAccount) = AddingAccount /\ ResultOf(UpdatingAccount) = UpdatingAccount
  BY DEF ResultOf, AddingAccount, UpdatingAccount
<1>2. \A c : ResultOf(UpdatingContact(c)) = [op |-> "updated", contact |-> c]
  BY DEF ResultOf, UpdatingContact
<1>3. ASSUME NEW e \in MigrationJobs
      PROVE  /\ e.op \in {"add account", "update account"} => e = [op |-> e.op] /\ ResultOf(e) = e
             /\ e.op \in {"add", "update"} => e = [op |-> e.op, contact |-> e.contact] /\ e.contact \in OldContacts
             /\ e.op = "add" => ResultOf(e) = [op |-> "added", contact |-> e.contact]
             /\ e.op = "update" => ResultOf(e) = [op |-> "updated", contact |-> e.contact]
             /\ e.op \in {"add account", "update account", "add", "update"}
  <2>1. CASE e \in [op : {"add account", "update account"}]
    <3>1. e = [op |-> e.op] /\ e.op \in {"add account", "update account"}
      BY <2>1
    <3> QED BY <3>1 DEF ResultOf
  <2>2. CASE e \in [op : {"add", "update"}, contact : OldContacts]
    <3>1. e = [op |-> e.op, contact |-> e.contact] /\ e.op \in {"add", "update"} /\ e.contact \in OldContacts
      BY <2>2
    <3> QED BY <3>1 DEF ResultOf
  <2> QED BY <2>1, <2>2 DEF MigrationJobs
<1>4. \A e \in MigrationJobs : ResultOf(e) \in MigrationResults
  <2> SUFFICES ASSUME NEW e \in MigrationJobs
               PROVE  ResultOf(e) \in MigrationResults
    OBVIOUS
  <2>1. CASE e.op \in {"add account", "update account"}
    <3>1. ResultOf(e) = [op |-> e.op]
      BY <1>3, <2>1
    <3>2. [op |-> e.op] \in [op : {"add account", "update account"}]
      BY <2>1
    <3> QED BY <3>1, <3>2 DEF MigrationResults
  <2>2. CASE e.op = "add"
    <3>1. ResultOf(e) = [op |-> "added", contact |-> e.contact] /\ e.contact \in OldContacts
      BY <1>3, <2>2
    <3>2. [op |-> "added", contact |-> e.contact] \in [op : {"added", "updated"}, contact : OldContacts]
      BY <3>1
    <3> QED BY <3>1, <3>2 DEF MigrationResults
  <2>3. CASE e.op = "update"
    <3>1. ResultOf(e) = [op |-> "updated", contact |-> e.contact] /\ e.contact \in OldContacts
      BY <1>3, <2>3
    <3>2. [op |-> "updated", contact |-> e.contact] \in [op : {"added", "updated"}, contact : OldContacts]
      BY <3>1
    <3> QED BY <3>1, <3>2 DEF MigrationResults
  <2> QED BY <1>3, <2>1, <2>2, <2>3
<1>5. ASSUME NEW e \in MigrationJobs, NEW f \in MigrationJobs, ResultOf(e) = ResultOf(f)
      PROVE  e = f
  <2>1. e.op = f.op
    <3>1. \A x \in MigrationJobs : ResultOf(x).op =
             IF x.op = "add" THEN "added" ELSE IF x.op = "update" THEN "updated" ELSE x.op
      <4> SUFFICES ASSUME NEW x \in MigrationJobs
                   PROVE  ResultOf(x).op =
                            IF x.op = "add" THEN "added" ELSE IF x.op = "update" THEN "updated" ELSE x.op
        OBVIOUS
      <4>1. CASE x.op \in {"add account", "update account"}
        BY <1>3, <4>1
      <4>2. CASE x.op = "add"
        <5>1. ResultOf(x) = [op |-> "added", contact |-> x.contact]
          BY <1>3, <4>2
        <5> QED BY <4>2, <5>1
      <4>3. CASE x.op = "update"
        <5>1. ResultOf(x) = [op |-> "updated", contact |-> x.contact]
          BY <1>3, <4>3
        <5> QED BY <4>3, <5>1
      <4> QED BY <1>3, <4>1, <4>2, <4>3
    <3> QED BY <1>3, <1>5, <3>1
  <2>2. CASE e.op \in {"add account", "update account"}
    BY <1>3, <1>5, <2>1, <2>2
  <2>3. CASE e.op = "add"
    <3>1. ResultOf(e).contact = e.contact /\ ResultOf(f).contact = f.contact
      <4>1. ResultOf(e) = [op |-> "added", contact |-> e.contact]
        BY <1>3, <2>3
      <4>2. ResultOf(f) = [op |-> "added", contact |-> f.contact]
        BY <1>3, <2>1, <2>3
      <4> QED BY <4>1, <4>2
    <3> QED BY <1>3, <1>5, <2>1, <2>3, <3>1
  <2>4. CASE e.op = "update"
    <3>1. ResultOf(e).contact = e.contact /\ ResultOf(f).contact = f.contact
      <4>1. ResultOf(e) = [op |-> "updated", contact |-> e.contact]
        BY <1>3, <2>4
      <4>2. ResultOf(f) = [op |-> "updated", contact |-> f.contact]
        BY <1>3, <2>1, <2>4
      <4> QED BY <4>1, <4>2
    <3> QED BY <1>3, <1>5, <2>1, <2>4, <3>1
  <2> QED BY <1>3, <2>2, <2>3, <2>4
<1> QED BY <1>1, <1>2, <1>4, <1>5

\* Queues of jobs and of signals
MigrationQueues(q, r) ==
    /\ IsSequence(q) /\ \A i \in DOMAIN q : q[i] \in MigrationJobs
    /\ IsSequence(r) /\ \A i \in DOMAIN r : r[i] \in MigrationResults
    /\ OnceIn(q, r)

LEMMA QueuesEmpty ==
    ASSUME NEW q, NEW r, q = <<>>, r = <<>>
    PROVE  MigrationQueues(q, r) /\ \A e : ~WaitingIn(q, r, e)
BY EmptyQueue DEF MigrationQueues, OnceIn, WaitingIn

LEMMA QueueMore ==
    ASSUME NEW q, NEW r, MigrationQueues(q, r), NEW job \in MigrationJobs, ~WaitingIn(q, r, job)
    PROVE  /\ MigrationQueues(Append(q, job), r)
           /\ \A e : WaitingIn(Append(q, job), r, e) <=> WaitingIn(q, r, e) \/ e = job
           /\ \A i \in DOMAIN Append(q, job) :
                 (i \in DOMAIN q /\ Append(q, job)[i] = q[i]) \/ Append(q, job)[i] = job
<1> DEFINE p == Append(q, job)
<1>1. /\ IsSequence(q) /\ \A i \in DOMAIN q : q[i] \in MigrationJobs
      /\ IsSequence(r) /\ \A i \in DOMAIN r : r[i] \in MigrationResults
      /\ OnceIn(q, r)
  BY DEF MigrationQueues
<1>2. /\ IsSequence(p) /\ DOMAIN q = 1..Len(q) /\ Len(q) \in Nat
      /\ Len(q) + 1 \in DOMAIN p /\ p[Len(q) + 1] = job
      /\ \A i \in DOMAIN q : i \in DOMAIN p /\ p[i] = q[i]
      /\ \A i \in DOMAIN p : (i \in DOMAIN q /\ p[i] = q[i]) \/ (i = Len(q) + 1 /\ p[i] = job)
  BY <1>1, AppendOf
<1> HIDE DEF p
<1>3. \A i \in DOMAIN q : q[i] # job
  BY DEF WaitingIn
<1>4. \A i \in DOMAIN r : r[i] # ResultOf(job)
  BY DEF WaitingIn
<1>5. OnceIn(p, r)
  <2>1. \A i, j \in DOMAIN p : p[i] = p[j] => i = j
    BY <1>1, <1>2, <1>3 DEF OnceIn
  <2> QED BY <1>1, <1>2, <1>4, <2>1 DEF OnceIn
<1>6. MigrationQueues(p, r)
  BY <1>1, <1>2, <1>5 DEF MigrationQueues
<1>7. \A e : WaitingIn(p, r, e) <=> WaitingIn(q, r, e) \/ e = job
  BY <1>2 DEF WaitingIn
<1> QED BY <1>2, <1>6, <1>7 DEF p

\* The first job is run: its signal waits instead of it, or it fails.
LEMMA QueueRun ==
    ASSUME NEW q, NEW r, MigrationQueues(q, r), q # <<>>
    PROVE  /\ Head(q) \in MigrationJobs /\ 1 \in DOMAIN q /\ Head(q) = q[1]
           /\ \A i \in DOMAIN Tail(q) : i + 1 \in DOMAIN q /\ Tail(q)[i] = q[i + 1]
                                        /\ Tail(q)[i] # Head(q)
           /\ MigrationQueues(Tail(q), Append(r, ResultOf(Head(q))))
           /\ \A e \in MigrationJobs :
                 WaitingIn(Tail(q), Append(r, ResultOf(Head(q))), e) <=> WaitingIn(q, r, e)
           /\ \A i \in DOMAIN Append(r, ResultOf(Head(q))) :
                 \/ i \in DOMAIN r /\ Append(r, ResultOf(Head(q)))[i] = r[i]
                 \/ Append(r, ResultOf(Head(q)))[i] = ResultOf(Head(q))
           /\ MigrationQueues(Tail(q), r)
           /\ \A e \in MigrationJobs :
                 WaitingIn(Tail(q), r, e) <=> WaitingIn(q, r, e) /\ e # Head(q)
<1> DEFINE p == Tail(q)
<1> DEFINE job == Head(q)
<1> DEFINE s == Append(r, ResultOf(job))
<1>1. /\ IsSequence(q) /\ \A i \in DOMAIN q : q[i] \in MigrationJobs
      /\ IsSequence(r) /\ \A i \in DOMAIN r : r[i] \in MigrationResults
      /\ OnceIn(q, r)
  BY DEF MigrationQueues
<1>2. /\ IsSequence(p) /\ Len(q) \in Nat \ {0} /\ DOMAIN q = 1..Len(q) /\ DOMAIN p = 1..(Len(q) - 1)
      /\ 1 \in DOMAIN q /\ job = q[1]
      /\ \A i \in DOMAIN p : i + 1 \in DOMAIN q /\ p[i] = q[i + 1]
  BY <1>1, TailOf
<1>3. /\ IsSequence(s) /\ DOMAIN r = 1..Len(r) /\ Len(r) \in Nat
      /\ Len(r) + 1 \in DOMAIN s /\ s[Len(r) + 1] = ResultOf(job)
      /\ \A i \in DOMAIN r : i \in DOMAIN s /\ s[i] = r[i]
      /\ \A i \in DOMAIN s : (i \in DOMAIN r /\ s[i] = r[i]) \/ (i = Len(r) + 1 /\ s[i] = ResultOf(job))
  BY <1>1, AppendOf
<1> HIDE DEF p, job, s
<1>4. job \in MigrationJobs /\ ResultOf(job) \in MigrationResults
  BY <1>1, <1>2, WaitingTyped
<1>5. \A i \in DOMAIN p : p[i] # job
  <2> SUFFICES ASSUME NEW i \in DOMAIN p, p[i] = job
               PROVE  FALSE
    OBVIOUS
  <2>1. i + 1 = 1
    BY <1>1, <1>2 DEF OnceIn
  <2> QED BY <1>2, <2>1
<1>6. \A i \in DOMAIN p : ResultOf(p[i]) # ResultOf(job)
  BY <1>1, <1>2, <1>4, <1>5, WaitingTyped
<1>7. \A i \in DOMAIN r : r[i] # ResultOf(job)
  BY <1>1, <1>2 DEF OnceIn
<1>8. \A i, j \in DOMAIN p : p[i] = p[j] => i = j
  BY <1>1, <1>2 DEF OnceIn
<1>9. OnceIn(p, r)
  BY <1>1, <1>2, <1>8 DEF OnceIn
<1>10. OnceIn(p, s)
  <2>1. \A i, j \in DOMAIN s : s[i] = s[j] => i = j
    BY <1>1, <1>3, <1>7 DEF OnceIn
  <2>2. \A i \in DOMAIN p, j \in DOMAIN s : s[j] # ResultOf(p[i])
    BY <1>3, <1>6, <1>9 DEF OnceIn
  <2> QED BY <1>8, <2>1, <2>2 DEF OnceIn
<1>11. \A i \in DOMAIN q : q[i] = job \/ (i - 1 \in DOMAIN p /\ p[i - 1] = q[i])
  BY <1>2
<1>12. ASSUME NEW e \in MigrationJobs
       PROVE  /\ WaitingIn(p, r, e) <=> WaitingIn(q, r, e) /\ e # job
              /\ WaitingIn(p, s, e) <=> WaitingIn(q, r, e)
  <2>1. (\E i \in DOMAIN q : q[i] = e) <=> e = job \/ \E i \in DOMAIN p : p[i] = e
    BY <1>2, <1>11
  <2>2. (\E i \in DOMAIN s : s[i] = ResultOf(e)) <=> \/ ResultOf(e) = ResultOf(job)
                                                    \/ \E i \in DOMAIN r : r[i] = ResultOf(e)
    BY <1>3
  <2>3. ResultOf(e) = ResultOf(job) <=> e = job
    BY <1>4, WaitingTyped
  <2> QED BY <1>5, <1>7, <2>1, <2>2, <2>3 DEF WaitingIn
<1>13. MigrationQueues(p, s) /\ MigrationQueues(p, r)
  BY <1>1, <1>2, <1>3, <1>4, <1>9, <1>10 DEF MigrationQueues
<1> QED BY <1>2, <1>3, <1>4, <1>5, <1>12, <1>13 DEF p, job, s

\* The first signal is handled.
LEMMA QueueHandled ==
    ASSUME NEW q, NEW r, MigrationQueues(q, r), r # <<>>
    PROVE  /\ Head(r) \in MigrationResults /\ 1 \in DOMAIN r /\ Head(r) = r[1]
           /\ \A i \in DOMAIN Tail(r) : i + 1 \in DOMAIN r /\ Tail(r)[i] = r[i + 1]
                                        /\ Tail(r)[i] # Head(r)
           /\ MigrationQueues(q, Tail(r))
           /\ \A e \in MigrationJobs :
                 WaitingIn(q, Tail(r), e) <=> WaitingIn(q, r, e) /\ ResultOf(e) # Head(r)
<1> DEFINE p == Tail(r)
<1> DEFINE result == Head(r)
<1>1. /\ IsSequence(q) /\ \A i \in DOMAIN q : q[i] \in MigrationJobs
      /\ IsSequence(r) /\ \A i \in DOMAIN r : r[i] \in MigrationResults
      /\ OnceIn(q, r)
  BY DEF MigrationQueues
<1>2. /\ IsSequence(p) /\ Len(r) \in Nat \ {0} /\ DOMAIN r = 1..Len(r) /\ DOMAIN p = 1..(Len(r) - 1)
      /\ 1 \in DOMAIN r /\ result = r[1]
      /\ \A i \in DOMAIN p : i + 1 \in DOMAIN r /\ p[i] = r[i + 1]
  BY <1>1, TailOf
<1> HIDE DEF p, result
<1>3. \A i \in DOMAIN p : p[i] # result
  <2> SUFFICES ASSUME NEW i \in DOMAIN p, p[i] = result
               PROVE  FALSE
    OBVIOUS
  <2>1. i + 1 = 1
    BY <1>1, <1>2 DEF OnceIn
  <2> QED BY <1>2, <2>1
<1>4. OnceIn(q, p)
  <2>1. \A i, j \in DOMAIN p : p[i] = p[j] => i = j
    BY <1>1, <1>2 DEF OnceIn
  <2> QED BY <1>1, <1>2, <2>1 DEF OnceIn
<1>5. \A i \in DOMAIN r : r[i] = result \/ (i - 1 \in DOMAIN p /\ p[i - 1] = r[i])
  BY <1>2
<1>6. ASSUME NEW e \in MigrationJobs
      PROVE  WaitingIn(q, p, e) <=> WaitingIn(q, r, e) /\ ResultOf(e) # result
  <2>1. (\E i \in DOMAIN r : r[i] = ResultOf(e)) <=>
            result = ResultOf(e) \/ \E i \in DOMAIN p : p[i] = ResultOf(e)
    BY <1>2, <1>5
  <2>2. (\E i \in DOMAIN q : q[i] = e) => ResultOf(e) # result
    BY <1>1, <1>2 DEF OnceIn
  <2> QED BY <1>3, <2>1, <2>2 DEF WaitingIn
<1>7. MigrationQueues(q, p) /\ result \in MigrationResults
  BY <1>1, <1>2, <1>4 DEF MigrationQueues
<1> QED BY <1>2, <1>3, <1>6, <1>7 DEF p, result

\* Updates of several contacts are queued.
LEMMA QueueUpdates ==
    ASSUME NEW q, NEW r, MigrationQueues(q, r), NEW C \in SUBSET OldContacts,
           \A c \in C : ~WaitingIn(q, r, UpdatingContact(c)),
           NEW new, new = SetToSeq(UpdatingContacts(C))
    PROVE  /\ MigrationQueues(q \o new, r)
           /\ \A e : WaitingIn(q \o new, r, e) <=>
                        WaitingIn(q, r, e) \/ \E c \in C : e = UpdatingContact(c)
           /\ \A i \in DOMAIN (q \o new) :
                 \/ i \in DOMAIN q /\ (q \o new)[i] = q[i]
                 \/ \E c \in C : (q \o new)[i] = UpdatingContact(c)
<1> DEFINE S == UpdatingContacts(C)
<1>1. IsFiniteSet(S)
  <2>1. IsFiniteSet(C)
    BY MigrationAssumption, FS_Subset
  <2> DEFINE f == [c \in C |-> UpdatingContact(c)]
  <2>2. IsFiniteSet({f[c] : c \in C})
    BY <2>1, ImageFinite
  <2>3. {f[c] : c \in C} = S
    BY DEF UpdatingContacts
  <2> QED BY <2>2, <2>3
<1>2. /\ IsSequence(new) /\ \A i \in DOMAIN new : new[i] \in S
      /\ \A i, j \in DOMAIN new : new[i] = new[j] => i = j
      /\ \A x \in S : \E i \in DOMAIN new : new[i] = x
  BY <1>1, SetToSeqOf
<1>3. /\ IsSequence(q) /\ \A i \in DOMAIN q : q[i] \in MigrationJobs
      /\ IsSequence(r) /\ \A i \in DOMAIN r : r[i] \in MigrationResults
      /\ OnceIn(q, r)
  BY DEF MigrationQueues
<1> DEFINE p == q \o new
<1>4. /\ IsSequence(p) /\ Len(q) \in Nat /\ DOMAIN q = 1..Len(q)
      /\ \A i \in DOMAIN q : i \in DOMAIN p /\ p[i] = q[i]
      /\ \A i \in DOMAIN new : Len(q) + i \in DOMAIN p /\ p[Len(q) + i] = new[i]
      /\ \A i \in DOMAIN p : \/ i \in DOMAIN q /\ p[i] = q[i]
                             \/ i > Len(q) /\ i - Len(q) \in DOMAIN new /\ p[i] = new[i - Len(q)]
      /\ DOMAIN p \in SUBSET Int
  <2>0. IsSequence(q) /\ IsSequence(new)
    BY <1>2, <1>3
  <2>1. /\ IsSequence(p) /\ Len(q) \in Nat /\ DOMAIN q = 1..Len(q)
        /\ DOMAIN p = 1..(Len(q) + Len(new)) /\ Len(new) \in Nat
    BY <2>0, Joined
  <2>2. \A i \in DOMAIN q : i \in DOMAIN p /\ p[i] = q[i]
    BY <2>0, Joined
  <2>3. ASSUME NEW i \in DOMAIN new
        PROVE  Len(q) + i \in DOMAIN p /\ p[Len(q) + i] = new[i]
    BY <2>0, JoinedSecond
  <2>4. \A i \in DOMAIN p :
           \/ i \in DOMAIN q /\ p[i] = q[i]
           \/ i > Len(q) /\ i - Len(q) \in DOMAIN new /\ p[i] = new[i - Len(q)]
    <3> SUFFICES ASSUME NEW i \in DOMAIN p
                 PROVE  \/ i \in DOMAIN q /\ p[i] = q[i]
                        \/ i > Len(q) /\ i - Len(q) \in DOMAIN new /\ p[i] = new[i - Len(q)]
      OBVIOUS
    <3> QED BY <2>0, Joined
  <2>5. DOMAIN p \in SUBSET Int
    BY <2>1
  <2> QED BY <2>1, <2>2, <2>3, <2>4, <2>5
<1> HIDE DEF p
<1>5. \A x \in S : x \in MigrationJobs
  <2>1. \A c \in C : UpdatingContact(c) \in [op : {"add", "update"}, contact : OldContacts]
    BY DEF UpdatingContact
  <2> QED BY <2>1 DEF MigrationJobs, UpdatingContacts
<1>6. \A i \in DOMAIN q : q[i] \notin S
  BY DEF WaitingIn, UpdatingContacts
<1>7. \A x \in S : \A i \in DOMAIN r : r[i] # ResultOf(x)
  BY DEF WaitingIn, UpdatingContacts
<1> HIDE DEF S
<1>8. OnceIn(p, r)
  <2>1. ASSUME NEW i \in DOMAIN p, NEW j \in DOMAIN p, p[i] = p[j]
        PROVE  i = j
    <3>1. CASE i \in DOMAIN q /\ j \in DOMAIN q
      BY <1>3, <1>4, <2>1, <3>1 DEF OnceIn
    <3>2. CASE i \notin DOMAIN q /\ j \notin DOMAIN q
      <4>1. i - Len(q) = j - Len(q)
        BY <1>2, <1>4, <2>1, <3>2
      <4>2. i \in Int /\ j \in Int /\ Len(q) \in Int
        BY <1>4
      <4> QED BY <4>1, <4>2
    <3>3. CASE i \in DOMAIN q /\ j \notin DOMAIN q
      <4>1. p[i] \notin S /\ p[j] \in S
        BY <1>2, <1>4, <1>6, <3>3
      <4> QED BY <2>1, <4>1
    <3>4. CASE i \notin DOMAIN q /\ j \in DOMAIN q
      <4>1. p[j] \notin S /\ p[i] \in S
        BY <1>2, <1>4, <1>6, <3>4
      <4> QED BY <2>1, <4>1
    <3> QED BY <3>1, <3>2, <3>3, <3>4
  <2>2. ASSUME NEW i \in DOMAIN p, NEW j \in DOMAIN r
        PROVE  r[j] # ResultOf(p[i])
    <3>1. CASE i \in DOMAIN q
      BY <1>3, <1>4, <3>1 DEF OnceIn
    <3>2. CASE i \notin DOMAIN q
      <4>1. p[i] \in S
        BY <1>2, <1>4, <3>2
      <4> QED BY <1>7, <4>1
    <3> QED BY <3>1, <3>2
  <2> QED BY <1>3, <2>1, <2>2 DEF OnceIn
<1>9. \A i \in DOMAIN p : p[i] \in MigrationJobs
  BY <1>2, <1>3, <1>4, <1>5
<1>10. MigrationQueues(p, r)
  BY <1>3, <1>4, <1>8, <1>9 DEF MigrationQueues
<1>11. \A e : WaitingIn(p, r, e) <=> WaitingIn(q, r, e) \/ e \in S
  <2> SUFFICES ASSUME NEW e
               PROVE  WaitingIn(p, r, e) <=> WaitingIn(q, r, e) \/ e \in S
    OBVIOUS
  <2>1. (\E i \in DOMAIN p : p[i] = e) <=> (\E i \in DOMAIN q : q[i] = e) \/ e \in S
    <3>1. ASSUME NEW i \in DOMAIN p, p[i] = e
          PROVE  (\E k \in DOMAIN q : q[k] = e) \/ e \in S
      BY <1>2, <1>4, <3>1
    <3>2. ASSUME NEW i \in DOMAIN q, q[i] = e
          PROVE  \E k \in DOMAIN p : p[k] = e
      BY <1>4, <3>2
    <3>3. ASSUME e \in S
          PROVE  \E k \in DOMAIN p : p[k] = e
      <4>1. PICK i \in DOMAIN new : new[i] = e
        BY <1>2, <3>3
      <4> QED BY <1>4, <4>1
    <3> QED BY <3>1, <3>2, <3>3
  <2> QED BY <2>1 DEF WaitingIn
<1>12. \A i \in DOMAIN p : (i \in DOMAIN q /\ p[i] = q[i]) \/ p[i] \in S
  BY <1>2, <1>4
<1>13. \A e : e \in S <=> \E c \in C : e = UpdatingContact(c)
  BY DEF S, UpdatingContacts
<1> QED BY <1>10, <1>11, <1>12, <1>13 DEF p

LEMMA QueuesTyped ==
    MigrationTypes /\ Once <=> MigrationTypes /\ MigrationQueues(jobs, results)
BY DEF MigrationTypes, MigrationQueues, Once

\* With empty queues nothing waits.
LEMMA NothingWaits ==
    ASSUME jobs = <<>>, results = <<>>
    PROVE  /\ Once /\ (\A e : ~Waiting(e)) /\ DOMAIN jobs = {} /\ DOMAIN results = {}
           /\ IsSequence(jobs) /\ IsSequence(results)
<1>1. MigrationQueues(jobs, results) /\ \A e : ~WaitingIn(jobs, results, e)
  BY QueuesEmpty
<1> QED BY <1>1, EmptyQueue DEF MigrationQueues, Once, Waiting

LEMMA MigrationInvInit ==
    MigrationInit /\ jobs = <<>> /\ results = <<>> => MigrationInv
<1> SUFFICES ASSUME MigrationInit, jobs = <<>>, results = <<>>
             PROVE  MigrationInv
  OBVIOUS
<1>1. MigrationTypes
  BY NothingWaits DEF MigrationInit, MigrationTypes, NoMigration, NoFile, NoAccount, Phases, Settings
<1>2. QueuesInv
  BY NothingWaits DEF QueuesInv
<1>3. PhasesInv
  BY DEF MigrationInit, PhasesInv, NoMigration, NoAccount, Phase
<1>4. ExportInv
  BY DEF MigrationInit, ExportInv
<1> QED BY <1>1, <1>2, <1>3, <1>4 DEF MigrationInv

\* Queues that stay
LEMMA WaitingSame ==
    ASSUME UNCHANGED <<jobs, results>>
    PROVE  (Once' <=> Once) /\ \A e : Waiting(e)' <=> Waiting(e)
BY DEF Once, OnceIn, Waiting, WaitingIn

LEMMA SettingsSame ==
    ASSUME MigrationTypes, oldAccount' = [oldAccount EXCEPT !.connected = oldAccount'.connected]
    PROVE  Settings' = Settings
BY DEF MigrationTypes, Settings

LEMMA StartMigrationKeeps ==
    ASSUME MigrationInv, StartMigration
    PROVE  MigrationInv'
<1>1. /\ Phase("none") /\ newAccount.state # "created" /\ jobs = <<>> /\ results = <<>>
      /\ UNCHANGED <<exportFile, oldAccount, newAccount, imported, items, applied, awaited,
                     toldOfMove, unsaved, jobs, results>>
      /\ \/ UNCHANGED migration
         \/ exportFile.state = "saved" /\ migration' = [phase |-> "waiting", data |-> exportFile.data]
         \/ migration' = [migration EXCEPT !.phase = "exporting"]
  BY DEF StartMigration, Settled, EnterPhase
<1>2. Settings' = Settings
  BY <1>1 DEF Settings
<1>3. /\ MigrationTypes /\ QueuesInv /\ PhasesInv /\ ExportInv
  BY DEF MigrationInv
<1>4. \A e : ~Waiting(e) /\ ~Waiting(e)'
  BY <1>1, NothingWaits, WaitingSame
<1>5. Once' /\ DOMAIN jobs' = {} /\ DOMAIN results' = {}
  BY <1>1, NothingWaits, WaitingSame
<1>6. /\ migration'.phase \in Phases /\ migration' = [phase |-> migration'.phase, data |-> migration'.data]
      /\ migration'.phase \in {"none", "waiting", "exporting"}
      /\ migration'.phase = "waiting" => migration'.data = Settings
  BY <1>1, <1>3 DEF MigrationTypes, Phases, Phase
<1>7. MigrationTypes'
  BY <1>1, <1>2, <1>3, <1>6 DEF MigrationTypes
<1>8. QueuesInv'
  BY <1>4, <1>5 DEF QueuesInv
<1>9. PhasesInv'
  BY <1>1, <1>2, <1>3, <1>4, <1>6 DEF PhasesInv, Phase
<1>10. ExportInv'
  BY <1>1, <1>2, <1>3 DEF ExportInv
<1> QED BY <1>7, <1>8, <1>9, <1>10 DEF MigrationInv

\* An early phase, or none, is entered from another one.
LEMMA EarlyPhaseKeeps ==
    ASSUME MigrationInv, migration.phase \in {"none", "exporting", "waiting"} \/ \A e : ~Waiting(e),
           newAccount.state # "created", ~newAccount.awaited,
           ~Waiting(AddingAccount),
           Phase("settings") => awaited = {} /\ \A c \in OldContacts : ~Waiting(UpdatingContact(c)),
           migration'.phase \in {"none", "waiting"},
           migration' = [phase |-> migration'.phase, data |-> migration'.data],
           migration'.phase = "waiting" => migration'.data = Settings,
           UNCHANGED <<exportFile, oldAccount, newAccount, imported, items, applied, awaited, unsaved,
                       jobs, results>>,
           toldOfMove' = toldOfMove
    PROVE  MigrationInv'
<1>1. Settings' = Settings
  BY DEF Settings
<1>2. /\ MigrationTypes /\ QueuesInv /\ PhasesInv /\ ExportInv
  BY DEF MigrationInv
<1>3. (Once' <=> Once) /\ \A e : Waiting(e)' <=> Waiting(e)
  BY WaitingSame
<1>4. MigrationTypes'
  BY <1>1, <1>2 DEF MigrationTypes, Phases
<1>5. QueuesInv'
  BY <1>1, <1>2, <1>3 DEF QueuesInv, Phase
<1>6. PhasesInv'
  BY <1>1, <1>2, <1>3 DEF PhasesInv, Phase, MigrationTypes, Phases
<1>7. ExportInv'
  BY <1>1, <1>2 DEF ExportInv
<1> QED BY <1>4, <1>5, <1>6, <1>7 DEF MigrationInv

LEMMA ExportedKeeps ==
    ASSUME MigrationInv, Exported
    PROVE  MigrationInv'
<1>1. /\ Phase("exporting")
      /\ UNCHANGED <<exportFile, oldAccount, newAccount, imported, items, applied, awaited,
                     toldOfMove, unsaved, jobs, results>>
      /\ \/ migration' = [phase |-> "waiting", data |-> oldAccount.settings]
         \/ migration' = [phase |-> "none", data |-> NoData]
  BY DEF Exported, CancelMigration, NoMigration
<1>2. /\ newAccount.state # "created" /\ ~newAccount.awaited /\ ~Waiting(AddingAccount)
  BY <1>1 DEF MigrationInv, PhasesInv, QueuesInv, Phase
<1>3. /\ migration'.phase \in {"none", "waiting"}
      /\ migration' = [phase |-> migration'.phase, data |-> migration'.data]
      /\ migration'.phase = "waiting" => migration'.data = Settings
  BY <1>1 DEF Settings
<1> QED BY <1>1, <1>2, <1>3, EarlyPhaseKeeps DEF Phase

LEMMA CreateAccountKeeps ==
    ASSUME MigrationInv, CreateAccount
    PROVE  MigrationInv'
<1>1. /\ Phase("waiting") /\ ~toldOfMove.published /\ jobs = <<>> /\ results = <<>>
      /\ newAccount' = [NoAccount EXCEPT !.state = "created"]
      /\ imported' = {}
      /\ items' = [c \in OldContacts |-> "absent"] /\ applied' = [c \in OldContacts |-> "default"]
      /\ UNCHANGED <<migration, exportFile, oldAccount, awaited, toldOfMove, unsaved, jobs, results>>
  BY DEF CreateAccount, Settled
<1>2. Settings' = Settings
  BY <1>1 DEF Settings
<1>3. /\ MigrationTypes /\ QueuesInv /\ PhasesInv /\ ExportInv
  BY DEF MigrationInv
<1>4. \A e : ~Waiting(e) /\ ~Waiting(e)'
  BY <1>1, NothingWaits, WaitingSame
<1>5. Once' /\ DOMAIN jobs' = {} /\ DOMAIN results' = {}
  BY <1>1, NothingWaits, WaitingSame
<1>6. newAccount' = [state |-> "created", connected |-> FALSE, awaited |-> FALSE]
  BY <1>1 DEF NoAccount
<1>7. MigrationTypes'
  <2>1. newAccount' \in [state : {"none", "created", "stored"}, connected : BOOLEAN, awaited : BOOLEAN]
    BY <1>6
  <2>2. /\ items' \in [OldContacts -> {"absent", "stored", "shown"}]
        /\ applied' \in [OldContacts -> {"default", "muted", "loud"}]
    BY <1>1
  <2>3. UNCHANGED <<migration, exportFile, oldAccount, awaited, toldOfMove, unsaved, jobs, results>> /\ imported' = {}
    BY <1>1
  <2> QED BY <1>2, <1>3, <2>1, <2>2, <2>3 DEF MigrationTypes
<1>8. QueuesInv'
  BY <1>4, <1>5 DEF QueuesInv
<1>9. PhasesInv'
  BY <1>1, <1>2, <1>3, <1>4, <1>6 DEF PhasesInv, Phase
<1>10. ExportInv'
  BY <1>1 DEF ExportInv
<1> QED BY <1>7, <1>8, <1>9, <1>10 DEF MigrationInv

LEMMA DiscardAccountKeeps ==
    ASSUME MigrationInv, DiscardAccount
    PROVE  MigrationInv'
<1>1. /\ newAccount.state = "created" /\ newAccount' = NoAccount
      /\ migration' = NoMigration
      /\ UNCHANGED <<exportFile, oldAccount, imported, items, applied, awaited, toldOfMove, unsaved,
                     jobs, results>>
  BY DEF DiscardAccount, CancelMigration
<1>2. Settings' = Settings
  BY <1>1 DEF Settings
<1>3. /\ MigrationTypes /\ QueuesInv /\ PhasesInv /\ ExportInv
  BY DEF MigrationInv
<1>4. (Once' <=> Once) /\ \A e : Waiting(e)' <=> Waiting(e)
  BY <1>1, WaitingSame
<1>5. /\ newAccount' = [state |-> "none", connected |-> FALSE, awaited |-> FALSE]
      /\ migration' = [phase |-> "none", data |-> NoData]
  BY <1>1 DEF NoAccount, NoMigration
<1>6. MigrationTypes'
  BY <1>1, <1>2, <1>3, <1>5 DEF MigrationTypes, Phases
<1>7. Phase("waiting") /\ ~Waiting(AddingAccount) /\ ~Waiting(UpdatingAccount)
      /\ \A c \in OldContacts : ~Waiting(UpdatingContact(c))
  BY <1>1, <1>3 DEF PhasesInv, QueuesInv, Phase
<1>8. QueuesInv'
  BY <1>1, <1>2, <1>3, <1>4, <1>7 DEF QueuesInv
<1>9. PhasesInv'
  BY <1>1, <1>2, <1>3, <1>4, <1>5, <1>7 DEF PhasesInv, Phase
<1>10. ExportInv'
  BY <1>1, <1>2, <1>3 DEF ExportInv
<1> QED BY <1>6, <1>8, <1>9, <1>10 DEF MigrationInv

\* The type of the queues with a new job
LEMMA MigrationAppend ==
    ASSUME MigrationTypes, Once, NEW job \in MigrationJobs, ~Waiting(job),
           jobs' = Append(jobs, job), results' = results
    PROVE  /\ Once' /\ MigrationQueues(jobs', results')
           /\ \A e : Waiting(e)' <=> Waiting(e) \/ e = job
           /\ \A i \in DOMAIN jobs' : (i \in DOMAIN jobs /\ jobs'[i] = jobs[i]) \/ jobs'[i] = job
<1>1. MigrationQueues(jobs, results) /\ ~WaitingIn(jobs, results, job)
  BY QueuesTyped DEF Waiting
<1>2. /\ MigrationQueues(jobs', results')
      /\ \A e : WaitingIn(jobs', results', e) <=> WaitingIn(jobs, results, e) \/ e = job
      /\ \A i \in DOMAIN jobs' : (i \in DOMAIN jobs /\ jobs'[i] = jobs[i]) \/ jobs'[i] = job
  BY <1>1, QueueMore
<1> QED BY <1>2 DEF Once, MigrationQueues, Waiting

LEMMA JobsTyped ==
    /\ AddingAccount \in MigrationJobs /\ UpdatingAccount \in MigrationJobs
    /\ AddingAccount.op = "add account" /\ UpdatingAccount.op = "update account"
    /\ AddingAccount # UpdatingAccount
    /\ \A c : /\ UpdatingContact(c).op = "update" /\ UpdatingContact(c).contact = c
              /\ UpdatingContact(c) # AddingAccount /\ UpdatingContact(c) # UpdatingAccount
    /\ \A c \in OldContacts : UpdatingContact(c) \in MigrationJobs
                              /\ [op |-> "add", contact |-> c] \in MigrationJobs
    /\ \A c, d : UpdatingContact(c) # [op |-> "add", contact |-> d]
    /\ \A c : [op |-> "add", contact |-> c] # AddingAccount /\ [op |-> "add", contact |-> c] # UpdatingAccount
<1>1. /\ AddingAccount \in [op : {"add account", "update account"}]
      /\ UpdatingAccount \in [op : {"add account", "update account"}]
      /\ AddingAccount.op = "add account" /\ UpdatingAccount.op = "update account"
  BY DEF AddingAccount, UpdatingAccount
<1>2. \A c : UpdatingContact(c).op = "update" /\ UpdatingContact(c).contact = c
  BY DEF UpdatingContact
<1>3. \A c : [op |-> "add", contact |-> c].op = "add"
  OBVIOUS
<1>4. \A c \in OldContacts : /\ UpdatingContact(c) \in [op : {"add", "update"}, contact : OldContacts]
                             /\ [op |-> "add", contact |-> c] \in [op : {"add", "update"}, contact : OldContacts]
  BY DEF UpdatingContact
<1>5. AddingAccount # UpdatingAccount
  BY <1>1
<1>6. \A c : /\ UpdatingContact(c) # AddingAccount /\ UpdatingContact(c) # UpdatingAccount
             /\ [op |-> "add", contact |-> c] # AddingAccount /\ [op |-> "add", contact |-> c] # UpdatingAccount
  BY <1>1, <1>2, <1>3
<1>7. \A c, d : UpdatingContact(c) # [op |-> "add", contact |-> d]
  BY <1>2, <1>3
<1> QED BY <1>1, <1>2, <1>4, <1>5, <1>6, <1>7 DEF MigrationJobs

LEMMA StoreAccountKeeps ==
    ASSUME MigrationInv, NEW loggedIn \in BOOLEAN, StoreAccount(loggedIn)
    PROVE  MigrationInv'
<1>1. /\ newAccount.state = "created"
      /\ newAccount' = [newAccount EXCEPT !.state = "stored", !.connected = loggedIn]
      /\ jobs' = Append(jobs, AddingAccount) /\ results' = results
      /\ UNCHANGED <<migration, exportFile, oldAccount, imported, items, applied, awaited, toldOfMove,
                     unsaved>>
  BY DEF StoreAccount, AddingAccount
<1>2. Settings' = Settings
  BY <1>1 DEF Settings
<1>3. /\ MigrationTypes /\ QueuesInv /\ PhasesInv /\ ExportInv
  BY DEF MigrationInv
<1>4. Phase("waiting") /\ ~newAccount.awaited /\ imported = {} /\ ~Waiting(AddingAccount)
  BY <1>1, <1>3 DEF PhasesInv, QueuesInv
<1>5. /\ Once' /\ MigrationQueues(jobs', results')
      /\ \A e : Waiting(e)' <=> Waiting(e) \/ e = AddingAccount
      /\ \A i \in DOMAIN jobs' : (i \in DOMAIN jobs /\ jobs'[i] = jobs[i]) \/ jobs'[i] = AddingAccount
  BY <1>1, <1>3, <1>4, MigrationAppend, JobsTyped DEF QueuesInv
<1>6. newAccount' = [state |-> "stored", connected |-> loggedIn, awaited |-> FALSE]
  BY <1>1, <1>3, <1>4 DEF MigrationTypes
<1>7. MigrationTypes'
  <2>1. newAccount' \in [state : {"none", "created", "stored"}, connected : BOOLEAN, awaited : BOOLEAN]
    BY <1>6
  <2> QED BY <1>1, <1>2, <1>3, <1>5, <2>1 DEF MigrationTypes, MigrationQueues
<1>8. (\A c : Waiting(UpdatingContact(c))' <=> Waiting(UpdatingContact(c)))
      /\ (Waiting(UpdatingAccount)' <=> Waiting(UpdatingAccount))
      /\ \A i \in DOMAIN jobs' : jobs'[i].op = "add" => i \in DOMAIN jobs /\ jobs'[i] = jobs[i]
  BY <1>5, JobsTyped
<1>9. QueuesInv'
  <2>1. Once' /\ (Waiting(AddingAccount)' =>
          /\ Phase("waiting")' /\ newAccount'.state = "stored" /\ ~newAccount'.awaited
          /\ imported' = {})
    BY <1>1, <1>4, <1>5, <1>6 DEF Phase
  <2>2. /\ ~Waiting(UpdatingAccount)' /\ \A c \in OldContacts : ~Waiting(UpdatingContact(c))'
    BY <1>3, <1>4, <1>8 DEF QueuesInv, Phase
  <2>3. \A i \in DOMAIN jobs' : jobs'[i].op = "add" => items'[jobs'[i].contact] = "absent"
    BY <1>1, <1>3, <1>8 DEF QueuesInv
  <2>4. /\ \A i \in DOMAIN results' : results'[i].op = "added" => items'[results'[i].contact] = "stored"
        /\ \A i \in DOMAIN results' : results'[i].op = "updated" =>
              applied'[results'[i].contact] = Settings'[results'[i].contact]
    BY <1>1, <1>2, <1>3 DEF QueuesInv
  <2> QED BY <2>1, <2>2, <2>3, <2>4 DEF QueuesInv
<1>10. PhasesInv'
  BY <1>1, <1>2, <1>3, <1>4, <1>6 DEF PhasesInv, Phase
<1>11. ExportInv'
  BY <1>1, <1>2, <1>3 DEF ExportInv
<1> QED BY <1>7, <1>9, <1>10, <1>11 DEF MigrationInv

LEMMA ConnectionKeeps ==
    ASSUME MigrationInv, ChangeNewConnection
    PROVE  MigrationInv'
<1>1. /\ newAccount.state = "stored" /\ ~(newAccount.awaited /\ Phase("none"))
      /\ newAccount' = [newAccount EXCEPT !.connected = ~@, !.awaited = @ /\ newAccount.connected]
      /\ UNCHANGED <<exportFile, oldAccount, imported, items, applied, awaited, toldOfMove, unsaved,
                     jobs, results>>
      /\ migration' = IF newAccount.awaited /\ ~newAccount.connected
                      THEN [migration EXCEPT !.phase = "importing"] ELSE migration
  BY DEF ChangeNewConnection, FinalizeMigration, EnterPhase
<1>2. Settings' = Settings
  BY <1>1 DEF Settings
<1>3. /\ MigrationTypes /\ QueuesInv /\ PhasesInv /\ ExportInv
  BY DEF MigrationInv
<1>4. (Once' <=> Once) /\ \A e : Waiting(e)' <=> Waiting(e)
  BY <1>1, WaitingSame
<1>5. /\ newAccount' \in [state : {"none", "created", "stored"}, connected : BOOLEAN, awaited : BOOLEAN]
      /\ newAccount'.state = "stored" /\ newAccount'.awaited = (newAccount.awaited /\ newAccount.connected)
  BY <1>1, <1>3 DEF MigrationTypes
<1>6. CASE newAccount.awaited /\ ~newAccount.connected
  <2>1. Phase("waiting") /\ imported = {}
    BY <1>3, <1>6 DEF PhasesInv
  <2>2. migration' = [phase |-> "importing", data |-> migration.data] /\ ~newAccount'.awaited
    BY <1>1, <1>3, <1>5, <1>6 DEF MigrationTypes
  <2>3. ~Waiting(AddingAccount) /\ ~Waiting(UpdatingAccount) /\ \A c \in OldContacts : ~Waiting(UpdatingContact(c))
    BY <1>3, <1>6, <2>1 DEF QueuesInv, Phase
  <2>4. MigrationTypes'
    BY <1>1, <1>2, <1>3, <1>5, <2>2 DEF MigrationTypes, Phases
  <2>5. QueuesInv'
    BY <1>1, <1>2, <1>3, <1>4, <2>3 DEF QueuesInv
  <2>6. ~toldOfMove.published
    BY <1>3, <1>6 DEF PhasesInv
  <2>7. PhasesInv'
    BY <1>1, <1>2, <1>3, <1>5, <2>1, <2>2, <2>6 DEF PhasesInv, Phase
  <2> QED BY <1>1, <1>2, <1>3, <2>4, <2>5, <2>7 DEF MigrationInv, ExportInv
<1>7. CASE ~(newAccount.awaited /\ ~newAccount.connected)
  <2>1. migration' = migration /\ newAccount'.awaited = newAccount.awaited
    BY <1>1, <1>3, <1>5, <1>7 DEF MigrationTypes
  <2>2. MigrationTypes'
    BY <1>1, <1>2, <1>3, <1>5, <2>1 DEF MigrationTypes
  <2>3. QueuesInv'
    BY <1>1, <1>2, <1>3, <1>4, <1>5, <2>1 DEF QueuesInv, Phase
  <2>4. PhasesInv'
    BY <1>1, <1>2, <1>3, <1>4, <1>5, <2>1 DEF PhasesInv, Phase
  <2> QED BY <1>1, <1>2, <1>3, <2>2, <2>3, <2>4 DEF MigrationInv, ExportInv
<1> QED BY <1>6, <1>7

LEMMA OldConnectionKeeps ==
    ASSUME MigrationInv, ChangeOldConnection
    PROVE  MigrationInv'
<1>1. /\ oldAccount' = [oldAccount EXCEPT !.connected = ~@]
      /\ UNCHANGED <<migration, exportFile, newAccount, imported, items, applied, awaited, toldOfMove,
                     unsaved, jobs, results>>
  BY DEF ChangeOldConnection
<1>2. /\ MigrationTypes /\ QueuesInv /\ PhasesInv /\ ExportInv
  BY DEF MigrationInv
<1>3. Settings' = Settings
      /\ oldAccount' \in [settings : [OldContacts -> {"muted", "loud"}], connected : BOOLEAN]
  BY <1>1, <1>2 DEF MigrationTypes, Settings
<1>4. (Once' <=> Once) /\ \A e : Waiting(e)' <=> Waiting(e)
  BY <1>1, WaitingSame
<1>5. MigrationTypes'
  BY <1>1, <1>2, <1>3 DEF MigrationTypes
<1>6. QueuesInv'
  BY <1>1, <1>2, <1>3, <1>4 DEF QueuesInv, Phase
<1>7. PhasesInv'
  BY <1>1, <1>2, <1>3, <1>4 DEF PhasesInv, Phase
<1> QED BY <1>1, <1>2, <1>3, <1>5, <1>6, <1>7 DEF MigrationInv, ExportInv

LEMMA ContactImportedKeeps ==
    ASSUME MigrationInv, NEW c \in OldContacts, ContactImported(c)
    PROVE  MigrationInv'
<1> DEFINE job == [op |-> "add", contact |-> c]
<1>1. /\ items[c] = "absent" /\ \A i \in DOMAIN jobs : jobs[i] # job
      /\ jobs' = Append(jobs, job) /\ results' = results
      /\ UNCHANGED <<migration, exportFile, oldAccount, newAccount, imported, items, applied, awaited,
                     toldOfMove, unsaved>>
  BY DEF ContactImported, migrationVars
<1>2. Settings' = Settings
  BY <1>1 DEF Settings
<1>3. /\ MigrationTypes /\ QueuesInv /\ PhasesInv /\ ExportInv
  BY DEF MigrationInv
<1>4. /\ job \in MigrationJobs /\ job.op = "add" /\ job.contact = c
      /\ job # AddingAccount /\ job # UpdatingAccount /\ \A d : job # UpdatingContact(d)
  BY JobsTyped
<1>5. ResultOf(job) = [op |-> "added", contact |-> c]
  BY DEF ResultOf
<1>6. ~Waiting(job)
  <2>1. \A i \in DOMAIN results : results[i] # ResultOf(job)
    BY <1>1, <1>3, <1>5 DEF QueuesInv
  <2> QED BY <1>1, <2>1 DEF Waiting, WaitingIn
<1> HIDE DEF job
<1>7. /\ Once' /\ MigrationQueues(jobs', results')
      /\ \A e : Waiting(e)' <=> Waiting(e) \/ e = job
      /\ \A i \in DOMAIN jobs' : (i \in DOMAIN jobs /\ jobs'[i] = jobs[i]) \/ jobs'[i] = job
  BY <1>1, <1>3, <1>4, <1>6, MigrationAppend DEF QueuesInv
<1>8. /\ Waiting(AddingAccount)' <=> Waiting(AddingAccount)
      /\ Waiting(UpdatingAccount)' <=> Waiting(UpdatingAccount)
      /\ \A d : Waiting(UpdatingContact(d))' <=> Waiting(UpdatingContact(d))
  BY <1>4, <1>7
<1>9. MigrationTypes'
  BY <1>1, <1>2, <1>3, <1>7 DEF MigrationTypes, MigrationQueues
<1>10. QueuesInv'
  <2>1. \A i \in DOMAIN jobs' : jobs'[i].op = "add" => items'[jobs'[i].contact] = "absent"
    BY <1>1, <1>3, <1>4, <1>7 DEF QueuesInv
  <2> QED BY <1>1, <1>2, <1>3, <1>7, <1>8, <2>1 DEF QueuesInv, Phase
<1>11. PhasesInv'
  BY <1>1, <1>2, <1>3, <1>8 DEF PhasesInv, Phase
<1> QED BY <1>1, <1>2, <1>3, <1>9, <1>10, <1>11 DEF MigrationInv, ExportInv

LEMMA ImportKeeps ==
    ASSUME MigrationInv, ImportData
    PROVE  MigrationInv'
<1>1. /\ Phase("importing") /\ (ImportSucceeds \/ ImportFails)
      /\ UNCHANGED <<oldAccount, newAccount, items, applied, awaited, toldOfMove, results>>
  BY DEF ImportData
<1>2. Settings' = Settings
  BY <1>1 DEF Settings
<1>3. /\ MigrationTypes /\ QueuesInv /\ PhasesInv /\ ExportInv
  BY DEF MigrationInv
<1>4. /\ ~Waiting(AddingAccount) /\ ~Waiting(UpdatingAccount)
      /\ \A c \in OldContacts : ~Waiting(UpdatingContact(c))
  BY <1>1, <1>3 DEF QueuesInv, Phase
<1>5. /\ migration.data = Settings /\ DOMAIN migration.data = OldContacts /\ imported = {} /\ awaited = {}
      /\ newAccount.state = "stored" /\ ~newAccount.awaited /\ ~toldOfMove.published
  BY <1>1, <1>3 DEF PhasesInv, MigrationTypes, Settings, Phase
<1>6. CASE ImportSucceeds
  <2>1. /\ imported' = OldContacts /\ exportFile' = NoFile /\ unsaved' = FALSE
        /\ migration' = [migration EXCEPT !.phase = "settings"]
        /\ jobs' = Append(jobs, UpdatingAccount)
    BY <1>5, <1>6 DEF ImportSucceeds, EnterPhase, UpdatingAccount
  <2>2. migration' = [phase |-> "settings", data |-> Settings]
    BY <1>3, <1>5, <2>1 DEF MigrationTypes
  <2>3. exportFile' = [state |-> "none", data |-> NoData]
    BY <2>1 DEF NoFile
  <2>4. /\ Once' /\ MigrationQueues(jobs', results')
        /\ \A e : Waiting(e)' <=> Waiting(e) \/ e = UpdatingAccount
        /\ \A i \in DOMAIN jobs' : (i \in DOMAIN jobs /\ jobs'[i] = jobs[i]) \/ jobs'[i] = UpdatingAccount
    BY <1>1, <1>3, <1>4, <2>1, MigrationAppend, JobsTyped DEF QueuesInv
  <2>5. /\ ~Waiting(AddingAccount)' /\ Waiting(UpdatingAccount)'
        /\ \A c \in OldContacts : ~Waiting(UpdatingContact(c))'
        /\ \A i \in DOMAIN jobs' : jobs'[i].op = "add" => i \in DOMAIN jobs /\ jobs'[i] = jobs[i]
    BY <1>4, <2>4, JobsTyped
  <2>6. MigrationTypes'
    <3>1. /\ migration'.phase \in Phases /\ migration' = [phase |-> migration'.phase, data |-> migration'.data]
          /\ exportFile' = [state |-> exportFile'.state, data |-> exportFile'.data]
          /\ exportFile'.state # "saved"
      BY <2>2, <2>3 DEF Phases
    <3> QED BY <1>1, <1>2, <1>3, <2>1, <2>4, <3>1 DEF MigrationTypes, MigrationQueues
  <2>7. QueuesInv'
    BY <1>1, <1>2, <1>3, <1>5, <2>2, <2>4, <2>5 DEF QueuesInv, Phase
  <2>8. PhasesInv'
    BY <1>1, <1>2, <1>3, <1>5, <2>1, <2>2, <2>5 DEF PhasesInv, Phase
  <2> QED BY <2>1, <2>6, <2>7, <2>8 DEF MigrationInv, ExportInv
<1>7. CASE ImportFails
  <2>1. /\ imported' \in SUBSET OldContacts /\ migration' = [phase |-> "none", data |-> NoData]
        /\ jobs' = jobs
        /\ \/ exportFile' = Saved(Settings) /\ unsaved' = unsaved
           \/ exportFile' \in {exportFile, NoFile} /\ unsaved' = TRUE
    BY <1>3, <1>5, <1>7 DEF ImportFails, SavedToDisk, CancelMigration, NoMigration, MigrationTypes
  <2>2. (Once' <=> Once) /\ \A e : Waiting(e)' <=> Waiting(e)
    BY <1>1, <2>1, WaitingSame
  <2>3. /\ exportFile' = [state |-> exportFile'.state, data |-> exportFile'.data]
        /\ exportFile'.state = "saved" => exportFile'.data = Settings
    <3>1. CASE exportFile' = Saved(Settings)
      BY <3>1 DEF Saved
    <3>2. CASE exportFile' = exportFile
      BY <1>3, <3>2 DEF MigrationTypes
    <3>3. CASE exportFile' = NoFile
      BY <3>3 DEF NoFile
    <3> QED BY <2>1, <3>1, <3>2, <3>3
  <2>4. MigrationTypes'
    BY <1>1, <1>2, <1>3, <2>1, <2>3 DEF MigrationTypes, Phases
  <2>5. QueuesInv'
    BY <1>1, <1>2, <1>3, <1>4, <2>1, <2>2 DEF QueuesInv
  <2>6. PhasesInv'
    BY <1>1, <1>2, <1>3, <1>5, <2>1, <2>2 DEF PhasesInv, Phase
  <2>7. ExportInv'
    BY <1>2, <2>1 DEF ExportInv
  <2> QED BY <2>4, <2>5, <2>6, <2>7 DEF MigrationInv
<1> QED BY <1>1, <1>6, <1>7

\* The kinds of jobs and signals
LEMMA JobKinds ==
    /\ \A e \in MigrationJobs :
          \/ e = AddingAccount \/ e = UpdatingAccount
          \/ \E c \in OldContacts : e = UpdatingContact(c) \/ e = [op |-> "add", contact |-> c]
    /\ \A r \in MigrationResults :
          \/ r = AddingAccount \/ r = UpdatingAccount
          \/ \E c \in OldContacts : \/ r = [op |-> "updated", contact |-> c]
                                    \/ r = [op |-> "added", contact |-> c]
<1>1. ASSUME NEW e \in MigrationJobs
      PROVE  \/ e = AddingAccount \/ e = UpdatingAccount
             \/ \E c \in OldContacts : e = UpdatingContact(c) \/ e = [op |-> "add", contact |-> c]
  <2>1. CASE e \in [op : {"add account", "update account"}]
    <3>1. e = [op |-> e.op] /\ e.op \in {"add account", "update account"}
      BY <2>1
    <3> QED BY <3>1 DEF AddingAccount, UpdatingAccount
  <2>2. CASE e \in [op : {"add", "update"}, contact : OldContacts]
    <3>1. e = [op |-> e.op, contact |-> e.contact] /\ e.op \in {"add", "update"} /\ e.contact \in OldContacts
      BY <2>2
    <3> QED BY <3>1 DEF UpdatingContact
  <2> QED BY <2>1, <2>2 DEF MigrationJobs
<1>2. ASSUME NEW r \in MigrationResults
      PROVE  \/ r = AddingAccount \/ r = UpdatingAccount
             \/ \E c \in OldContacts : \/ r = [op |-> "updated", contact |-> c]
                                       \/ r = [op |-> "added", contact |-> c]
  <2>1. CASE r \in [op : {"add account", "update account"}]
    <3>1. r = [op |-> r.op] /\ r.op \in {"add account", "update account"}
      BY <2>1
    <3> QED BY <3>1 DEF AddingAccount, UpdatingAccount
  <2>2. CASE r \in [op : {"added", "updated"}, contact : OldContacts]
    <3>1. r = [op |-> r.op, contact |-> r.contact] /\ r.op \in {"added", "updated"} /\ r.contact \in OldContacts
      BY <2>2
    <3> QED BY <3>1
  <2> QED BY <2>1, <2>2 DEF MigrationResults
<1> QED BY <1>1, <1>2

LEMMA RunMigrationKeeps ==
    ASSUME MigrationInv, RunMigrationJob
    PROVE  MigrationInv'
<1> DEFINE job == Head(jobs)
<1>1. /\ jobs # <<>> /\ jobs' = Tail(jobs)
      /\ UNCHANGED <<migration, exportFile, oldAccount, newAccount, imported, awaited, toldOfMove, unsaved>>
  BY DEF RunMigrationJob
<1>2. \/ /\ job.op = "add account" /\ UNCHANGED <<items, applied>>
         /\ results' = Append(results, job) \/ results' = results
      \/ /\ job.op = "update account" /\ UNCHANGED <<items, applied>>
         /\ results' = Append(results, job)
      \/ /\ job.op = "add" /\ UNCHANGED applied
         /\ items' = [items EXCEPT ![job.contact] = "stored"]
         /\ results' = Append(results, [job EXCEPT !.op = "added"])
      \/ /\ job.op = "update" /\ UNCHANGED items
         /\ applied' = [applied EXCEPT ![job.contact] = migration.data[job.contact]]
         /\ results' = Append(results, [job EXCEPT !.op = "updated"])
  BY DEF RunMigrationJob
<1>3. Settings' = Settings
  BY <1>1 DEF Settings
<1>4. /\ MigrationTypes /\ QueuesInv /\ PhasesInv /\ ExportInv
  BY DEF MigrationInv
<1>5. MigrationQueues(jobs, results)
  BY <1>4, QueuesTyped DEF QueuesInv
<1>6. /\ job \in MigrationJobs /\ 1 \in DOMAIN jobs /\ job = jobs[1]
      /\ \A i \in DOMAIN jobs' : i + 1 \in DOMAIN jobs /\ jobs'[i] = jobs[i + 1] /\ jobs'[i] # job
  BY <1>1, <1>5, QueueRun
<1>7. /\ MigrationQueues(jobs', Append(results, ResultOf(job)))
      /\ \A e \in MigrationJobs : WaitingIn(jobs', Append(results, ResultOf(job)), e) <=> Waiting(e)
      /\ \A i \in DOMAIN Append(results, ResultOf(job)) :
            \/ i \in DOMAIN results /\ Append(results, ResultOf(job))[i] = results[i]
            \/ Append(results, ResultOf(job))[i] = ResultOf(job)
  BY <1>1, <1>5, QueueRun DEF Waiting
<1>8. MigrationQueues(jobs', results)
      /\ \A e \in MigrationJobs : WaitingIn(jobs', results, e) <=> Waiting(e) /\ e # job
  BY <1>1, <1>5, QueueRun DEF Waiting
<1> HIDE DEF job
<1>9. Waiting(job)
  BY <1>6 DEF Waiting, WaitingIn
<1>10. \A i \in DOMAIN jobs' : jobs'[i].op = "add" => /\ items[jobs'[i].contact] = "absent"
                                                    /\ jobs'[i] # job
  BY <1>4, <1>6 DEF QueuesInv
\* What all of them have in common
<1>11. ASSUME results' = Append(results, ResultOf(job)) \/ (results' = results /\ job = AddingAccount),
              items' \in [OldContacts -> {"absent", "stored", "shown"}],
              applied' \in [OldContacts -> {"default", "muted", "loud"}],
              \A i \in DOMAIN jobs' : jobs'[i].op = "add" => items'[jobs'[i].contact] = "absent",
              \A i \in DOMAIN results' : results'[i].op = "added" => items'[results'[i].contact] = "stored",
              \A i \in DOMAIN results' : results'[i].op = "updated" =>
                 applied'[results'[i].contact] = Settings[results'[i].contact],
              \A c \in OldContacts : Waiting(UpdatingContact(c)) => items'[c] = items[c],
              \A c \in OldContacts : applied[c] = Settings[c] => applied'[c] = Settings[c]
       PROVE  MigrationInv'
  <2>1. /\ MigrationQueues(jobs', results')
        /\ \A e \in MigrationJobs : Waiting(e)' => Waiting(e)
        /\ \A e \in MigrationJobs : e # AddingAccount => (Waiting(e)' <=> Waiting(e))
    <3>1. CASE results' = Append(results, ResultOf(job))
      BY <3>1, <1>7 DEF Waiting
    <3>2. CASE results' = results /\ job = AddingAccount
      BY <3>2, <1>8 DEF Waiting
    <3> QED BY <1>11, <3>1, <3>2
  <2>2. MigrationTypes'
    BY <1>1, <1>3, <1>4, <1>11, <2>1 DEF MigrationTypes, MigrationQueues
  <2>3. /\ Waiting(AddingAccount)' => Waiting(AddingAccount)
        /\ Waiting(UpdatingAccount)' <=> Waiting(UpdatingAccount)
        /\ \A c \in OldContacts : Waiting(UpdatingContact(c))' <=> Waiting(UpdatingContact(c))
        /\ Once'
    BY <2>1, JobsTyped DEF MigrationQueues, Once
  <2>4. QueuesInv'
    <3>1. \A c \in OldContacts : Waiting(UpdatingContact(c))' =>
             Phase("settings")' /\ c \in awaited' /\ items'[c] = "shown"
      BY <1>1, <1>4, <1>11, <2>3 DEF QueuesInv, Phase
    <3>2. \A i \in DOMAIN results' : results'[i].op = "updated" =>
                 applied'[results'[i].contact] = Settings'[results'[i].contact]
      BY <1>3, <1>11
    <3>3. /\ \A i \in DOMAIN jobs' : jobs'[i].op = "add" => items'[jobs'[i].contact] = "absent"
          /\ \A i \in DOMAIN results' : results'[i].op = "added" => items'[results'[i].contact] = "stored"
      BY <1>11
    <3>4. Waiting(AddingAccount)' =>
             /\ Phase("waiting")' /\ newAccount'.state = "stored" /\ ~newAccount'.awaited /\ imported' = {}
      BY <1>1, <1>4, <2>3 DEF QueuesInv, Phase
    <3>5. Waiting(UpdatingAccount)' =>
             /\ Phase("settings")' /\ awaited' = {}
             /\ \A c \in OldContacts : ~Waiting(UpdatingContact(c))'
      BY <1>1, <1>4, <2>3 DEF QueuesInv, Phase
    <3> QED BY <2>3, <3>1, <3>2, <3>3, <3>4, <3>5 DEF QueuesInv
  <2>5. applied = Settings => applied' = Settings
    <3>1. Settings \in [OldContacts -> {"muted", "loud"}]
      BY <1>4 DEF MigrationTypes, Settings
    <3> QED BY <3>1, <1>11
  <2>6. PhasesInv'
    BY <1>1, <1>3, <1>4, <1>11, <2>3, <2>5 DEF PhasesInv, Phase
  <2> QED BY <1>1, <1>3, <1>4, <2>2, <2>4, <2>6 DEF MigrationInv, ExportInv
<1>12. /\ items \in [OldContacts -> {"absent", "stored", "shown"}]
       /\ applied \in [OldContacts -> {"default", "muted", "loud"}]
       /\ Settings \in [OldContacts -> {"muted", "loud"}]
  BY <1>4 DEF MigrationTypes, Settings
<1>13. /\ \A i \in DOMAIN results : results[i].op = "added" => items[results[i].contact] = "stored"
       /\ \A i \in DOMAIN results : results[i].op = "updated" =>
             applied[results[i].contact] = Settings[results[i].contact]
  BY <1>4 DEF QueuesInv
<1>14. ASSUME job = AddingAccount \/ job = UpdatingAccount
       PROVE  MigrationInv'
  <2>1. job.op \in {"add account", "update account"} /\ ResultOf(job) = job
    BY <1>14, JobsTyped, WaitingTyped
  <2>2. UNCHANGED <<items, applied>>
    BY <1>2, <2>1
  <2>3. results' = Append(results, ResultOf(job)) \/ (results' = results /\ job = AddingAccount)
    BY <1>2, <1>14, <2>1, JobsTyped
  <2>4. \A i \in DOMAIN results' : (i \in DOMAIN results /\ results'[i] = results[i])
                                   \/ results'[i].op \in {"add account", "update account"}
    BY <1>7, <2>1, <2>3
  <2>5. \A i \in DOMAIN results' : results'[i].op = "added" => items'[results'[i].contact] = "stored"
    BY <1>13, <2>2, <2>4
  <2>6. \A i \in DOMAIN results' : results'[i].op = "updated" =>
                 applied'[results'[i].contact] = Settings[results'[i].contact]
    BY <1>13, <2>2, <2>4
  <2> QED BY <1>10, <1>11, <1>12, <2>2, <2>3, <2>5, <2>6
<1>15. ASSUME NEW c \in OldContacts, job = [op |-> "add", contact |-> c]
       PROVE  MigrationInv'
  <2>1. job.op = "add" /\ job.contact = c
    BY <1>15
  <2>2. ResultOf(job) = [op |-> "added", contact |-> c] /\ [job EXCEPT !.op = "added"] = [op |-> "added", contact |-> c]
    BY <1>15 DEF ResultOf
  <2>3. /\ items' = [items EXCEPT ![c] = "stored"] /\ applied' = applied
        /\ results' = Append(results, ResultOf(job))
    BY <1>2, <2>1, <2>2
  <2>4. items[c] = "absent"
    BY <1>4, <1>6, <2>1 DEF QueuesInv
  <2>5. \A i \in DOMAIN jobs' : jobs'[i].op = "add" => jobs'[i].contact # c
    <3> SUFFICES ASSUME NEW i \in DOMAIN jobs', jobs'[i].op = "add", jobs'[i].contact = c
                 PROVE  FALSE
      OBVIOUS
    <3>1. jobs'[i] \in MigrationJobs
      BY <1>8 DEF MigrationQueues
    <3>2. PICK d \in OldContacts : jobs'[i] = UpdatingContact(d) \/ jobs'[i] = [op |-> "add", contact |-> d]
      BY <3>1, JobKinds, JobsTyped
    <3>3. jobs'[i] # UpdatingContact(d)
      BY JobsTyped
    <3>4. jobs'[i] = [op |-> "add", contact |-> d]
      BY <3>2, <3>3
    <3>5. d = c
      BY <3>4
    <3> QED BY <1>6, <1>15, <3>4, <3>5
  <2>6. \A i \in DOMAIN results' : (i \in DOMAIN results /\ results'[i] = results[i])
                                   \/ (results'[i].op = "added" /\ results'[i].contact = c)
    BY <1>7, <2>2, <2>3
  <2>7. \A i \in DOMAIN jobs' : jobs'[i].op = "add" => items'[jobs'[i].contact] = "absent"
    <3> SUFFICES ASSUME NEW i \in DOMAIN jobs', jobs'[i].op = "add"
                 PROVE  items'[jobs'[i].contact] = "absent"
      OBVIOUS
    <3>1. jobs'[i].contact # c /\ items[jobs'[i].contact] = "absent"
      BY <1>10, <2>5
    <3> QED BY <1>12, <2>3, <3>1
  <2>8. \A i \in DOMAIN results' : results'[i].op = "added" => items'[results'[i].contact] = "stored"
    BY <1>12, <1>13, <2>3, <2>6
  <2>9. \A i \in DOMAIN results' : results'[i].op = "updated" =>
                 applied'[results'[i].contact] = Settings[results'[i].contact]
    BY <1>13, <2>3, <2>6
  <2>10. \A d \in OldContacts : Waiting(UpdatingContact(d)) => items'[d] = items[d]
    BY <1>4, <1>12, <2>3, <2>4 DEF QueuesInv
  <2> QED BY <1>11, <1>12, <2>3, <2>7, <2>8, <2>9, <2>10
<1>16. ASSUME NEW c \in OldContacts, job = UpdatingContact(c)
       PROVE  MigrationInv'
  <2>1. job.op = "update" /\ job.contact = c
    BY <1>16, JobsTyped
  <2>2. ResultOf(job) = [op |-> "updated", contact |-> c] /\ [job EXCEPT !.op = "updated"] = [op |-> "updated", contact |-> c]
    BY <1>16 DEF ResultOf, UpdatingContact
  <2>3. Phase("settings")
    BY <1>4, <1>9, <1>16 DEF QueuesInv
  <2>4. migration.data = Settings
    BY <1>4, <2>3 DEF PhasesInv, Phase
  <2>5. /\ applied' = [applied EXCEPT ![c] = Settings[c]] /\ items' = items
        /\ results' = Append(results, ResultOf(job))
    BY <1>2, <2>1, <2>2, <2>4
  <2>6. \A i \in DOMAIN results' : (i \in DOMAIN results /\ results'[i] = results[i])
                                   \/ (results'[i].op = "updated" /\ results'[i].contact = c)
    BY <1>7, <2>2, <2>5
  <2>7. \A i \in DOMAIN results' : results'[i].op = "added" => items'[results'[i].contact] = "stored"
    BY <1>13, <2>5, <2>6
  <2>8. \A i \in DOMAIN results' : results'[i].op = "updated" =>
                 applied'[results'[i].contact] = Settings[results'[i].contact]
    BY <1>12, <1>13, <2>5, <2>6
  <2>9. applied' \in [OldContacts -> {"default", "muted", "loud"}]
        /\ \A d \in OldContacts : applied[d] = Settings[d] => applied'[d] = Settings[d]
    BY <1>12, <2>5
  <2> QED BY <1>10, <1>11, <1>12, <2>5, <2>7, <2>8, <2>9
<1> QED BY <1>6, <1>14, <1>15, <1>16, JobKinds

\* A signal is handled: what the four kinds have in common
LEMMA SignalHandled ==
    ASSUME MigrationInv, HandleMigrationResult
    PROVE  /\ UNCHANGED <<exportFile, oldAccount, imported, applied, toldOfMove, unsaved>>
           /\ Settings' = Settings
           /\ results # <<>> /\ results' = Tail(results) /\ Head(results) \in MigrationResults
           /\ MigrationQueues(jobs, results')
           /\ \E i \in DOMAIN results : results[i] = Head(results)
           /\ \A e \in MigrationJobs :
                 WaitingIn(jobs, results', e) <=> Waiting(e) /\ ResultOf(e) # Head(results)
           /\ \A i \in DOMAIN results' : i + 1 \in DOMAIN results /\ results'[i] = results[i + 1]
                                         /\ results'[i] # Head(results)
<1>1. /\ UNCHANGED <<exportFile, oldAccount, imported, applied, toldOfMove, unsaved>>
      /\ results # <<>> /\ results' = Tail(results)
  BY DEF HandleMigrationResult
<1>2. MigrationQueues(jobs, results)
  BY QueuesTyped DEF MigrationInv, QueuesInv
<1>3. Settings' = Settings
  BY <1>1 DEF Settings
<1>4. /\ Head(results) \in MigrationResults /\ 1 \in DOMAIN results /\ Head(results) = results[1]
      /\ \A i \in DOMAIN results' : i + 1 \in DOMAIN results /\ results'[i] = results[i + 1]
                                    /\ results'[i] # Head(results)
      /\ MigrationQueues(jobs, results')
      /\ \A e \in MigrationJobs :
            WaitingIn(jobs, results', e) <=> WaitingIn(jobs, results, e) /\ ResultOf(e) # Head(results)
  <2>1. /\ Head(results) \in MigrationResults /\ 1 \in DOMAIN results /\ Head(results) = results[1]
        /\ \A i \in DOMAIN Tail(results) : /\ i + 1 \in DOMAIN results
                                           /\ Tail(results)[i] = results[i + 1]
                                           /\ Tail(results)[i] # Head(results)
        /\ MigrationQueues(jobs, Tail(results))
        /\ \A e \in MigrationJobs :
              WaitingIn(jobs, Tail(results), e) <=> WaitingIn(jobs, results, e) /\ ResultOf(e) # Head(results)
    BY <1>1, <1>2, QueueHandled
  <2> QED BY <1>1, <2>1
<1>5. \E i \in DOMAIN results : results[i] = Head(results)
  BY <1>4
<1>6. \A e \in MigrationJobs :
         WaitingIn(jobs, results', e) <=> Waiting(e) /\ ResultOf(e) # Head(results)
  BY <1>4 DEF Waiting
<1> QED BY <1>1, <1>3, <1>4, <1>5, <1>6

\* The new account was added.
LEMMA AccountAddedKeeps ==
    ASSUME MigrationInv, HandleMigrationResult, Head(results) = AddingAccount
    PROVE  MigrationInv'
<1>1. /\ newAccount' = [newAccount EXCEPT !.awaited = @ \/ ~Phase("none")]
      /\ UNCHANGED <<items, awaited, jobs, migration>>
  BY JobsTyped DEF HandleMigrationResult, HandleAccountAdded
<1>2. /\ MigrationTypes /\ QueuesInv /\ PhasesInv /\ ExportInv
  BY DEF MigrationInv
<1>3. Waiting(AddingAccount)
  BY SignalHandled, WaitingTyped DEF Waiting, WaitingIn
<1>4. /\ MigrationQueues(jobs', results') /\ Once'
      /\ \A e \in MigrationJobs : Waiting(e)' <=> Waiting(e) /\ ResultOf(e) # AddingAccount
  BY <1>1, SignalHandled DEF MigrationQueues, Once, Waiting
<1>5. /\ ~Waiting(AddingAccount)'
      /\ Waiting(UpdatingAccount)' <=> Waiting(UpdatingAccount)
      /\ \A c \in OldContacts : Waiting(UpdatingContact(c))' <=> Waiting(UpdatingContact(c))
  <2>1. \A e, f \in MigrationJobs : ResultOf(e) = ResultOf(f) => e = f
    BY WaitingTyped
  <2>2. ResultOf(AddingAccount) = AddingAccount
    BY WaitingTyped
  <2> QED BY <1>4, <2>1, <2>2, JobsTyped
<1>6. Phase("waiting") /\ newAccount.state = "stored" /\ imported = {} /\ ~toldOfMove.published
  BY <1>2, <1>3 DEF QueuesInv, PhasesInv
<1>7. /\ newAccount'.state = newAccount.state /\ newAccount'.connected = newAccount.connected
      /\ newAccount' \in [state : {"none", "created", "stored"}, connected : BOOLEAN, awaited : BOOLEAN]
  BY <1>1, <1>2 DEF MigrationTypes
<1>8. MigrationTypes'
  BY <1>1, <1>2, <1>4, <1>7, SignalHandled DEF MigrationTypes, MigrationQueues
<1>9. QueuesInv'
  <2>1. /\ \A i \in DOMAIN jobs' : jobs'[i].op = "add" => items'[jobs'[i].contact] = "absent"
        /\ \A i \in DOMAIN results' : results'[i].op = "added" => items'[results'[i].contact] = "stored"
        /\ \A i \in DOMAIN results' : results'[i].op = "updated" =>
              applied'[results'[i].contact] = Settings'[results'[i].contact]
    BY <1>1, <1>2, SignalHandled DEF QueuesInv
  <2>2. Waiting(UpdatingAccount)' =>
          /\ Phase("settings")' /\ awaited' = {}
          /\ \A c \in OldContacts : ~Waiting(UpdatingContact(c))'
    BY <1>1, <1>2, <1>5 DEF QueuesInv, Phase
  <2>3. \A c \in OldContacts : Waiting(UpdatingContact(c))' =>
          Phase("settings")' /\ c \in awaited' /\ items'[c] = "shown"
    BY <1>1, <1>2, <1>5 DEF QueuesInv, Phase
  <2> QED BY <1>4, <1>5, <2>1, <2>2, <2>3 DEF QueuesInv
<1>10. PhasesInv'
  BY <1>1, <1>2, <1>5, <1>6, <1>7, SignalHandled DEF PhasesInv, Phase
<1> QED BY <1>2, <1>8, <1>9, <1>10, SignalHandled DEF MigrationInv, ExportInv

\* The settings of the account were imported: those of its contacts follow.
LEMMA AccountUpdatedKeeps ==
    ASSUME MigrationInv, HandleMigrationResult, Head(results) = UpdatingAccount
    PROVE  MigrationInv'
<1> DEFINE C == {c \in DOMAIN migration.data : items[c] = "shown"}
           new == SetToSeq(UpdatingContacts(C))
<1>1. /\ UpdateItems
      /\ migration' = IF awaited' = {} THEN [migration EXCEPT !.phase = "publishing"] ELSE migration
  BY JobsTyped DEF HandleMigrationResult, EnterPhase
<1>2. /\ MigrationTypes /\ QueuesInv /\ PhasesInv /\ ExportInv
  BY DEF MigrationInv
<1>3. Waiting(UpdatingAccount)
  BY SignalHandled, WaitingTyped DEF Waiting, WaitingIn
<1>4. /\ Phase("settings") /\ awaited = {} /\ \A c \in OldContacts : ~Waiting(UpdatingContact(c))
  BY <1>2, <1>3 DEF QueuesInv
<1>5. /\ migration.data = Settings /\ imported = OldContacts
      /\ newAccount.state = "stored" /\ ~newAccount.awaited /\ ~toldOfMove.published
  BY <1>2, <1>4 DEF PhasesInv, Phase
<1>6. Settings \in [OldContacts -> {"muted", "loud"}] /\ DOMAIN migration.data = OldContacts
  BY <1>2, <1>5 DEF MigrationTypes, Settings
<1>7. /\ awaited' = OldContacts /\ UNCHANGED <<newAccount, items>>
      /\ C = {d \in awaited' : items[d] = "shown"} /\ C \in SUBSET OldContacts
      /\ jobs' = jobs \o new
  BY <1>1, <1>6 DEF UpdateItems, UpdatingContact, UpdatingContacts
<1> HIDE DEF new
<1>8. \A c \in C : ~WaitingIn(jobs, results', UpdatingContact(c))
  BY <1>4, <1>7, SignalHandled, JobsTyped
<1>9. /\ MigrationQueues(jobs', results')
      /\ \A e : WaitingIn(jobs', results', e) <=>
                   WaitingIn(jobs, results', e) \/ \E c \in C : e = UpdatingContact(c)
      /\ \A i \in DOMAIN jobs' :
            \/ i \in DOMAIN jobs /\ jobs'[i] = jobs[i]
            \/ \E c \in C : jobs'[i] = UpdatingContact(c)
  <2> HIDE DEF C
  <2>1. MigrationQueues(jobs, results')
    BY SignalHandled
  <2>2. new = SetToSeq(UpdatingContacts(C))
    BY DEF new
  <2>3. C \in SUBSET OldContacts
    BY <1>7
  <2>4. /\ MigrationQueues(jobs \o new, results')
        /\ \A e : WaitingIn(jobs \o new, results', e) <=>
                     WaitingIn(jobs, results', e) \/ \E c \in C : e = UpdatingContact(c)
        /\ \A i \in DOMAIN (jobs \o new) :
              \/ i \in DOMAIN jobs /\ (jobs \o new)[i] = jobs[i]
              \/ \E c \in C : (jobs \o new)[i] = UpdatingContact(c)
    BY <1>8, <2>1, <2>2, <2>3, QueueUpdates
  <2>5. jobs' = jobs \o new
    BY <1>7
  <2> QED BY <2>4, <2>5
<1> HIDE DEF C
<1>10. /\ ~Waiting(UpdatingAccount)' /\ ~Waiting(AddingAccount)' /\ Once'
       /\ \A c \in OldContacts : Waiting(UpdatingContact(c))' => c \in C
  <2>1. ~Waiting(AddingAccount)
    BY <1>2, <1>4 DEF QueuesInv, Phase
  <2>2. /\ ~WaitingIn(jobs, results', UpdatingAccount) /\ ~WaitingIn(jobs, results', AddingAccount)
        /\ \A c \in OldContacts : ~WaitingIn(jobs, results', UpdatingContact(c))
    <3>1. ResultOf(UpdatingAccount) = UpdatingAccount
      BY WaitingTyped
    <3> QED BY <1>4, <2>1, <3>1, SignalHandled, JobsTyped
  <2>3. \A c, d : UpdatingContact(c) = UpdatingContact(d) => c = d
    BY DEF UpdatingContact
  <2>4. \A c \in OldContacts : Waiting(UpdatingContact(c))' => c \in C
    BY <1>9, <2>2, <2>3 DEF Waiting
  <2>5. ~Waiting(UpdatingAccount)' /\ ~Waiting(AddingAccount)'
    BY <1>9, <2>2, JobsTyped DEF Waiting
  <2> QED BY <1>9, <2>4, <2>5 DEF MigrationQueues, Once
<1>11. migration' = [phase |-> IF OldContacts = {} THEN "publishing" ELSE "settings", data |-> Settings]
  <2>1. migration = [phase |-> "settings", data |-> Settings]
    BY <1>2, <1>4, <1>5 DEF MigrationTypes, Phase
  <2> QED BY <1>1, <1>7, <2>1
<1>12. MigrationTypes'
  <2>1. /\ migration'.phase \in Phases /\ migration' = [phase |-> migration'.phase, data |-> migration'.data]
    BY <1>11 DEF Phases
  <2> QED BY <1>2, <1>7, <1>9, <2>1, SignalHandled DEF MigrationTypes, MigrationQueues
<1>13. QueuesInv'
  <2>1. \A i \in DOMAIN jobs' : jobs'[i].op = "add" => items'[jobs'[i].contact] = "absent"
    <3>1. \A i \in DOMAIN jobs' : (i \in DOMAIN jobs /\ jobs'[i] = jobs[i]) \/ jobs'[i].op = "update"
      BY <1>9, JobsTyped
    <3> QED BY <1>2, <1>7, <3>1 DEF QueuesInv
  <2>2. /\ \A i \in DOMAIN results' : results'[i].op = "added" => items'[results'[i].contact] = "stored"
        /\ \A i \in DOMAIN results' : results'[i].op = "updated" =>
              applied'[results'[i].contact] = Settings'[results'[i].contact]
    BY <1>2, <1>7, SignalHandled DEF QueuesInv
  <2>3. \A c \in OldContacts : Waiting(UpdatingContact(c))' =>
          Phase("settings")' /\ c \in awaited' /\ items'[c] = "shown"
    BY <1>7, <1>10, <1>11 DEF Phase
  <2> QED BY <1>10, <2>1, <2>2, <2>3 DEF QueuesInv
<1>14. OldContacts = {} => applied = Settings
  BY <1>2, <1>6 DEF MigrationTypes
<1>15. PhasesInv'
  BY <1>2, <1>5, <1>7, <1>10, <1>11, <1>14, SignalHandled DEF PhasesInv, Phase
<1> QED BY <1>2, <1>12, <1>13, <1>15, SignalHandled DEF MigrationInv, ExportInv

\* A contact is shown now, its settings can be applied.
LEMMA ContactAddedKeeps ==
    ASSUME MigrationInv, HandleMigrationResult, NEW c \in OldContacts,
           Head(results) = [op |-> "added", contact |-> c]
    PROVE  MigrationInv'
<1>1. /\ items' = [items EXCEPT ![c] = "shown"]
      /\ jobs' = IF c \in awaited THEN Append(jobs, UpdatingContact(c)) ELSE jobs
      /\ UNCHANGED <<newAccount, awaited, migration>>
  <2>1. Head(results).op = "added" /\ Head(results).contact = c
    OBVIOUS
  <2> QED BY <2>1 DEF HandleMigrationResult, ItemAdded, UpdatingContact
<1>2. /\ MigrationTypes /\ QueuesInv /\ PhasesInv /\ ExportInv
  BY DEF MigrationInv
<1>3. items[c] = "stored"
  BY <1>2, SignalHandled DEF QueuesInv
<1>4. ~Waiting(UpdatingContact(c))
  BY <1>2, <1>3 DEF QueuesInv
<1>5. \A e \in MigrationJobs : e = AddingAccount \/ e = UpdatingAccount \/ (\E d : e = UpdatingContact(d)) =>
         ResultOf(e) # Head(results)
  <2>1. Head(results).op = "added"
    OBVIOUS
  <2>2. \A d : ResultOf(UpdatingContact(d)).op = "updated"
    BY WaitingTyped
  <2>3. ResultOf(AddingAccount).op = "add account" /\ ResultOf(UpdatingAccount).op = "update account"
    BY WaitingTyped, JobsTyped
  <2> QED BY <2>1, <2>2, <2>3
<1>6. \A e \in MigrationJobs : e = AddingAccount \/ e = UpdatingAccount \/ (\E d : e = UpdatingContact(d)) =>
         (WaitingIn(jobs, results', e) <=> Waiting(e))
  BY <1>5, SignalHandled
<1>7. /\ MigrationQueues(jobs', results') /\ Once'
      /\ Waiting(AddingAccount)' <=> Waiting(AddingAccount)
      /\ Waiting(UpdatingAccount)' <=> Waiting(UpdatingAccount)
      /\ \A d \in OldContacts : Waiting(UpdatingContact(d))' <=> \/ Waiting(UpdatingContact(d))
                                                                 \/ d = c /\ c \in awaited
      /\ \A i \in DOMAIN jobs' : (i \in DOMAIN jobs /\ jobs'[i] = jobs[i]) \/ jobs'[i].op = "update"
  <2>1. CASE c \in awaited
    <3> DEFINE e == UpdatingContact(c)
    <3>1. e \in MigrationJobs /\ jobs' = Append(jobs, e)
      BY <1>1, <2>1, JobsTyped
    <3>2. ~WaitingIn(jobs, results', e)
      BY <1>4, <1>6, <3>1
    <3>3. MigrationQueues(jobs, results')
      BY SignalHandled
    <3> HIDE DEF e
    <3>4. /\ MigrationQueues(Append(jobs, e), results')
          /\ \A x : WaitingIn(Append(jobs, e), results', x) <=> WaitingIn(jobs, results', x) \/ x = e
          /\ \A i \in DOMAIN Append(jobs, e) :
                (i \in DOMAIN jobs /\ Append(jobs, e)[i] = jobs[i]) \/ Append(jobs, e)[i] = e
      BY <3>1, <3>2, <3>3, QueueMore
    <3>5. \A x : Waiting(x)' <=> WaitingIn(jobs, results', x) \/ x = e
      BY <3>1, <3>4 DEF Waiting
    <3>6. /\ Waiting(AddingAccount)' <=> Waiting(AddingAccount)
          /\ Waiting(UpdatingAccount)' <=> Waiting(UpdatingAccount)
      BY <1>6, <3>5, JobsTyped DEF e
    <3>7. \A d \in OldContacts : Waiting(UpdatingContact(d))' <=> Waiting(UpdatingContact(d)) \/ d = c
      <4>1. \A d : UpdatingContact(d) = e => d = c
        BY DEF e, UpdatingContact
      <4>2. \A d \in OldContacts : WaitingIn(jobs, results', UpdatingContact(d)) <=> Waiting(UpdatingContact(d))
        BY <1>6, JobsTyped
      <4>3. UpdatingContact(c) = e
        BY DEF e
      <4> QED BY <3>5, <4>1, <4>2, <4>3
    <3>8. e.op = "update"
      BY JobsTyped DEF e
    <3>9. MigrationQueues(jobs', results')
          /\ \A i \in DOMAIN jobs' : (i \in DOMAIN jobs /\ jobs'[i] = jobs[i]) \/ jobs'[i].op = "update"
      BY <3>1, <3>4, <3>8
    <3> QED BY <2>1, <3>6, <3>7, <3>9 DEF MigrationQueues, Once
  <2>2. CASE c \notin awaited
    <3>1. jobs' = jobs
      BY <1>1, <2>2
    <3>2. MigrationQueues(jobs', results')
      BY <3>1, SignalHandled
    <3>3. \A e \in MigrationJobs : WaitingIn(jobs, results', e) <=> Waiting(e)'
      BY <3>1 DEF Waiting
    <3>4. /\ Waiting(AddingAccount)' <=> Waiting(AddingAccount)
          /\ Waiting(UpdatingAccount)' <=> Waiting(UpdatingAccount)
          /\ \A d \in OldContacts : Waiting(UpdatingContact(d))' <=> Waiting(UpdatingContact(d))
      BY <1>6, <3>3, JobsTyped
    <3> QED BY <2>2, <3>1, <3>2, <3>4 DEF MigrationQueues, Once
  <2> QED BY <2>1, <2>2
<1>8. \A d \in OldContacts : items'[d] = IF d = c THEN "shown" ELSE items[d]
  BY <1>1, <1>2 DEF MigrationTypes
<1>9. MigrationTypes'
  <2>1. items' \in [OldContacts -> {"absent", "stored", "shown"}]
    BY <1>1, <1>2 DEF MigrationTypes
  <2> QED BY <1>1, <1>2, <1>7, <2>1, SignalHandled DEF MigrationTypes, MigrationQueues
<1>10. QueuesInv'
  <2>1. \A i \in DOMAIN jobs' : jobs'[i].op = "add" => items'[jobs'[i].contact] = "absent"
    <3> SUFFICES ASSUME NEW i \in DOMAIN jobs', jobs'[i].op = "add"
                 PROVE  items'[jobs'[i].contact] = "absent"
      OBVIOUS
    <3>1. i \in DOMAIN jobs /\ jobs'[i] = jobs[i] /\ items[jobs[i].contact] = "absent"
      BY <1>2, <1>7 DEF QueuesInv
    <3> QED BY <1>1, <1>2, <1>3, <3>1 DEF MigrationTypes
  <2>2. \A i \in DOMAIN results' : results'[i].op = "added" => items'[results'[i].contact] = "stored"
    <3> SUFFICES ASSUME NEW i \in DOMAIN results', results'[i].op = "added"
                 PROVE  items'[results'[i].contact] = "stored"
      OBVIOUS
    <3>1. i + 1 \in DOMAIN results /\ results'[i] = results[i + 1] /\ results'[i] # Head(results)
      BY SignalHandled
    <3>2. items[results'[i].contact] = "stored"
      BY <1>2, <3>1 DEF QueuesInv
    <3>3. results'[i] \in MigrationResults
      BY <1>7 DEF MigrationQueues
    <3>4. results'[i] # AddingAccount /\ results'[i] # UpdatingAccount
      BY JobsTyped
    <3>5. PICK d \in OldContacts : \/ results'[i] = [op |-> "updated", contact |-> d]
                                   \/ results'[i] = [op |-> "added", contact |-> d]
      BY <3>3, <3>4, JobKinds
    <3>6. results'[i] = [op |-> "added", contact |-> d]
      BY <3>5
    <3>7. d # c /\ results'[i].contact = d
      BY <3>1, <3>6
    <3> QED BY <1>8, <3>2, <3>7
  <2>3. \A i \in DOMAIN results' : results'[i].op = "updated" =>
              applied'[results'[i].contact] = Settings'[results'[i].contact]
    BY <1>2, SignalHandled DEF QueuesInv
  <2>4. \A d \in OldContacts : Waiting(UpdatingContact(d))' =>
          Phase("settings")' /\ d \in awaited' /\ items'[d] = "shown"
    <3>1. awaited # {} => Phase("settings")
      BY <1>2 DEF PhasesInv, Phase
    <3> QED BY <1>1, <1>2, <1>7, <1>8, <3>1 DEF QueuesInv, Phase
  <2>5. Waiting(UpdatingAccount)' =>
          /\ Phase("settings")' /\ awaited' = {}
          /\ \A d \in OldContacts : ~Waiting(UpdatingContact(d))'
    BY <1>1, <1>2, <1>7 DEF QueuesInv, Phase
  <2>6. Waiting(AddingAccount)' =>
          /\ Phase("waiting")' /\ newAccount'.state = "stored" /\ ~newAccount'.awaited
          /\ imported' = {}
    BY <1>1, <1>2, <1>7, SignalHandled DEF QueuesInv, Phase
  <2> QED BY <1>7, <2>1, <2>2, <2>3, <2>4, <2>5, <2>6 DEF QueuesInv
<1>11. PhasesInv'
  BY <1>1, <1>2, <1>7, SignalHandled DEF PhasesInv, Phase
<1> QED BY <1>2, <1>9, <1>10, <1>11, SignalHandled DEF MigrationInv, ExportInv

\* The settings of a contact were applied: the last one ends the import.
LEMMA ContactUpdatedKeeps ==
    ASSUME MigrationInv, HandleMigrationResult, NEW c \in OldContacts,
           Head(results) = [op |-> "updated", contact |-> c]
    PROVE  MigrationInv'
<1>1. /\ awaited' = awaited \ {c}
      /\ migration' = IF awaited' = {} THEN [migration EXCEPT !.phase = "publishing"] ELSE migration
      /\ UNCHANGED <<newAccount, items, jobs>>
  <2>1. Head(results).op = "updated" /\ Head(results).contact = c
    OBVIOUS
  <2> QED BY <2>1 DEF HandleMigrationResult, EnterPhase
<1>2. /\ MigrationTypes /\ QueuesInv /\ PhasesInv /\ ExportInv
  BY DEF MigrationInv
<1>3. Waiting(UpdatingContact(c)) /\ applied[c] = Settings[c]
  <2>1. Waiting(UpdatingContact(c))
    BY SignalHandled, WaitingTyped DEF Waiting, WaitingIn
  <2> QED BY <1>2, <2>1, SignalHandled DEF QueuesInv
<1>4. /\ Phase("settings") /\ ~Waiting(UpdatingAccount) /\ ~Waiting(AddingAccount)
  BY <1>2, <1>3 DEF QueuesInv, Phase
<1>5. /\ migration.data = Settings /\ imported = OldContacts
      /\ newAccount.state = "stored" /\ ~newAccount.awaited /\ ~toldOfMove.published
      /\ \A d \in OldContacts : d \in awaited \/ applied[d] = Settings[d]
  BY <1>2, <1>4 DEF PhasesInv, Phase
<1>6. /\ Settings \in [OldContacts -> {"muted", "loud"}]
      /\ applied \in [OldContacts -> {"default", "muted", "loud"}]
  BY <1>2 DEF MigrationTypes, Settings
<1>7. /\ MigrationQueues(jobs', results') /\ Once'
      /\ \A e \in MigrationJobs : Waiting(e)' <=> Waiting(e) /\ ResultOf(e) # Head(results)
  BY <1>1, SignalHandled DEF MigrationQueues, Once, Waiting
<1>8. /\ ~Waiting(UpdatingAccount)' /\ ~Waiting(AddingAccount)'
      /\ \A d \in OldContacts : Waiting(UpdatingContact(d))' => Waiting(UpdatingContact(d)) /\ d # c
  <2>1. ResultOf(UpdatingContact(c)) = Head(results)
    BY WaitingTyped
  <2> QED BY <1>4, <1>7, <2>1, JobsTyped
<1>9. migration' = [phase |-> IF awaited' = {} THEN "publishing" ELSE "settings", data |-> Settings]
  <2>1. migration = [phase |-> "settings", data |-> Settings]
    BY <1>2, <1>4, <1>5 DEF MigrationTypes, Phase
  <2> QED BY <1>1, <2>1
<1>10. MigrationTypes'
  <2>1. /\ migration'.phase \in Phases /\ migration' = [phase |-> migration'.phase, data |-> migration'.data]
    BY <1>9 DEF Phases
  <2> QED BY <1>1, <1>2, <1>7, <2>1, SignalHandled DEF MigrationTypes, MigrationQueues
<1>11. QueuesInv'
  <2>1. \A i \in DOMAIN jobs' : jobs'[i].op = "add" => items'[jobs'[i].contact] = "absent"
    BY <1>1, <1>2 DEF QueuesInv
  <2>2. /\ \A i \in DOMAIN results' : results'[i].op = "added" => items'[results'[i].contact] = "stored"
        /\ \A i \in DOMAIN results' : results'[i].op = "updated" =>
              applied'[results'[i].contact] = Settings'[results'[i].contact]
    BY <1>1, <1>2, SignalHandled DEF QueuesInv
  <2>3. \A d \in OldContacts : Waiting(UpdatingContact(d))' =>
          Phase("settings")' /\ d \in awaited' /\ items'[d] = "shown"
    <3> SUFFICES ASSUME NEW d \in OldContacts, Waiting(UpdatingContact(d))'
                 PROVE  Phase("settings")' /\ d \in awaited' /\ items'[d] = "shown"
      OBVIOUS
    <3>1. d # c /\ d \in awaited /\ items[d] = "shown"
      BY <1>2, <1>8 DEF QueuesInv
    <3>2. d \in awaited'
      BY <1>1, <3>1
    <3> QED BY <1>1, <1>9, <3>1, <3>2 DEF Phase
  <2> QED BY <1>7, <1>8, <2>1, <2>2, <2>3 DEF QueuesInv
<1>12. \A d \in OldContacts : d \in awaited' \/ applied[d] = Settings[d]
  BY <1>1, <1>3, <1>5
<1>13. awaited' = {} => applied = Settings
  BY <1>6, <1>12
<1>14. PhasesInv'
  BY <1>1, <1>2, <1>5, <1>8, <1>9, <1>12, <1>13, SignalHandled DEF PhasesInv, Phase
<1> QED BY <1>2, <1>10, <1>11, <1>14, SignalHandled DEF MigrationInv, ExportInv

LEMMA ResultKeeps ==
    ASSUME MigrationInv, HandleMigrationResult
    PROVE  MigrationInv'
BY SignalHandled, JobKinds, AccountAddedKeeps, AccountUpdatedKeeps, ContactAddedKeeps, ContactUpdatedKeeps

LEMMA PublishKeeps ==
    ASSUME MigrationInv, Publish
    PROVE  MigrationInv'
<1>1. /\ Phase("publishing")
      /\ UNCHANGED <<exportFile, oldAccount, newAccount, imported, items, applied, awaited, unsaved,
                     jobs, results>>
      /\ \/ /\ toldOfMove' = [toldOfMove EXCEPT !.published = TRUE]
            /\ migration' = IF DOMAIN migration.data = {} THEN NoMigration
                            ELSE [migration EXCEPT !.phase = "notifying"]
         \/ /\ migration' = NoMigration /\ UNCHANGED toldOfMove
  BY DEF Publish, MayPublish, EnterPhase, CancelMigration
<1>2. /\ MigrationTypes /\ QueuesInv /\ PhasesInv /\ ExportInv
  BY DEF MigrationInv
<1>3. /\ imported = OldContacts /\ applied = Settings /\ awaited = {}
      /\ newAccount.state = "stored" /\ ~newAccount.awaited /\ ~toldOfMove.published
      /\ migration.data = Settings
      /\ ~Waiting(AddingAccount) /\ ~Waiting(UpdatingAccount)
      /\ \A c \in OldContacts : ~Waiting(UpdatingContact(c))
  BY <1>1, <1>2 DEF PhasesInv, QueuesInv, Phase
<1>4. Settings' = Settings /\ (Once' <=> Once) /\ \A e : Waiting(e)' <=> Waiting(e)
  BY <1>1, WaitingSame DEF Settings
<1>5. /\ migration' = [phase |-> migration'.phase, data |-> migration'.data]
      /\ migration'.phase \in {"none", "notifying"}
      /\ migration'.phase = "notifying" => migration'.data = Settings /\ toldOfMove'.published
  <2>1. migration = [phase |-> migration.phase, data |-> Settings]
    BY <1>2, <1>3 DEF MigrationTypes
  <2>2. CASE migration' = NoMigration
    BY <2>2 DEF NoMigration
  <2>3. CASE /\ migration' = [migration EXCEPT !.phase = "notifying"]
             /\ toldOfMove' = [toldOfMove EXCEPT !.published = TRUE]
    <3>1. migration' = [phase |-> "notifying", data |-> Settings]
      BY <2>1, <2>3
    <3>2. toldOfMove'.published
      BY <1>2, <2>3 DEF MigrationTypes
    <3> QED BY <3>1, <3>2
  <2> QED BY <1>1, <2>2, <2>3
<1>6. /\ toldOfMove' \in [contacts : SUBSET OldContacts, published : BOOLEAN]
      /\ toldOfMove'.contacts = toldOfMove.contacts
  BY <1>1, <1>2 DEF MigrationTypes
<1>7. MigrationTypes'
  BY <1>1, <1>2, <1>4, <1>5, <1>6 DEF MigrationTypes, Phases
<1>8. QueuesInv'
  BY <1>1, <1>2, <1>3, <1>4 DEF QueuesInv
<1>9. PhasesInv'
  BY <1>1, <1>2, <1>3, <1>4, <1>5, <1>6 DEF PhasesInv, Phase
<1> QED BY <1>1, <1>2, <1>4, <1>7, <1>8, <1>9 DEF MigrationInv, ExportInv

LEMMA NotifyKeeps ==
    ASSUME MigrationInv, NotifyContacts
    PROVE  MigrationInv'
<1>1. /\ Phase("notifying") /\ migration' = NoMigration
      /\ UNCHANGED <<exportFile, oldAccount, newAccount, imported, items, applied, awaited, unsaved,
                     jobs, results>>
      /\ \/ toldOfMove' = [toldOfMove EXCEPT !.contacts = OldContacts]
         \/ toldOfMove' \in [contacts : SUBSET OldContacts, published : {TRUE}]
         \/ UNCHANGED toldOfMove
  BY DEF NotifyContacts, CancelMigration
<1>2. /\ MigrationTypes /\ QueuesInv /\ PhasesInv /\ ExportInv
  BY DEF MigrationInv
<1>3. /\ imported = OldContacts /\ applied = Settings /\ awaited = {}
      /\ newAccount.state = "stored" /\ ~newAccount.awaited /\ toldOfMove.published
      /\ ~Waiting(AddingAccount) /\ ~Waiting(UpdatingAccount)
      /\ \A c \in OldContacts : ~Waiting(UpdatingContact(c))
  BY <1>1, <1>2 DEF PhasesInv, QueuesInv, Phase
<1>4. Settings' = Settings /\ (Once' <=> Once) /\ \A e : Waiting(e)' <=> Waiting(e)
  BY <1>1, WaitingSame DEF Settings
<1>5. migration' = [phase |-> migration'.phase, data |-> migration'.data] /\ migration'.phase = "none"
  BY <1>1 DEF NoMigration
<1>6. toldOfMove' \in [contacts : SUBSET OldContacts, published : BOOLEAN] /\ toldOfMove'.published
  BY <1>1, <1>2, <1>3 DEF MigrationTypes
<1>7. MigrationTypes'
  BY <1>1, <1>2, <1>4, <1>5, <1>6 DEF MigrationTypes, Phases
<1>8. QueuesInv'
  BY <1>1, <1>2, <1>3, <1>4 DEF QueuesInv
<1>9. PhasesInv'
  BY <1>1, <1>2, <1>3, <1>4, <1>5, <1>6 DEF PhasesInv, Phase
<1> QED BY <1>1, <1>2, <1>4, <1>7, <1>8, <1>9 DEF MigrationInv, ExportInv

LEMMA RestartKeeps ==
    ASSUME MigrationInv, RestartMigration
    PROVE  MigrationInv'
<1>1. /\ migration' = NoMigration
      /\ (exportFile' = exportFile \/ (exportFile' = BrokenFile /\ Phase("importing")))
      /\ \/ /\ newAccount.state = "stored"
            /\ newAccount' = [newAccount EXCEPT !.connected = FALSE, !.awaited = FALSE]
         \/ newAccount' = NoAccount
      /\ oldAccount' = [oldAccount EXCEPT !.connected = FALSE]
      /\ items' = [c \in OldContacts |-> IF items[c] = "absent" THEN "absent" ELSE "shown"]
      /\ unsaved' = (unsaved \/ Phase("importing"))
      /\ jobs' = <<>> /\ results' = <<>> /\ awaited' = {}
      /\ UNCHANGED <<imported, applied, toldOfMove>>
  BY DEF RestartMigration, CancelMigration
<1>2. /\ MigrationTypes /\ QueuesInv /\ PhasesInv /\ ExportInv
  BY DEF MigrationInv
<1>3. Settings' = Settings /\ oldAccount' \in [settings : [OldContacts -> {"muted", "loud"}], connected : BOOLEAN]
  BY <1>1, <1>2 DEF MigrationTypes, Settings
<1>4. /\ \A e : ~Waiting(e)'
      /\ Once' /\ DOMAIN jobs' = {} /\ DOMAIN results' = {} /\ IsSequence(jobs') /\ IsSequence(results')
  BY <1>1, EmptyQueue DEF Waiting, WaitingIn, Once, OnceIn
<1>5. newAccount' \in [state : {"none", "created", "stored"}, connected : BOOLEAN, awaited : BOOLEAN]
      /\ newAccount'.state \in {"none", "stored"} /\ ~newAccount'.awaited
  <2>1. newAccount \in [state : {"none", "created", "stored"}, connected : BOOLEAN, awaited : BOOLEAN]
    BY <1>2 DEF MigrationTypes
  <2>2. CASE /\ newAccount.state = "stored"
             /\ newAccount' = [newAccount EXCEPT !.connected = FALSE, !.awaited = FALSE]
    BY <2>1, <2>2
  <2>3. CASE newAccount' = NoAccount
    BY <2>3 DEF NoAccount
  <2> QED BY <1>1, <2>2, <2>3
<1>6. /\ exportFile' = [state |-> exportFile'.state, data |-> exportFile'.data]
      /\ exportFile'.state = "saved" => exportFile'.data = Settings
  BY <1>1, <1>2 DEF MigrationTypes, BrokenFile, NoFile
<1>7. migration' = [phase |-> migration'.phase, data |-> migration'.data] /\ migration'.phase = "none"
  BY <1>1 DEF NoMigration
<1>8. MigrationTypes'
  BY <1>1, <1>2, <1>3, <1>4, <1>5, <1>6, <1>7 DEF MigrationTypes, Phases
<1>9. QueuesInv'
  BY <1>4 DEF QueuesInv
<1>10. PhasesInv'
  BY <1>1, <1>2, <1>3, <1>4, <1>5, <1>7 DEF PhasesInv, Phase
<1>11. ExportInv'
  BY <1>1, <1>2, <1>3 DEF ExportInv, PhasesInv, Phase
<1> QED BY <1>8, <1>9, <1>10, <1>11 DEF MigrationInv

LEMMA MigrationInvNext ==
    ASSUME MigrationInv, MigrationNext
    PROVE  MigrationInv'
<1>1. CASE StartMigration
  BY <1>1, StartMigrationKeeps
<1>2. CASE Exported
  BY <1>2, ExportedKeeps
<1>3. CASE CreateAccount
  BY <1>3, CreateAccountKeeps
<1>4. CASE DiscardAccount
  BY <1>4, DiscardAccountKeeps
<1>5. ASSUME NEW loggedIn \in BOOLEAN, StoreAccount(loggedIn)
      PROVE  MigrationInv'
  BY <1>5, StoreAccountKeeps
<1>6. CASE ChangeNewConnection
  BY <1>6, ConnectionKeeps
<1>7. CASE ChangeOldConnection
  BY <1>7, OldConnectionKeeps
<1>8. CASE ImportData
  BY <1>8, ImportKeeps
<1>9. ASSUME NEW c \in OldContacts, ContactImported(c)
      PROVE  MigrationInv'
  BY <1>9, ContactImportedKeeps
<1>10. CASE RunMigrationJob
  BY <1>10, RunMigrationKeeps
<1>11. CASE HandleMigrationResult
  BY <1>11, ResultKeeps
<1>12. CASE Publish
  BY <1>12, PublishKeeps
<1>13. CASE NotifyContacts
  BY <1>13, NotifyKeeps
<1>14. CASE RestartMigration
  BY <1>14, RestartKeeps
<1> QED BY <1>1, <1>2, <1>3, <1>4, <1>5, <1>6, <1>7, <1>8, <1>9, <1>10, <1>11, <1>12, <1>13, <1>14
        DEF MigrationNext

LEMMA MigrationInvUnchanged ==
    ASSUME MigrationInv, UNCHANGED <<migrationVars, queues>>
    PROVE  MigrationInv'
<1>1. UNCHANGED <<migration, exportFile, oldAccount, newAccount, imported, items, applied, awaited,
                  toldOfMove, unsaved, jobs, results>>
  BY DEF migrationVars, queues
<1>2. (Once' <=> Once) /\ \A e : Waiting(e)' <=> Waiting(e)
  BY <1>1, WaitingSame
<1>3. Settings' = Settings /\ \A p : Phase(p)' <=> Phase(p)
  BY <1>1 DEF Settings, Phase
<1>4. MigrationTypes'
  BY <1>1, <1>3 DEF MigrationInv, MigrationTypes
<1>5. QueuesInv'
  BY <1>1, <1>2, <1>3 DEF MigrationInv, QueuesInv
<1>6. PhasesInv'
  BY <1>1, <1>2, <1>3 DEF MigrationInv, PhasesInv
<1> QED BY <1>1, <1>3, <1>4, <1>5, <1>6 DEF MigrationInv, ExportInv

LEMMA ExportKeptFrom ==
    ASSUME MigrationInv
    PROVE  ExportKept /\ ToldOfCompleteMove
BY DEF MigrationInv, MigrationTypes, PhasesInv, ExportInv, ExportKept, ToldOfCompleteMove, Settings,
       Phase, Saved

-----------------------------------------------------------------------------
(* The parts together.                                                     *)

PartsInv ==
    /\ part = "blocklist" => BlockInv
    /\ part = "drafts" => DraftsInv
    /\ part = "roster" => ChoicesInv
    /\ part = "migration" => MigrationInv
    /\ part = "list" => ListInv

LEMMA PartsInvInit ==
    Init => PartsInv
BY BlockInvInit, DraftsInvInit, ChoicesInvInit, MigrationInvInit, ListInvInit DEF Init, PartsInv

LEMMA PartsInvNext ==
    ASSUME PartsInv, [Next]_vars
    PROVE  PartsInv'
<1>1. ASSUME part = "drafts"
      PROVE  DraftsInv'
  <2>1. DraftsNext \/ UNCHANGED <<draftVars, queues>>
    BY <1>1 DEF Next, vars
  <2> QED BY <1>1, <2>1, DraftsInvNext, DraftsInvUnchanged DEF PartsInv
<1>2. ASSUME part = "roster"
      PROVE  ChoicesInv'
  <2>1. RosterNext \/ UNCHANGED rosterVars
    BY <1>2 DEF Next, vars
  <2> QED BY <1>2, <2>1, ChoicesInvNext, ChoicesInvUnchanged DEF PartsInv
<1>3. ASSUME part = "migration"
      PROVE  MigrationInv'
  <2>1. MigrationNext \/ UNCHANGED <<migrationVars, queues>>
    BY <1>3 DEF Next, vars
  <2> QED BY <1>3, <2>1, MigrationInvNext, MigrationInvUnchanged DEF PartsInv
<1>4. ASSUME part = "blocklist"
      PROVE  BlockInv'
  <2>1. BlockNext \/ UNCHANGED <<blockVars, queues, connected, failures>>
    BY <1>4 DEF Next, vars
  <2> QED BY <1>4, <2>1, BlockInvNext, BlockInvUnchanged DEF PartsInv
<1>5. ASSUME part = "list"
      PROVE  ListInv'
  <2>1. ListNext \/ UNCHANGED <<listVars, jobs, results>>
    BY <1>5 DEF Next, vars, queues
  <2> QED BY <1>5, <2>1, ListInvNext DEF PartsInv
<1>6. part' = part
  BY DEF Next, vars
<1> QED BY <1>1, <1>2, <1>3, <1>4, <1>5, <1>6 DEF PartsInv

\* Nothing that the user wrote, chose or exported is lost, gets into another chat or is announced
\* too early (MessageComposition, RosterDb, AccountMigrationController).
THEOREM Lossless ==
    Spec => []NothingLost
<1>1. PartsInv => NothingLost
  <2> SUFFICES ASSUME PartsInv
               PROVE  NothingLost
    OBVIOUS
  <2>1. part = "drafts" => DraftsKept
    BY DraftsKeptFrom DEF PartsInv, DraftsInv
  <2>2. part = "roster" => ChoicesKept
    BY DEF PartsInv, ChoicesInv
  <2>3. part = "migration" => ExportKept /\ ToldOfCompleteMove
    BY ExportKeptFrom DEF PartsInv
  <2> QED BY <2>1, <2>2, <2>3 DEF NothingLost
<1>2. PartsInv /\ [Next]_vars => PartsInv'
  BY PartsInvNext
<1> QED BY <1>1, <1>2, PartsInvInit, PTL DEF Spec

\* The addresses the model shows, the stored ones and those the server has blocked agree when
\* nothing is under way, and a fetched list stays the one of the server (BlockingController).
THEOREM BlocklistFollowed ==
    Spec => [](part = "blocklist" => BlocklistShown /\ BlocklistStored /\ BlocklistFetched)
<1>1. PartsInv => (part = "blocklist" => BlocklistShown /\ BlocklistStored /\ BlocklistFetched)
  BY BlockInvSays DEF PartsInv
<1>2. PartsInv /\ [Next]_vars => PartsInv'
  BY PartsInvNext
<1> QED BY <1>1, <1>2, PartsInvInit, PTL DEF Spec

\* The chats with a draft are listed as they are stored (MessageComposition, DraftDb, RosterModel).
THEOREM DraftsFollowed ==
    Spec => [](part = "drafts" => DraftsListed)
<1>1. PartsInv => (part = "drafts" => DraftsListed)
  BY DraftsListedFrom DEF PartsInv, DraftsInv
<1>2. PartsInv /\ [Next]_vars => PartsInv'
  BY PartsInvNext
<1> QED BY <1>1, <1>2, PartsInvInit, PTL DEF Spec

\* The messages shown in a chat are the newest ones that are stored, without a gap or a repetition,
\* however pages, searches, removals and retrieved messages overtake each other (MessageModel).
THEOREM ListFollowed ==
    Spec => [](part = "list" => ListContinuous)
<1>1. PartsInv => (part = "list" => ListContinuous)
  BY ListInvContinuous DEF PartsInv
<1>2. PartsInv /\ [Next]_vars => PartsInv'
  BY PartsInvNext
<1> QED BY <1>1, <1>2, PartsInvInit, PTL DEF Spec

=============================================================================
