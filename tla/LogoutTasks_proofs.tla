------------------------- MODULE LogoutTasks_proofs -------------------------
(***************************************************************************)
(* Proofs about LogoutTasks for any contacts and any number of logouts,    *)
(* calls, opened chats, connections and failures: the client is not logged *)
(* out before the calls have ended, and the next logout resets the chat    *)
(* state of the opened chat.                                               *)
(***************************************************************************)
EXTENDS LogoutTasks, TLAPS, FiniteSetTheorems

States == {"added", "started", "finished"}
Waiting == [promises : SUBSET Nat, calls : SUBSET Contacts]
CallRecords ==
    [listed : BOOLEAN, promise : Nat, proposing : BOOLEAN, outgoing : BOOLEAN,
     jmi : BOOLEAN, call : BOOLEAN, ending : {"nothing", "call", "jmi"}]

\* Tasks are run of promises that were started.
TasksOK ==
    /\ promises \in Seq(States)
    /\ wrappers \subseteq 1..Len(promises) /\ forgotten \subseteq 1..Len(promises)
    /\ posted \in Seq(Nat)
    /\ \A i \in 1..Len(posted) : posted[i] \in 1..Len(promises) /\ promises[posted[i]] # "added"
    /\ logouts \in Seq(Waiting)
    /\ \A i \in 1..Len(logouts) : logouts[i].promises \subseteq 1..Len(promises)

\* Each call and the chat have a promise of their own, which is not finished while the call exists.
CallsOK ==
    /\ calls \in [Contacts -> CallRecords]
    /\ \A k \in Contacts : calls[k].promise <= Len(promises)
    /\ \A k \in Contacts : calls[k].listed =>
          calls[k].promise # 0 /\ promises[calls[k].promise] # "finished"
    /\ \A k, l \in Contacts : k # l /\ calls[k].promise # 0 => calls[k].promise # calls[l].promise
    /\ \A k \in Contacts : calls[k].promise # 0 => calls[k].promise # chat.promise
    /\ active \in Contacts \cup {NoCall} /\ ActiveCallExists

\* The calls a logout found are not replaced, and their promises are among those it waits for.
LogoutsOK ==
    \A i \in 1..Len(logouts) : \A k \in logouts[i].calls :
        /\ calls[k].promise # 0
        /\ calls[k].listed => calls[k].promise \in logouts[i].promises

\* Unless a task was forgotten, the task of the chat is there and only started by a logout that
\* still waits.
ChatOK ==
    /\ chat \in [open : BOOLEAN, promise : Nat] /\ chat.promise <= Len(promises)
    /\ forgotten = {} /\ chat.promise # 0 =>
          /\ chat.promise \in wrappers /\ promises[chat.promise] # "finished"
          /\ promises[chat.promise] = "started" => logouts # <<>>
    /\ forgotten = {} /\ connected /\ ~closing /\ chat.open /\ logouts = <<>> => chat.promise # 0

FlagsOK == connected \in BOOLEAN /\ closing \in BOOLEAN /\ crashed \in BOOLEAN

IInv == TasksOK /\ CallsOK /\ LogoutsOK /\ ChatOK /\ FlagsOK

-----------------------------------------------------------------------------
(* What the operations shared by the actions change.                       *)

LEMMA ConcatFacts ==
    ASSUME NEW X, NEW p \in Seq(X), NEW q \in Seq(X)
    PROVE  /\ p \o q \in Seq(X) /\ Len(p \o q) = Len(p) + Len(q)
           /\ Len(p) \in Nat /\ Len(q) \in Nat
           /\ \A n \in 1..Len(p) : (p \o q)[n] = p[n]
           /\ \A n \in 1..(Len(p) + Len(q)) : n > Len(p) => (p \o q)[n] = q[n - Len(p)]
  OBVIOUS

LEMMA SeqSubset ==
    ASSUME NEW A, NEW B, A \subseteq B, NEW q \in Seq(A)
    PROVE  q \in Seq(B)
  OBVIOUS

LEMMA AppendFacts ==
    ASSUME NEW q \in Seq(States)
    PROVE  /\ Append(q, "added") \in Seq(States) /\ Len(Append(q, "added")) = Len(q) + 1
           /\ Append(q, "added")[Len(q) + 1] = "added" /\ Len(q) \in Nat
           /\ \A n \in 1..Len(q) : Append(q, "added")[n] = q[n]
  BY DEF States

\* Adding a task leaves the other ones and what refers to them as they are.
LEMMA AddTaskFacts ==
    ASSUME TasksOK, AddTask(promises, wrappers), UNCHANGED <<posted, logouts, forgotten>>
    PROVE  /\ TasksOK' /\ NextPromise \in Nat \ {0} /\ Len(promises') = NextPromise
           /\ promises'[NextPromise] = "added" /\ wrappers' = wrappers \cup {NextPromise}
           /\ \A n \in 1..Len(promises) : promises'[n] = promises[n] /\ n # NextPromise
           /\ Len(promises) \in Nat /\ NextPromise = Len(promises) + 1
  <1>1. promises \in Seq(States) /\ promises' = Append(promises, "added")
    BY DEF TasksOK, AddTask
  <1>2. /\ promises' \in Seq(States) /\ Len(promises') = Len(promises) + 1 /\ Len(promises) \in Nat
        /\ promises'[Len(promises) + 1] = "added"
        /\ \A n \in 1..Len(promises) : promises'[n] = promises[n]
    BY <1>1, AppendFacts
  <1>3. \A n \in 1..Len(promises) : n \in 1..Len(promises') /\ n # Len(promises) + 1
    BY <1>2
  <1>4. Len(promises) + 1 \in 1..Len(promises')
    BY <1>2
  <1>5. TasksOK'
    BY <1>2, <1>3, <1>4 DEF TasksOK, AddTask, NextPromise
  <1> QED
    BY <1>2, <1>3, <1>5 DEF NextPromise, AddTask

\* Releasing a promise leaves the other ones; a started promise is not forgotten.
LEMMA ReleasedFacts ==
    ASSUME TasksOK, NEW p \in 1..Len(promises)
    PROVE  LET r == Released(p)
           IN  /\ r.states \in Seq(States) /\ Len(r.states) = Len(promises)
               /\ \A n \in 1..Len(promises) : n # p => r.states[n] = promises[n]
               /\ r.states[p] \in {promises[p], "finished"}
               /\ r.wrappers \subseteq wrappers /\ wrappers \ {p} \subseteq r.wrappers
  <1>1. promises \in Seq(States)
    BY DEF TasksOK
  <1>2. CASE promises[p] = "added"
    BY <1>1, <1>2 DEF Released
  <1>3. CASE promises[p] # "added"
    <2>1. Released(p) = [states |-> [promises EXCEPT ![p] = "finished"], wrappers |-> wrappers]
      BY <1>3 DEF Released
    <2>2. /\ [promises EXCEPT ![p] = "finished"] \in Seq(States)
          /\ Len([promises EXCEPT ![p] = "finished"]) = Len(promises)
          /\ [promises EXCEPT ![p] = "finished"][p] = "finished"
          /\ \A n \in 1..Len(promises) : n # p => [promises EXCEPT ![p] = "finished"][n] = promises[n]
      BY <1>1 DEF States
    <2> QED
      BY <2>1, <2>2
  <1> QED
    BY <1>2, <1>3

LEMMA ReleaseFacts ==
    ASSUME TasksOK, NEW p \in 1..Len(promises), Release(p), UNCHANGED <<posted, logouts, forgotten>>
    PROVE  /\ TasksOK' /\ Len(promises') = Len(promises)
           /\ \A n \in 1..Len(promises) : n # p => promises'[n] = promises[n]
           /\ wrappers' \subseteq wrappers /\ wrappers \ {p} \subseteq wrappers'
  <1> DEFINE r == Released(p)
  <1>1. /\ r.states \in Seq(States) /\ Len(r.states) = Len(promises)
        /\ \A n \in 1..Len(promises) : n # p => r.states[n] = promises[n]
        /\ r.states[p] \in {promises[p], "finished"}
        /\ r.wrappers \subseteq wrappers /\ wrappers \ {p} \subseteq r.wrappers
    BY ReleasedFacts
  <1>2. promises' = r.states /\ wrappers' = r.wrappers
    BY DEF Release
  <1> HIDE DEF r
  <1>3. TasksOK'
    BY <1>1, <1>2 DEF TasksOK
  <1> QED
    BY <1>1, <1>2, <1>3

\* Finishing a started promise.
LEMMA FinishFacts ==
    ASSUME TasksOK, NEW p \in 1..Len(promises), Finish(p), UNCHANGED <<wrappers, logouts, forgotten>>,
           posted' \in Seq(Nat), \A i \in 1..Len(posted') : \E k \in 1..Len(posted) : posted'[i] = posted[k]
    PROVE  /\ TasksOK' /\ Len(promises') = Len(promises)
           /\ \A n \in 1..Len(promises) : n # p => promises'[n] = promises[n]
  <1>1. /\ promises' \in Seq(States) /\ Len(promises') = Len(promises) /\ promises'[p] = "finished"
        /\ \A n \in 1..Len(promises) : n # p => promises'[n] = promises[n]
    BY DEF TasksOK, Finish, States
  <1>2. TasksOK'
    BY <1>1 DEF TasksOK
  <1> QED
    BY <1>1, <1>2

\* Changing what else is known of the calls.
LEMMA CallsChange ==
    ASSUME IInv, calls' \in [Contacts -> CallRecords],
           \A k \in Contacts : calls'[k].promise = calls[k].promise,
           \A k \in Contacts : calls'[k].listed => calls[k].listed,
           active' \in Contacts \cup {NoCall}, ActiveCallExists', UNCHANGED <<promises, logouts, chat>>
    PROVE  CallsOK' /\ LogoutsOK'
  <1>1. /\ \A k \in Contacts : calls[k].promise <= Len(promises)
        /\ \A k \in Contacts : calls[k].listed =>
              calls[k].promise # 0 /\ promises[calls[k].promise] # "finished"
        /\ \A k, l \in Contacts : k # l /\ calls[k].promise # 0 => calls[k].promise # calls[l].promise
        /\ \A k \in Contacts : calls[k].promise # 0 => calls[k].promise # chat.promise
    BY DEF IInv, CallsOK
  <1>2. CallsOK'
    <2>1. \A k \in Contacts : calls'[k].promise <= Len(promises)
      BY <1>1
    <2>2. \A k \in Contacts : calls'[k].listed =>
             calls'[k].promise # 0 /\ promises[calls'[k].promise] # "finished"
      BY <1>1
    <2>3. \A k, l \in Contacts : k # l /\ calls'[k].promise # 0 => calls'[k].promise # calls'[l].promise
      BY <1>1
    <2>4. \A k \in Contacts : calls'[k].promise # 0 => calls'[k].promise # chat.promise
      BY <1>1
    <2> QED
      BY <2>1, <2>2, <2>3, <2>4 DEF CallsOK
  <1>3. \A i \in 1..Len(logouts) : logouts[i] \in Waiting
    BY DEF IInv, TasksOK
  <1>4. \A i \in 1..Len(logouts) : logouts[i].calls \subseteq Contacts
    BY <1>3 DEF Waiting
  <1>5. \A i \in 1..Len(logouts) : \A k \in logouts[i].calls :
           calls[k].promise # 0 /\ (calls[k].listed => calls[k].promise \in logouts[i].promises)
    BY DEF IInv, LogoutsOK
  <1>6. ASSUME NEW i \in 1..Len(logouts), NEW k \in logouts[i].calls
        PROVE  calls'[k].promise # 0 /\ (calls'[k].listed => calls'[k].promise \in logouts[i].promises)
    <2>1. k \in Contacts
      BY <1>4
    <2> QED
      BY <1>5, <2>1
  <1>7. LogoutsOK'
    BY <1>6 DEF LogoutsOK
  <1> QED
    BY <1>2, <1>7

-----------------------------------------------------------------------------
(* The connection.                                                         *)

LEMMA InitCorrect == Init => IInv
  <1> SUFFICES ASSUME Init PROVE IInv
    OBVIOUS
  <1>1. TasksOK
    BY DEF Init, TasksOK
  <1>2. CallsOK
    <2>1. NotCalled \in CallRecords /\ NotCalled.promise = 0 /\ ~NotCalled.listed
      BY DEF NotCalled, CallRecords
    <2>2. \A k \in Contacts : calls[k] = NotCalled
      BY DEF Init
    <2>3. Len(promises) = 0
      BY DEF Init
    <2> QED
      BY <2>1, <2>2, <2>3 DEF Init, CallsOK, ActiveCallExists
  <1>3. LogoutsOK /\ FlagsOK /\ ChatOK
    <2>1. Len(logouts) = 0 /\ Len(promises) = 0
      BY DEF Init
    <2>2. chat = [open |-> FALSE, promise |-> 0]
      BY DEF Init
    <2>3. chat \in [open : BOOLEAN, promise : Nat] /\ chat.promise = 0 /\ ~chat.open
      BY <2>2
    <2>4. ChatOK
      BY <2>1, <2>3 DEF ChatOK
    <2>5. 1..Len(logouts) = {}
      BY <2>1
    <2>6. LogoutsOK
      BY <2>5 DEF LogoutsOK
    <2> QED
      BY <2>4, <2>6 DEF Init, FlagsOK
  <1> QED
    BY <1>1, <1>2, <1>3 DEF IInv

\* A logout that forgets the tasks either forgets that of the chat or the chat has none anymore.
LEMMA ClearFacts ==
    ASSUME IInv, NEW remaining \in Seq(Waiting), ClearAndLogOut(remaining),
           UNCHANGED <<connected, promises, posted, calls, active, chat, crashed>>,
           \A i \in 1..Len(remaining) : \E j \in 1..Len(logouts) : remaining[i] = logouts[j]
    PROVE  IInv'
  <1>1. /\ wrappers' = {} /\ logouts' = remaining /\ closing' = (connected \/ closing)
        /\ forgotten' = forgotten \cup {p \in wrappers : promises[p] # "finished"}
    BY DEF ClearAndLogOut
  <1>2. TasksOK'
    BY <1>1 DEF IInv, TasksOK
  <1>3. CallsOK'
    BY DEF IInv, CallsOK, ActiveCallExists
  <1>4. LogoutsOK'
    BY <1>1 DEF IInv, LogoutsOK
  <1>5. ChatOK'
    <2>1. forgotten' = {} => chat.promise = 0
      BY <1>1 DEF IInv, ChatOK
    <2>2. connected => closing'
      BY <1>1
    <2>3. chat' \in [open : BOOLEAN, promise : Nat] /\ chat'.promise <= Len(promises')
      BY DEF IInv, ChatOK
    <2> QED
      BY <2>1, <2>2, <2>3 DEF ChatOK
  <1>6. FlagsOK'
    BY <1>1 DEF IInv, FlagsOK
  <1> QED
    BY <1>2, <1>3, <1>4, <1>5, <1>6 DEF IInv

\* Removing an item of a sequence.
LEMMA RemoveAtFacts ==
    ASSUME NEW X, NEW q \in Seq(X), NEW i \in 1..Len(q)
    PROVE  /\ RemoveAt(q, i) \in Seq(X) /\ Len(RemoveAt(q, i)) = Len(q) - 1
           /\ \A n \in 1..Len(RemoveAt(q, i)) : RemoveAt(q, i)[n] = q[IF n < i THEN n ELSE n + 1]
  <1>1. Len(q) \in Nat /\ i \in Nat /\ i >= 1 /\ i <= Len(q)
    OBVIOUS
  <1> DEFINE a == SubSeq(q, 1, i - 1)
             b == SubSeq(q, i + 1, Len(q))
  <1>2. a \in Seq(X) /\ Len(a) = i - 1 /\ \A n \in 1..(i - 1) : a[n] = q[n]
    BY <1>1
  <1>3. b \in Seq(X) /\ Len(b) = Len(q) - i /\ \A n \in 1..(Len(q) - i) : b[n] = q[n + i]
    BY <1>1
  <1> HIDE DEF a, b
  <1>4. /\ a \o b \in Seq(X) /\ Len(a \o b) = Len(q) - 1
        /\ \A n \in 1..(i - 1) : (a \o b)[n] = a[n]
        /\ \A n \in 1..(Len(q) - 1) : n >= i => (a \o b)[n] = b[n - (i - 1)]
    <2>1. a \in Seq(X) /\ b \in Seq(X)
      BY <1>2, <1>3
    <2>2. a \o b \in Seq(X) /\ Len(a \o b) = Len(a) + Len(b)
      BY <2>1, ConcatFacts
    <2>3. /\ \A n \in 1..Len(a) : (a \o b)[n] = a[n]
          /\ \A n \in 1..(Len(a) + Len(b)) : n > Len(a) => (a \o b)[n] = b[n - Len(a)]
      BY <2>1, ConcatFacts
    <2>4. Len(a) + Len(b) = Len(q) - 1 /\ \A n \in 1..(Len(q) - 1) : n >= i => n > i - 1
      BY <1>1, <1>2, <1>3
    <2> QED
      BY <1>2, <2>2, <2>3, <2>4
  <1>5. \A n \in 1..(Len(q) - 1) : (a \o b)[n] = q[IF n < i THEN n ELSE n + 1]
    <2> TAKE n \in 1..(Len(q) - 1)
    <2>1. CASE n < i
      <3>1. n \in 1..(i - 1)
        BY <1>1, <2>1
      <3> QED
        BY <1>2, <1>4, <2>1, <3>1
    <2>2. CASE ~(n < i)
      <3>1. n >= i /\ n - (i - 1) \in 1..(Len(q) - i) /\ (n - (i - 1)) + i = n + 1
        BY <1>1, <2>2
      <3> QED
        BY <1>3, <1>4, <2>2, <3>1
    <2> QED
      BY <2>1, <2>2
  <1> QED
    BY <1>4, <1>5 DEF RemoveAt, a, b

LEMMA TasksFinishedCorrect == IInv /\ TasksFinished => IInv'
  <1> SUFFICES ASSUME IInv, TasksFinished PROVE IInv'
    OBVIOUS
  <1>1. logouts \in Seq(Waiting) /\ DOMAIN logouts = 1..Len(logouts)
    BY DEF IInv, TasksOK
  <1>2. PICK i \in 1..Len(logouts) : ClearAndLogOut(RemoveAt(logouts, i))
    BY <1>1 DEF TasksFinished
  <1> DEFINE remaining == RemoveAt(logouts, i)
  <1>3. /\ remaining \in Seq(Waiting) /\ Len(remaining) = Len(logouts) - 1
        /\ \A n \in 1..Len(remaining) : remaining[n] = logouts[IF n < i THEN n ELSE n + 1]
    BY <1>1, RemoveAtFacts
  <1> HIDE DEF remaining
  <1>4. \A n \in 1..Len(remaining) : (IF n < i THEN n ELSE n + 1) \in 1..Len(logouts)
    BY <1>1, <1>3
  <1>5. \A n \in 1..Len(remaining) : \E j \in 1..Len(logouts) : remaining[n] = logouts[j]
    BY <1>3, <1>4
  <1>6. UNCHANGED <<connected, promises, posted, calls, active, chat, crashed>>
    BY DEF TasksFinished
  <1>7. ClearAndLogOut(remaining)
    BY <1>2 DEF remaining
  <1> QED
    BY <1>3, <1>5, <1>6, <1>7, ClearFacts

\* A logout starts all promises that are not started and waits for all of them.
LEMMA LogOutCorrect == IInv /\ LogOut => IInv'
  <1> SUFFICES ASSUME IInv, LogOut PROVE IInv'
    OBVIOUS
  <1>1. UNCHANGED <<connected, calls, active, chat, crashed>>
    BY DEF LogOut
  <1>2. CASE wrappers = {}
    <2>1. ClearAndLogOut(logouts) /\ UNCHANGED <<promises, posted>>
      BY <1>2 DEF LogOut
    <2>2. logouts \in Seq(Waiting)
      BY DEF IInv, TasksOK
    <2> QED
      BY <1>1, <2>1, <2>2, ClearFacts
  <1>3. CASE wrappers # {}
    <2> DEFINE unstarted == {p \in wrappers : promises[p] = "added"}
               waiting == [promises |-> wrappers,
                           calls |-> {k \in Listed : calls[k].promise \in wrappers}]
    <2>1. PICK order \in StartOrders(unstarted) : posted' = posted \o order
      BY <1>3 DEF LogOut
    <2>2. /\ promises' = [p \in DOMAIN promises |-> IF p \in unstarted THEN "started" ELSE promises[p]]
          /\ logouts' = Append(logouts, waiting)
          /\ UNCHANGED <<closing, wrappers, forgotten>>
      BY <1>3 DEF LogOut
    <2>3. waiting \in Waiting /\ waiting.promises = wrappers
          /\ \A k \in waiting.calls : k \in Listed /\ calls[k].promise \in wrappers
      <3>1. wrappers \subseteq Nat
        BY DEF IInv, TasksOK
      <3> QED
        BY <3>1 DEF Waiting, Listed
    <2>4. IsFiniteSet(unstarted) /\ unstarted \subseteq 1..Len(promises) /\ unstarted \subseteq wrappers
          /\ \A p \in wrappers : promises[p] = "added" => p \in unstarted
      <3>1. wrappers \subseteq 1..Len(promises) /\ Len(promises) \in Nat
        BY DEF IInv, TasksOK
      <3>2. unstarted \subseteq wrappers /\ \A p \in wrappers : promises[p] = "added" => p \in unstarted
        OBVIOUS
      <3> HIDE DEF unstarted
      <3>3. unstarted \subseteq 1..Len(promises) /\ Len(promises) \in Nat
        BY <3>1, <3>2
      <3>4. IsFiniteSet(1..Len(promises))
        BY <3>3, FS_Interval
      <3> QED
        BY <3>3, <3>4, <3>2, FS_Subset
    <2> HIDE DEF unstarted, waiting
    <2>5. order \in Seq(unstarted)
      <3>1. Cardinality(unstarted) \in Nat
        BY <2>4, FS_CardinalityType
      <3>2. order \in [1..Cardinality(unstarted) -> unstarted]
        BY <2>1 DEF StartOrders, SetToSeqs
      <3> QED
        BY <3>1, <3>2
    <2>6. /\ promises' \in Seq(States) /\ Len(promises') = Len(promises)
          /\ \A p \in 1..Len(promises) : promises'[p] = IF p \in unstarted THEN "started" ELSE promises[p]
      <3>1. promises \in Seq(States) /\ DOMAIN promises = 1..Len(promises) /\ Len(promises) \in Nat
        BY DEF IInv, TasksOK
      <3>2. \A p \in 1..Len(promises) : (IF p \in unstarted THEN "started" ELSE promises[p]) \in States
        BY <3>1 DEF States
      <3> QED
        BY <2>2, <3>1, <3>2
    <2>7. /\ logouts' \in Seq(Waiting) /\ Len(logouts') = Len(logouts) + 1 /\ Len(logouts) \in Nat
          /\ logouts'[Len(logouts) + 1] = waiting
          /\ \A i \in 1..Len(logouts) : logouts'[i] = logouts[i]
      BY <2>2, <2>3 DEF IInv, TasksOK
    <2>8. \A i \in 1..Len(logouts') : i \in 1..Len(logouts) \/ i = Len(logouts) + 1
      BY <2>7
    <2>9. TasksOK'
      <3>1. posted' \in Seq(Nat)
        <4>1. Len(promises) \in Nat
          BY DEF IInv, TasksOK
        <4>2. unstarted \subseteq Nat
          BY <2>4, <4>1
        <4>3. order \in Seq(Nat)
          BY <2>5, <4>2, SeqSubset
        <4> QED
          BY <2>1, <4>3 DEF IInv, TasksOK
      <3>2. ASSUME NEW i \in 1..Len(posted')
            PROVE  posted'[i] \in 1..Len(promises) /\ promises'[posted'[i]] # "added"
        <4>1. \/ i \in 1..Len(posted) /\ posted'[i] = posted[i]
              \/ i - Len(posted) \in 1..Len(order) /\ posted'[i] = order[i - Len(posted)]
          BY <2>1, <2>5, <3>2 DEF IInv, TasksOK
        <4>2. CASE i \in 1..Len(posted) /\ posted'[i] = posted[i]
          <5>1. posted[i] \in 1..Len(promises) /\ promises[posted[i]] # "added"
            BY <4>2 DEF IInv, TasksOK
          <5> QED
            BY <2>6, <4>2, <5>1
        <4>3. CASE i - Len(posted) \in 1..Len(order) /\ posted'[i] = order[i - Len(posted)]
          <5>1. posted'[i] \in unstarted
            BY <2>5, <4>3
          <5> QED
            BY <2>4, <2>6, <5>1
        <4> QED
          BY <4>1, <4>2, <4>3
      <3>3. \A i \in 1..Len(logouts') : logouts'[i].promises \subseteq 1..Len(promises)
        BY <2>3, <2>7, <2>8 DEF IInv, TasksOK
      <3>4. wrappers' \subseteq 1..Len(promises) /\ forgotten' \subseteq 1..Len(promises)
        BY <2>2 DEF IInv, TasksOK
      <3> QED
        BY <2>6, <2>7, <3>1, <3>2, <3>3, <3>4 DEF TasksOK
    <2>10. CallsOK'
      <3>1. \A k \in Contacts : calls[k].listed => promises'[calls[k].promise] # "finished"
        <4> SUFFICES ASSUME NEW k \in Contacts, calls[k].listed
                     PROVE  promises'[calls[k].promise] # "finished"
          OBVIOUS
        <4>1. /\ calls[k].promise \in Nat /\ calls[k].promise <= Len(promises) /\ calls[k].promise # 0
              /\ promises[calls[k].promise] # "finished"
          BY DEF IInv, CallsOK, CallRecords
        <4>2. calls[k].promise \in 1..Len(promises)
          BY <4>1 DEF IInv, TasksOK
        <4> QED
          BY <2>6, <4>1, <4>2
      <3> QED
        BY <1>1, <2>6, <3>1 DEF IInv, CallsOK, ActiveCallExists
    <2>11. LogoutsOK'
      <3> SUFFICES ASSUME NEW i \in 1..Len(logouts'), NEW k \in logouts'[i].calls
                   PROVE  calls[k].promise # 0 /\ (calls[k].listed => calls[k].promise \in logouts'[i].promises)
        BY <1>1 DEF LogoutsOK
      <3>1. CASE i \in 1..Len(logouts)
        BY <2>7, <3>1 DEF IInv, LogoutsOK
      <3>2. CASE i = Len(logouts) + 1
        <4>1. k \in Listed /\ calls[k].promise \in wrappers /\ logouts'[i].promises = wrappers
          BY <2>3, <2>7, <3>2
        <4> QED
          BY <4>1 DEF IInv, TasksOK
      <3> QED
        BY <2>8, <3>1, <3>2
    <2>12. ChatOK'
      <3>1. logouts' # <<>>
        BY <2>7
      <3>2. ASSUME forgotten = {}, chat.promise # 0
            PROVE  chat.promise \in wrappers /\ promises'[chat.promise] # "finished"
        <4>1. chat.promise \in wrappers /\ promises[chat.promise] # "finished"
          BY <3>2 DEF IInv, ChatOK
        <4>2. chat.promise \in 1..Len(promises)
          BY <4>1 DEF IInv, TasksOK
        <4> QED
          BY <2>6, <4>1, <4>2
      <3> QED
        BY <1>1, <2>2, <2>6, <3>1, <3>2 DEF IInv, ChatOK
    <2>13. FlagsOK'
      BY <1>1, <2>2 DEF IInv, FlagsOK
    <2> QED
      BY <2>9, <2>10, <2>11, <2>12, <2>13 DEF IInv
  <1> QED
    BY <1>2, <1>3

LEMMA DisconnectedCorrect == IInv /\ Disconnected => IInv'
  <1> SUFFICES ASSUME IInv, Disconnected PROVE IInv'
    OBVIOUS
  <1>1. UNCHANGED <<tasks, calls, active, chat, crashed>> /\ ~connected' /\ FlagsOK'
    BY DEF Disconnected, IInv, FlagsOK
  <1> QED
    BY <1>1 DEF IInv, TasksOK, CallsOK, LogoutsOK, ChatOK, ActiveCallExists, tasks

\* The promise of a call.
LEMMA PromiseFacts ==
    ASSUME IInv, NEW k \in Contacts
    PROVE  /\ calls[k] \in CallRecords /\ calls[k].promise \in Nat /\ calls[k].promise <= Len(promises)
           /\ Len(promises) \in Nat
           /\ calls[k].promise # 0 => calls[k].promise \in 1..Len(promises)
           /\ calls[k].promise # 0 => calls[k].promise # chat.promise
           /\ calls[k].listed => calls[k].promise # 0 /\ promises[calls[k].promise] # "finished"
  <1>1. /\ calls[k] \in CallRecords /\ calls[k].promise <= Len(promises)
        /\ calls[k].promise # 0 => calls[k].promise # chat.promise
        /\ calls[k].listed => calls[k].promise # 0 /\ promises[calls[k].promise] # "finished"
    BY DEF IInv, CallsOK
  <1>2. Len(promises) \in Nat
    BY DEF IInv, TasksOK
  <1>3. calls[k].promise \in Nat
    BY <1>1 DEF CallRecords
  <1> QED
    BY <1>1, <1>2, <1>3

\* Changing promises that no call uses.
LEMMA PromisesChange ==
    ASSUME IInv, Len(promises') \in Nat, Len(promises) <= Len(promises'),
           \A k \in Contacts : calls[k].listed => promises'[calls[k].promise] # "finished",
           \A k \in Contacts : calls[k].promise # 0 => calls[k].promise # chat'.promise,
           UNCHANGED <<calls, active, logouts>>
    PROVE  CallsOK' /\ LogoutsOK'
  <1>1. \A k \in Contacts : calls[k].promise <= Len(promises')
    BY PromiseFacts
  <1>2. CallsOK'
    BY <1>1 DEF IInv, CallsOK, ActiveCallExists
  <1>3. LogoutsOK'
    BY DEF IInv, LogoutsOK
  <1> QED
    BY <1>2, <1>3

LEMMA ConnectedCorrect == IInv /\ Connected => IInv'
  <1> SUFFICES ASSUME IInv, Connected PROVE IInv'
    OBVIOUS
  <1>1. UNCHANGED <<closing, posted, logouts, calls, active, forgotten, crashed>> /\ connected' = TRUE
    BY DEF Connected
  <1>2. FlagsOK'
    BY <1>1 DEF IInv, FlagsOK
  <1>3. CASE chat.open /\ chat.promise = 0
    <2>1. AddTask(promises, wrappers) /\ chat' = [chat EXCEPT !.promise = NextPromise]
      BY <1>3 DEF Connected
    <2>2. /\ TasksOK' /\ NextPromise \in Nat \ {0} /\ Len(promises') = NextPromise
          /\ promises'[NextPromise] = "added" /\ wrappers' = wrappers \cup {NextPromise}
          /\ \A n \in 1..Len(promises) : promises'[n] = promises[n] /\ n # NextPromise
          /\ Len(promises) \in Nat /\ NextPromise = Len(promises) + 1
      BY <1>1, <2>1, AddTaskFacts DEF IInv
    <2>3. chat' \in [open : BOOLEAN, promise : Nat] /\ chat'.promise = NextPromise
      BY <2>1, <2>2 DEF IInv, ChatOK
    <2>4. CallsOK' /\ LogoutsOK'
      <3>1. ASSUME NEW k \in Contacts
            PROVE  /\ calls[k].listed => promises'[calls[k].promise] # "finished"
                   /\ calls[k].promise # 0 => calls[k].promise # chat'.promise
        BY <2>2, <2>3, PromiseFacts
      <3>2. Len(promises') \in Nat /\ Len(promises) <= Len(promises')
        BY <2>2
      <3> QED
        BY <1>1, <3>1, <3>2, PromisesChange
    <2>5. ChatOK'
      BY <2>2, <2>3 DEF ChatOK
    <2> QED
      BY <1>2, <2>2, <2>4, <2>5 DEF IInv
  <1>4. CASE ~(chat.open /\ chat.promise = 0)
    <2>1. UNCHANGED <<promises, wrappers, chat>>
      BY <1>4 DEF Connected
    <2>2. TasksOK' /\ CallsOK' /\ LogoutsOK'
      BY <1>1, <2>1 DEF IInv, TasksOK, CallsOK, LogoutsOK, ActiveCallExists
    <2>3. ChatOK'
      BY <1>1, <1>4, <2>1 DEF IInv, ChatOK
    <2> QED
      BY <1>2, <2>2, <2>3 DEF IInv
  <1> QED
    BY <1>3, <1>4

-----------------------------------------------------------------------------
(* The chat.                                                               *)

\* The next chat gets a promise of its own; that of the previous one is released.
LEMMA OpenChatCorrect == IInv /\ OpenChat => IInv'
  <1> SUFFICES ASSUME IInv, OpenChat PROVE IInv'
    OBVIOUS
  <1>1. /\ UNCHANGED <<connected, closing, posted, logouts, calls, active, forgotten, crashed>>
        /\ chat' = [open |-> TRUE, promise |-> NextPromise]
    BY DEF OpenChat
  <1>2. /\ promises \in Seq(States) /\ Len(promises) \in Nat /\ wrappers \subseteq 1..Len(promises)
        /\ TasksOK
    BY DEF IInv, TasksOK
  <1>3. chat.promise # 0 => chat.promise \in 1..Len(promises)
    BY <1>2 DEF IInv, ChatOK
  <1>4. PICK q \in Seq(States), w \in SUBSET wrappers :
           /\ Len(q) = Len(promises)
           /\ \A n \in 1..Len(promises) : q[n] \in {promises[n], "finished"}
           /\ \A n \in 1..Len(promises) : n # chat.promise => q[n] = promises[n]
           /\ promises' = Append(q, "added") /\ wrappers' = w \cup {NextPromise}
    <2>1. CASE chat.promise = 0
      BY <1>2, <2>1 DEF OpenChat, AddTask
    <2>2. CASE chat.promise # 0
      <3> DEFINE r == Released(chat.promise)
      <3>1. /\ r.states \in Seq(States) /\ Len(r.states) = Len(promises)
            /\ \A n \in 1..Len(promises) : n # chat.promise => r.states[n] = promises[n]
            /\ r.states[chat.promise] \in {promises[chat.promise], "finished"}
            /\ r.wrappers \subseteq wrappers /\ wrappers \ {chat.promise} \subseteq r.wrappers
        BY <1>2, <1>3, <2>2, ReleasedFacts
      <3>2. promises' = Append(r.states, "added") /\ wrappers' = r.wrappers \cup {NextPromise}
        BY <2>2 DEF OpenChat, AddTask
      <3> HIDE DEF r
      <3>3. \A n \in 1..Len(promises) : r.states[n] \in {promises[n], "finished"}
        BY <3>1
      <3> QED
        BY <3>1, <3>2, <3>3
    <2> QED
      BY <2>1, <2>2
  <1>5. /\ promises' \in Seq(States) /\ Len(promises') = Len(promises) + 1
        /\ promises'[Len(promises) + 1] = "added"
        /\ \A n \in 1..Len(promises) : promises'[n] \in {promises[n], "finished"}
        /\ \A n \in 1..Len(promises) : n # chat.promise => promises'[n] = promises[n]
    BY <1>4, AppendFacts
  <1>6. NextPromise = Len(promises) + 1 /\ NextPromise \in Nat \ {0} /\ Len(promises') = NextPromise
    BY <1>2, <1>5 DEF NextPromise
  <1>7. TasksOK'
    <2>1. \A n \in 1..Len(promises) : n \in 1..Len(promises')
      BY <1>2, <1>5
    <2>2. NextPromise \in 1..Len(promises')
      BY <1>6
    <2>3. wrappers' \subseteq 1..Len(promises')
      BY <1>2, <1>4, <2>1, <2>2
    <2>4. \A i \in 1..Len(posted) : posted[i] \in 1..Len(promises') /\ promises'[posted[i]] # "added"
      BY <1>2, <1>5, <2>1 DEF TasksOK
    <2>5. \A i \in 1..Len(logouts) : logouts[i].promises \subseteq 1..Len(promises')
      BY <1>2, <2>1 DEF TasksOK
    <2>6. forgotten \subseteq 1..Len(promises')
      BY <1>2, <2>1 DEF TasksOK
    <2> QED
      BY <1>1, <1>2, <1>5, <2>3, <2>4, <2>5, <2>6 DEF TasksOK
  <1>8. CallsOK' /\ LogoutsOK'
    <2>1. ASSUME NEW k \in Contacts
          PROVE  /\ calls[k].listed => promises'[calls[k].promise] # "finished"
                 /\ calls[k].promise # 0 => calls[k].promise # chat'.promise
      <3>1. chat'.promise = Len(promises) + 1
        BY <1>1, <1>6
      <3>2. calls[k].promise # 0 => promises'[calls[k].promise] = promises[calls[k].promise]
        BY <1>5, PromiseFacts
      <3>3. calls[k].promise # Len(promises) + 1
        BY PromiseFacts
      <3> QED
        BY <3>1, <3>2, <3>3, PromiseFacts
    <2>2. Len(promises') \in Nat /\ Len(promises) <= Len(promises')
      BY <1>2, <1>5
    <2> QED
      BY <1>1, <2>1, <2>2, PromisesChange
  <1>9. ChatOK'
    <2>1. chat' \in [open : BOOLEAN, promise : Nat] /\ chat'.promise = NextPromise
      BY <1>1, <1>6
    <2>2. NextPromise \in wrappers' /\ promises'[NextPromise] = "added"
      BY <1>4, <1>5, <1>6
    <2> QED
      BY <1>6, <2>1, <2>2 DEF ChatOK
  <1>10. FlagsOK'
    BY <1>1 DEF IInv, FlagsOK
  <1> QED
    BY <1>7, <1>8, <1>9, <1>10 DEF IInv

LEMMA CloseChatCorrect == IInv /\ CloseChat => IInv'
  <1> SUFFICES ASSUME IInv, CloseChat PROVE IInv'
    OBVIOUS
  <1>1. /\ UNCHANGED <<connected, closing, posted, logouts, calls, active, forgotten, crashed>>
        /\ chat' = [open |-> FALSE, promise |-> 0]
    BY DEF CloseChat
  <1>2. Len(promises) \in Nat /\ TasksOK
    BY DEF IInv, TasksOK
  <1>3. chat.promise # 0 => chat.promise \in 1..Len(promises)
    BY <1>2 DEF IInv, ChatOK
  <1>4. /\ TasksOK' /\ Len(promises') = Len(promises)
        /\ \A n \in 1..Len(promises) : n # chat.promise => promises'[n] = promises[n]
    <2>1. CASE chat.promise = 0
      <3>1. UNCHANGED <<promises, wrappers>>
        BY <2>1 DEF CloseChat
      <3> QED
        BY <1>1, <1>2, <3>1 DEF TasksOK
    <2>2. CASE chat.promise # 0
      <3>1. Release(chat.promise)
        BY <2>2 DEF CloseChat
      <3> QED
        BY <1>1, <1>2, <1>3, <2>2, <3>1, ReleaseFacts
    <2> QED
      BY <2>1, <2>2
  <1>5. CallsOK' /\ LogoutsOK'
    <2>1. ASSUME NEW k \in Contacts
          PROVE  /\ calls[k].listed => promises'[calls[k].promise] # "finished"
                 /\ calls[k].promise # 0 => calls[k].promise # chat'.promise
      <3>1. calls[k].promise # 0 => promises'[calls[k].promise] = promises[calls[k].promise]
        BY <1>4, PromiseFacts
      <3> QED
        BY <1>1, <3>1, PromiseFacts
    <2>2. Len(promises') \in Nat /\ Len(promises) <= Len(promises')
      BY <1>2, <1>4
    <2> QED
      BY <1>1, <2>1, <2>2, PromisesChange
  <1>6. ChatOK'
    <2>1. chat' \in [open : BOOLEAN, promise : Nat] /\ chat'.promise = 0 /\ ~chat'.open
      BY <1>1
    <2> QED
      BY <1>2, <1>4, <2>1 DEF ChatOK
  <1>7. FlagsOK'
    BY <1>1 DEF IInv, FlagsOK
  <1> QED
    BY <1>4, <1>5, <1>6, <1>7 DEF IInv

-----------------------------------------------------------------------------
(* The calls.                                                              *)

LEMMA RemovedFacts ==
    ASSUME NEW call \in CallRecords
    PROVE  /\ Removed(call) \in CallRecords /\ Removed(call).promise = call.promise
           /\ ~Removed(call).listed
  <1>1. call.promise \in Nat
    BY DEF CallRecords
  <1> QED
    BY <1>1 DEF Removed, NotCalled, CallRecords

LEMMA EndedFacts ==
    ASSUME NEW call \in CallRecords
    PROVE  /\ Ended(call) \in CallRecords /\ Ended(call).promise = call.promise
           /\ Ended(call).listed = call.listed
  <1>1. CASE call.ending # "nothing"
    BY <1>1 DEF Ended
  <1>2. CASE call.ending = "nothing"
    <2> DEFINE ending == IF call.call THEN "call" ELSE IF call.jmi THEN "jmi" ELSE "nothing"
    <2>1. ending \in {"nothing", "call", "jmi"} /\ Ended(call) = [call EXCEPT !.ending = ending]
      BY <1>2 DEF Ended
    <2> HIDE DEF ending
    <2> QED
      BY <2>1 DEF CallRecords
  <1> QED
    BY <1>1, <1>2

LEMMA NotCalledFacts == NotCalled \in CallRecords /\ NotCalled.promise = 0 /\ ~NotCalled.listed
  BY DEF NotCalled, CallRecords

\* A new call gets a promise of its own.  No logout waits for a call of that contact, since there was
\* none before.
LEMMA AddCallCorrect ==
    ASSUME IInv, NEW k \in Contacts, NEW call \in CallRecords, AddCall(k, call),
           UNCHANGED <<connected, closing, posted, logouts, chat, forgotten, crashed>>,
           active' \in {active, k}
    PROVE  IInv'
  <1>1. /\ TasksOK' /\ NextPromise \in Nat \ {0} /\ Len(promises') = NextPromise
        /\ promises'[NextPromise] = "added" /\ wrappers' = wrappers \cup {NextPromise}
        /\ \A n \in 1..Len(promises) : promises'[n] = promises[n] /\ n # NextPromise
        /\ Len(promises) \in Nat /\ NextPromise = Len(promises) + 1
    BY AddTaskFacts DEF IInv, AddCall
  <1> DEFINE new == [call EXCEPT !.listed = TRUE, !.promise = NextPromise]
  <1>2. calls \in [Contacts -> CallRecords] /\ calls' = [calls EXCEPT ![k] = new] /\ calls[k] = NotCalled
    BY DEF IInv, CallsOK, AddCall
  <1>3. new \in CallRecords /\ new.listed /\ new.promise = NextPromise
    BY <1>1 DEF CallRecords
  <1> HIDE DEF new
  <1>4. /\ calls' \in [Contacts -> CallRecords] /\ calls'[k] = new
        /\ \A l \in Contacts : l # k => calls'[l] = calls[l]
    BY <1>2, <1>3
  <1>5. \A l \in Contacts : calls[l].promise # NextPromise /\ chat.promise # NextPromise
    BY <1>1, PromiseFacts DEF IInv, ChatOK
  <1>6. CallsOK'
    <2>1. \A l \in Contacts : calls'[l].promise <= Len(promises')
      <3> TAKE l \in Contacts
      <3>1. CASE l = k
        BY <1>1, <1>3, <1>4, <3>1
      <3>2. CASE l # k
        BY <1>1, <1>4, <3>2, PromiseFacts
      <3> QED
        BY <3>1, <3>2
    <2>2. \A l \in Contacts : calls'[l].listed =>
             calls'[l].promise # 0 /\ promises'[calls'[l].promise] # "finished"
      <3> TAKE l \in Contacts
      <3>1. CASE l = k
        BY <1>1, <1>3, <1>4, <3>1
      <3>2. CASE l # k
        BY <1>1, <1>4, <3>2, PromiseFacts
      <3> QED
        BY <3>1, <3>2
    <2>3. \A l, m \in Contacts : l # m /\ calls'[l].promise # 0 => calls'[l].promise # calls'[m].promise
      BY <1>3, <1>4, <1>5 DEF IInv, CallsOK
    <2>4. \A l \in Contacts : calls'[l].promise # 0 => calls'[l].promise # chat'.promise
      BY <1>3, <1>4, <1>5 DEF IInv, CallsOK
    <2>5. active' \in Contacts \cup {NoCall} /\ ActiveCallExists'
      BY <1>3, <1>4 DEF IInv, CallsOK, ActiveCallExists
    <2> QED
      BY <1>4, <2>1, <2>2, <2>3, <2>4, <2>5 DEF CallsOK
  <1>7. LogoutsOK'
    <2> SUFFICES ASSUME NEW i \in 1..Len(logouts), NEW l \in logouts[i].calls
                 PROVE  calls'[l].promise # 0 /\ (calls'[l].listed => calls'[l].promise \in logouts[i].promises)
      BY DEF LogoutsOK
    <2>1. calls[l].promise # 0 /\ (calls[l].listed => calls[l].promise \in logouts[i].promises)
      BY DEF IInv, LogoutsOK
    <2>2. l # k
      BY <1>2, <2>1, NotCalledFacts
    <2>3. l \in Contacts
      <3>1. logouts[i] \in Waiting
        BY DEF IInv, TasksOK
      <3> QED
        BY <3>1 DEF Waiting
    <2> QED
      BY <1>4, <2>1, <2>2, <2>3
  <1>8. ChatOK'
    <2>1. chat.promise # 0 => chat.promise \in 1..Len(promises)
      BY <1>1 DEF IInv, ChatOK
    <2>2. chat.promise # 0 => promises'[chat.promise] = promises[chat.promise]
      BY <1>1, <2>1
    <2>3. chat.promise <= Len(promises')
      BY <1>1 DEF IInv, ChatOK
    <2> QED
      BY <1>1, <2>2, <2>3 DEF IInv, ChatOK
  <1>9. FlagsOK'
    BY DEF IInv, FlagsOK
  <1> QED
    BY <1>1, <1>6, <1>7, <1>8, <1>9 DEF IInv

\* What happens to a call without a task being involved.
LEMMA CallOnlyCorrect ==
    ASSUME IInv, NEW k \in Contacts, NEW call \in CallRecords, calls' = [calls EXCEPT ![k] = call],
           call.promise = calls[k].promise, call.listed = calls[k].listed,
           UNCHANGED <<connected, closing, tasks, active, chat, crashed>>
    PROVE  IInv'
  <1>1. /\ calls' \in [Contacts -> CallRecords]
        /\ \A l \in Contacts : calls'[l].promise = calls[l].promise
        /\ \A l \in Contacts : calls'[l].listed = calls[l].listed
    BY DEF IInv, CallsOK
  <1>2. active \in Contacts \cup {NoCall} /\ ActiveCallExists'
    BY <1>1 DEF IInv, CallsOK, ActiveCallExists
  <1>3. CallsOK' /\ LogoutsOK'
    BY <1>1, <1>2, CallsChange DEF tasks
  <1>4. TasksOK' /\ ChatOK' /\ FlagsOK'
    BY DEF IInv, TasksOK, ChatOK, FlagsOK, tasks
  <1> QED
    BY <1>3, <1>4 DEF IInv

LEMMA StartsCorrect ==
    ASSUME NEW k \in Contacts
    PROVE  IInv /\ (StartCall(k) \/ CallProposed(k) \/ CallReceived(k)) => IInv'
  <1> SUFFICES ASSUME IInv, StartCall(k) \/ CallProposed(k) \/ CallReceived(k) PROVE IInv'
    OBVIOUS
  <1>1. CASE StartCall(k)
    <2>1. [NotCalled EXCEPT !.proposing = TRUE, !.outgoing = TRUE] \in CallRecords
      BY DEF NotCalled, CallRecords
    <2> QED
      BY <1>1, <2>1, AddCallCorrect DEF StartCall
  <1>2. CASE CallProposed(k)
    <2>1. [NotCalled EXCEPT !.jmi = TRUE] \in CallRecords
      BY DEF NotCalled, CallRecords
    <2> QED
      BY <1>2, <2>1, AddCallCorrect DEF CallProposed
  <1>3. CASE CallReceived(k)
    <2>1. [NotCalled EXCEPT !.call = TRUE] \in CallRecords
      BY DEF NotCalled, CallRecords
    <2>2. UNCHANGED <<connected, closing, posted, logouts, active, chat, forgotten, crashed>>
      BY <1>3 DEF CallReceived
    <2>3. CASE AddCall(k, [NotCalled EXCEPT !.call = TRUE])
      BY <2>1, <2>2, <2>3, AddCallCorrect
    <2>4. CASE calls' = [calls EXCEPT ![k].call = TRUE] /\ UNCHANGED <<promises, wrappers>>
      <3> DEFINE call == [calls[k] EXCEPT !.call = TRUE]
      <3>1. call \in CallRecords /\ call.promise = calls[k].promise /\ call.listed = calls[k].listed
        BY PromiseFacts DEF CallRecords
      <3>2. calls' = [calls EXCEPT ![k] = call]
        BY <2>4
      <3> HIDE DEF call
      <3> QED
        BY <2>2, <2>4, <3>1, <3>2, CallOnlyCorrect DEF tasks
    <2> QED
      BY <1>3, <2>3, <2>4 DEF CallReceived
  <1> QED
    BY <1>1, <1>2, <1>3

LEMMA ProgressCorrect ==
    ASSUME NEW k \in Contacts
    PROVE  IInv /\ (Proposed(k) \/ Proceeded(k) \/ HangUpOrReject(k)) => IInv'
  <1> SUFFICES ASSUME IInv, Proposed(k) \/ Proceeded(k) \/ HangUpOrReject(k) PROVE IInv'
    OBVIOUS
  <1>1. UNCHANGED <<connected, closing, tasks, active, chat, crashed>>
    BY DEF Proposed, Proceeded, HangUpOrReject
  <1>2. calls[k] \in CallRecords
    BY PromiseFacts
  <1>3. PICK call \in CallRecords : /\ calls' = [calls EXCEPT ![k] = call]
                                   /\ call.promise = calls[k].promise /\ call.listed = calls[k].listed
    <2>1. CASE Proposed(k)
      <3> DEFINE a == [calls[k] EXCEPT !.proposing = FALSE, !.jmi = TRUE]
                 b == [calls[k] EXCEPT !.proposing = FALSE]
      <3>1. /\ a \in CallRecords /\ a.promise = calls[k].promise /\ a.listed = calls[k].listed
            /\ b \in CallRecords /\ b.promise = calls[k].promise /\ b.listed = calls[k].listed
        BY <1>2 DEF CallRecords
      <3>2. calls' = [calls EXCEPT ![k] = a] \/ calls' = [calls EXCEPT ![k] = b]
        BY <2>1 DEF Proposed
      <3> HIDE DEF a, b
      <3> QED
        BY <3>1, <3>2
    <2>2. CASE Proceeded(k)
      <3> DEFINE a == [calls[k] EXCEPT !.call = TRUE]
      <3>1. a \in CallRecords /\ a.promise = calls[k].promise /\ a.listed = calls[k].listed
        BY <1>2 DEF CallRecords
      <3>2. calls' = [calls EXCEPT ![k] = a]
        BY <2>2 DEF Proceeded
      <3> HIDE DEF a
      <3> QED
        BY <3>1, <3>2
    <2>3. CASE HangUpOrReject(k)
      BY <1>2, <2>3, EndedFacts DEF HangUpOrReject
    <2> QED
      BY <2>1, <2>2, <2>3
  <1> QED
    BY <1>1, <1>3, CallOnlyCorrect

LEMMA AcceptCorrect == ASSUME NEW k \in Contacts PROVE IInv /\ Accept(k) => IInv'
  <1> SUFFICES ASSUME IInv, Accept(k) PROVE IInv'
    OBVIOUS
  <1>1. /\ calls[k].listed /\ active' = k
        /\ UNCHANGED <<connected, closing, tasks, calls, chat, crashed>>
    BY DEF Accept
  <1>2. CallsOK'
    BY <1>1 DEF IInv, CallsOK, ActiveCallExists, tasks
  <1>3. TasksOK' /\ LogoutsOK' /\ ChatOK' /\ FlagsOK'
    BY <1>1 DEF IInv, TasksOK, LogoutsOK, ChatOK, FlagsOK, tasks
  <1> QED
    BY <1>2, <1>3 DEF IInv

\* Removing a call that is not active anymore, and at most changing its promise.
LEMMA CallGone ==
    ASSUME IInv, NEW k \in Contacts, calls' = [calls EXCEPT ![k] = Removed(@)],
           active' \in Contacts \cup {NoCall}, active' # k, active' # active => active' = NoCall,
           Len(promises') = Len(promises),
           \A n \in 1..Len(promises) : n # calls[k].promise => promises'[n] = promises[n],
           UNCHANGED <<logouts, chat>>
    PROVE  CallsOK' /\ LogoutsOK'
  <1> DEFINE gone == Removed(calls[k])
  <1>1. gone \in CallRecords /\ gone.promise = calls[k].promise /\ ~gone.listed
    BY PromiseFacts, RemovedFacts
  <1> HIDE DEF gone
  <1>2. /\ calls' \in [Contacts -> CallRecords] /\ calls'[k] = gone
        /\ \A l \in Contacts : l # k => calls'[l] = calls[l]
    <2>1. calls' = [calls EXCEPT ![k] = gone] /\ calls \in [Contacts -> CallRecords]
      BY DEF IInv, CallsOK, gone
    <2> QED
      BY <1>1, <2>1
  <1>3. /\ \A l \in Contacts : calls'[l].promise = calls[l].promise
        /\ \A l \in Contacts : calls'[l].listed => calls[l].listed /\ l # k
    BY <1>1, <1>2
  <1>4. CallsOK'
    <2>1. \A l \in Contacts : calls'[l].promise <= Len(promises')
      BY <1>3, PromiseFacts
    <2>2. \A l \in Contacts : calls'[l].listed =>
             calls'[l].promise # 0 /\ promises'[calls'[l].promise] # "finished"
      <3> SUFFICES ASSUME NEW l \in Contacts, calls'[l].listed
                   PROVE  calls[l].promise # 0 /\ promises'[calls[l].promise] # "finished"
        BY <1>3
      <3>1. l # k /\ calls[l].promise # 0 /\ calls[l].promise \in 1..Len(promises)
            /\ promises[calls[l].promise] # "finished"
        BY <1>3, PromiseFacts
      <3>2. calls[l].promise # calls[k].promise
        BY <3>1 DEF IInv, CallsOK
      <3> QED
        BY <3>1, <3>2
    <2>3. \A l, m \in Contacts : l # m /\ calls'[l].promise # 0 => calls'[l].promise # calls'[m].promise
      BY <1>3 DEF IInv, CallsOK
    <2>4. \A l \in Contacts : calls'[l].promise # 0 => calls'[l].promise # chat'.promise
      BY <1>3 DEF IInv, CallsOK
    <2>5. ActiveCallExists'
      BY <1>2 DEF IInv, CallsOK, ActiveCallExists
    <2> QED
      BY <1>2, <2>1, <2>2, <2>3, <2>4, <2>5 DEF CallsOK
  <1>5. \A i \in 1..Len(logouts) : logouts[i].calls \subseteq Contacts
    <2>1. \A i \in 1..Len(logouts) : logouts[i] \in Waiting
      BY DEF IInv, TasksOK
    <2> QED
      BY <2>1 DEF Waiting
  <1>6. ASSUME NEW i \in 1..Len(logouts), NEW l \in logouts[i].calls
        PROVE  calls'[l].promise # 0 /\ (calls'[l].listed => calls'[l].promise \in logouts[i].promises)
    <2>1. calls[l].promise # 0 /\ (calls[l].listed => calls[l].promise \in logouts[i].promises)
      BY DEF IInv, LogoutsOK
    <2>2. l \in Contacts
      BY <1>5
    <2> QED
      BY <1>3, <2>1, <2>2
  <1>7. LogoutsOK'
    BY <1>6 DEF LogoutsOK
  <1> QED
    BY <1>4, <1>7

\* The task of the chat is not affected by other promises.
LEMMA ChatUnaffected ==
    ASSUME IInv, UNCHANGED <<connected, closing, logouts, chat, forgotten>>,
           Len(promises') = Len(promises), NEW p \in Nat, p # chat.promise \/ UNCHANGED promises,
           \A n \in 1..Len(promises) : n # p => promises'[n] = promises[n],
           wrappers \ {p} \subseteq wrappers' \/ UNCHANGED wrappers,
           p # chat.promise \/ UNCHANGED wrappers
    PROVE  ChatOK'
  <1>1. forgotten = {} /\ chat.promise # 0 =>
           chat.promise \in wrappers' /\ promises'[chat.promise] = promises[chat.promise]
    <2> SUFFICES ASSUME forgotten = {}, chat.promise # 0
                 PROVE  chat.promise \in wrappers' /\ promises'[chat.promise] = promises[chat.promise]
      OBVIOUS
    <2>1. chat.promise \in wrappers
      BY DEF IInv, ChatOK
    <2>2. chat.promise \in 1..Len(promises)
      BY <2>1 DEF IInv, TasksOK
    <2> QED
      BY <2>1, <2>2
  <1> QED
    BY <1>1 DEF IInv, ChatOK

\* A call that ends gives up its promise and is not active anymore.
LEMMA RemoveQuitCallCorrect ==
    ASSUME IInv, NEW k \in Contacts, calls[k].listed, RemoveQuitCall(k),
           UNCHANGED <<connected, closing, posted, logouts, chat, forgotten, crashed>>
    PROVE  IInv'
  <1> DEFINE p == calls[k].promise
  <1>1. p \in Nat /\ p \in 1..Len(promises) /\ p # chat.promise
    BY PromiseFacts
  <1>2. /\ TasksOK' /\ Len(promises') = Len(promises)
        /\ \A n \in 1..Len(promises) : n # p => promises'[n] = promises[n]
        /\ wrappers \ {p} \subseteq wrappers'
    BY <1>1, ReleaseFacts DEF IInv, RemoveQuitCall
  <1>3. CallsOK' /\ LogoutsOK'
    <2>1. /\ calls' = [calls EXCEPT ![k] = Removed(@)]
          /\ active' = IF active = k THEN NoCall ELSE active
      BY DEF RemoveQuitCall
    <2>2. active' \in Contacts \cup {NoCall} /\ active' # k /\ (active' # active => active' = NoCall)
      BY <2>1, ConstantsAssumption DEF IInv, CallsOK
    <2> QED
      BY <1>2, <2>1, <2>2, CallGone
  <1>4. ChatOK'
    BY <1>1, <1>2, ChatUnaffected
  <1>5. FlagsOK'
    BY DEF IInv, FlagsOK
  <1> QED
    BY <1>2, <1>3, <1>4, <1>5 DEF IInv

LEMMA EndsCorrect ==
    ASSUME NEW k \in Contacts
    PROVE  IInv /\ (CallFinished(k) \/ JmiClosed(k)) => IInv'
  <1> SUFFICES ASSUME IInv, CallFinished(k) \/ JmiClosed(k) PROVE IInv'
    OBVIOUS
  <1>1. /\ calls[k].listed
        /\ UNCHANGED <<connected, closing, posted, logouts, chat, forgotten, crashed>>
    BY DEF CallFinished, JmiClosed
  <1>2. CASE RemoveQuitCall(k)
    BY <1>1, <1>2, RemoveQuitCallCorrect
  <1>3. CASE calls' = [calls EXCEPT ![k].ending = "jmi"] /\ UNCHANGED <<promises, wrappers, active>>
    <2> DEFINE call == [calls[k] EXCEPT !.ending = "jmi"]
    <2>1. call \in CallRecords /\ call.promise = calls[k].promise /\ call.listed = calls[k].listed
      BY PromiseFacts DEF CallRecords
    <2>2. calls' = [calls EXCEPT ![k] = call]
      BY <1>3
    <2> HIDE DEF call
    <2> QED
      BY <1>1, <1>3, <2>1, <2>2, CallOnlyCorrect DEF tasks
  <1> QED
    BY <1>2, <1>3 DEF CallFinished, JmiClosed

-----------------------------------------------------------------------------
(* The tasks.                                                              *)

LEMMA TailFacts ==
    ASSUME NEW q \in Seq(Nat), q # <<>>
    PROVE  /\ Tail(q) \in Seq(Nat) /\ 1 \in 1..Len(q) /\ Head(q) = q[1]
           /\ \A i \in 1..Len(Tail(q)) : i + 1 \in 1..Len(q) /\ Tail(q)[i] = q[i + 1]
  OBVIOUS

\* The active call is ended by its own handlers, another one is removed at once; the promise of
\* another call or of the chat is not finished instead.
LEMMA RunTaskCorrect == IInv /\ RunTask => IInv'
  <1> SUFFICES ASSUME IInv, RunTask PROVE IInv'
    OBVIOUS
  <1> DEFINE p == Head(posted)
  <1>1. posted \in Seq(Nat) /\ posted # <<>> /\ posted' = Tail(posted) /\ TasksOK
    BY DEF RunTask, IInv, TasksOK
  <1>2. /\ posted' \in Seq(Nat)
        /\ \A i \in 1..Len(posted') : \E n \in 1..Len(posted) : posted'[i] = posted[n]
        /\ p \in 1..Len(promises) /\ promises[p] # "added" /\ p \in Nat
    <2>1. /\ posted' \in Seq(Nat) /\ 1 \in 1..Len(posted) /\ p = posted[1]
          /\ \A i \in 1..Len(posted') : i + 1 \in 1..Len(posted) /\ posted'[i] = posted[i + 1]
      BY <1>1, TailFacts
    <2>2. p \in 1..Len(promises) /\ promises[p] # "added"
      BY <1>1, <2>1 DEF TasksOK
    <2>3. \A i \in 1..Len(posted') : \E n \in 1..Len(posted) : posted'[i] = posted[n]
      BY <2>1
    <2> HIDE DEF p
    <2>4. p \in Nat
      BY <2>2
    <2> QED
      BY <2>1, <2>2, <2>3, <2>4
  <1>3. UNCHANGED <<connected, closing, wrappers, logouts, forgotten>>
    BY DEF RunTask
  <1>4. FlagsOK'
    BY <1>3 DEF RunTask, RemoveCallOnLogout, ResetChatState, IInv, FlagsOK
  <1>5. UNCHANGED promises => TasksOK'
    BY <1>1, <1>2, <1>3 DEF TasksOK
  <1> HIDE DEF p
  <1>6. CASE UNCHANGED <<promises, calls, active, chat>>
    <2>1. CallsOK' /\ LogoutsOK' /\ ChatOK'
      BY <1>3, <1>6 DEF IInv, CallsOK, LogoutsOK, ChatOK, ActiveCallExists
    <2> QED
      BY <1>4, <1>5, <1>6, <2>1 DEF IInv
  <1>7. ASSUME NEW k \in Contacts, calls[k].promise = p, RemoveCallOnLogout(k)
        PROVE  IInv'
    <2>1. UNCHANGED <<active, chat>>
      BY <1>7 DEF RemoveCallOnLogout
    <2>2. p # chat.promise
      BY <1>2, <1>7, PromiseFacts
    <2>3. CASE active = k
      <3>1. calls' = [calls EXCEPT ![k] = Ended(@)] /\ UNCHANGED promises
        BY <1>7, <2>3 DEF RemoveCallOnLogout
      <3>2. /\ Ended(calls[k]) \in CallRecords /\ Ended(calls[k]).promise = calls[k].promise
            /\ Ended(calls[k]).listed = calls[k].listed
        BY PromiseFacts, EndedFacts
      <3>3. /\ calls' \in [Contacts -> CallRecords]
            /\ \A l \in Contacts : calls'[l].promise = calls[l].promise
            /\ \A l \in Contacts : calls'[l].listed = calls[l].listed
        BY <3>1, <3>2 DEF IInv, CallsOK
      <3>4. active' \in Contacts \cup {NoCall} /\ ActiveCallExists'
        BY <2>1, <3>3 DEF IInv, CallsOK, ActiveCallExists
      <3>5. CallsOK' /\ LogoutsOK'
        BY <1>3, <2>1, <3>1, <3>3, <3>4, CallsChange
      <3>6. ChatOK'
        BY <1>3, <2>1, <3>1 DEF IInv, ChatOK
      <3> QED
        BY <1>4, <1>5, <3>1, <3>5, <3>6 DEF IInv
    <2>4. CASE active # k
      <3>1. calls' = [calls EXCEPT ![k] = Removed(@)] /\ (UNCHANGED promises \/ Finish(p))
        BY <1>7, <2>4 DEF RemoveCallOnLogout
      <3>2. /\ TasksOK' /\ Len(promises') = Len(promises)
            /\ \A n \in 1..Len(promises) : n # p => promises'[n] = promises[n]
        <4>1. CASE UNCHANGED promises
          BY <1>5, <4>1
        <4>2. CASE Finish(p)
          BY <1>1, <1>2, <1>3, <4>2, FinishFacts
        <4> QED
          BY <3>1, <4>1, <4>2
      <3>3. active' \in Contacts \cup {NoCall} /\ active' # k /\ active' = active
        BY <2>1, <2>4 DEF IInv, CallsOK
      <3>4. CallsOK' /\ LogoutsOK'
        BY <1>3, <1>7, <2>1, <3>1, <3>2, <3>3, CallGone
      <3>5. ChatOK'
        BY <1>2, <1>3, <2>1, <2>2, <3>2, ChatUnaffected
      <3> QED
        BY <1>4, <3>2, <3>4, <3>5 DEF IInv
    <2> QED
      BY <2>3, <2>4
  <1>8. ASSUME \A k \in Contacts : calls[k].promise # p, ResetChatState(p), chat.promise = p
        PROVE  IInv'
    <2>1. Finish(p) /\ chat' = [chat EXCEPT !.promise = 0] /\ UNCHANGED <<calls, active>>
      BY <1>8 DEF ResetChatState
    <2>2. /\ TasksOK' /\ Len(promises') = Len(promises)
          /\ \A n \in 1..Len(promises) : n # p => promises'[n] = promises[n]
      BY <1>1, <1>2, <1>3, <2>1, FinishFacts
    <2>3. chat' \in [open : BOOLEAN, promise : Nat] /\ chat'.promise = 0
      BY <2>1 DEF IInv, ChatOK
    <2>4. CallsOK' /\ LogoutsOK'
      <3>1. ASSUME NEW k \in Contacts
            PROVE  /\ calls[k].listed => promises'[calls[k].promise] # "finished"
                   /\ calls[k].promise # 0 => calls[k].promise # chat'.promise
        BY <1>8, <2>2, <2>3, PromiseFacts
      <3>2. Len(promises') \in Nat /\ Len(promises) <= Len(promises')
        BY <2>2 DEF IInv, TasksOK
      <3> QED
        BY <1>3, <2>1, <3>1, <3>2, PromisesChange
    <2>5. ChatOK'
      <3>1. forgotten = {} => logouts # <<>>
        <4>1. p # 0 /\ promises[p] \in States
          BY <1>2 DEF IInv, TasksOK
        <4>2. forgotten = {} => promises[p] # "finished" /\ (promises[p] = "started" => logouts # <<>>)
          BY <1>8, <4>1 DEF IInv, ChatOK
        <4> QED
          BY <1>2, <4>1, <4>2 DEF States
      <3>2. chat'.promise <= Len(promises')
        BY <2>2, <2>3 DEF IInv, TasksOK
      <3> QED
        BY <1>3, <2>3, <3>1, <3>2 DEF ChatOK
    <2> QED
      BY <1>4, <2>2, <2>4, <2>5 DEF IInv
  <1>9. \/ UNCHANGED <<promises, calls, active, chat>>
        \/ \E k \in Contacts : calls[k].promise = p /\ RemoveCallOnLogout(k)
        \/ /\ \A k \in Contacts : calls[k].promise # p
           /\ ResetChatState(p) /\ chat.promise = p
    <2>1. CASE p \notin wrappers
      BY <2>1 DEF RunTask, p
    <2>2. CASE p \in wrappers /\ \E k \in Contacts : calls[k].promise = p
      <3> DEFINE k == CHOOSE k \in Contacts : calls[k].promise = p
      <3>1. k \in Contacts /\ calls[k].promise = p
        BY <2>2
      <3>2. RemoveCallOnLogout(k)
        BY <2>2 DEF RunTask, p
      <3> QED
        BY <3>1, <3>2
    <2>3. CASE p \in wrappers /\ ~\E k \in Contacts : calls[k].promise = p
      <3>1. ResetChatState(p)
        BY <2>3 DEF RunTask, p
      <3>2. CASE chat.promise = p
        BY <2>3, <3>1, <3>2
      <3>3. CASE chat.promise # p
        BY <3>1, <3>3 DEF ResetChatState
      <3> QED
        BY <3>2, <3>3
    <2> QED
      BY <2>1, <2>2, <2>3
  <1> QED
    BY <1>6, <1>7, <1>8, <1>9

-----------------------------------------------------------------------------
(* Theorems.                                                               *)

LEMMA NextCorrect == IInv /\ [Next]_vars => IInv'
  <1> SUFFICES ASSUME IInv, [Next]_vars PROVE IInv'
    OBVIOUS
  <1>1. CASE Next
    BY <1>1, LogOutCorrect, TasksFinishedCorrect, RunTaskCorrect, ConnectedCorrect, DisconnectedCorrect,
       OpenChatCorrect, CloseChatCorrect, StartsCorrect, ProgressCorrect, AcceptCorrect, EndsCorrect
       DEF Next
  <1>2. CASE UNCHANGED vars
    BY <1>2 DEF vars, IInv, TasksOK, CallsOK, LogoutsOK, ChatOK, FlagsOK, ActiveCallExists
  <1> QED
    BY <1>1, <1>2

\* For any contacts and any number of logouts, calls, chats and connections, all variables have their
\* types, the active call exists, and while the account is connected its next logout resets the chat
\* state of the opened chat, unless a task was forgotten (addChatStateResetLogoutTaskOnConnected(),
\* removeQuitCall(), removeCallOnLogout()).
THEOREM TasksCorrect == Spec => []TasksInv
  <1>1. IInv => TypeOK
    <2> SUFFICES ASSUME IInv PROVE TypeOK
      OBVIOUS
    <2>1. /\ promises \in Seq(States) /\ DOMAIN promises = 1..Len(promises) /\ Len(promises) \in Nat
          /\ wrappers \subseteq 1..Len(promises) /\ forgotten \subseteq 1..Len(promises)
          /\ posted \in Seq(Nat) /\ DOMAIN posted = 1..Len(posted)
          /\ \A i \in 1..Len(posted) : posted[i] \in 1..Len(promises)
          /\ logouts \in Seq(Waiting) /\ DOMAIN logouts = 1..Len(logouts)
          /\ \A i \in 1..Len(logouts) : logouts[i].promises \subseteq 1..Len(promises)
      BY DEF IInv, TasksOK
    <2>2. ToSet(posted) \subseteq 1..Len(promises)
      BY <2>1 DEF ToSet
    <2>3. \A i \in 1..Len(logouts) : logouts[i].calls \subseteq Contacts
      <3>1. \A i \in 1..Len(logouts) : logouts[i] \in Waiting
        BY <2>1
      <3> QED
        BY <3>1 DEF Waiting
    <2>4. calls \in [Contacts -> Calls]
      <3>1. ASSUME NEW k \in Contacts PROVE calls[k] \in Calls
        <4>1. calls[k] \in CallRecords /\ calls[k].promise \in 0..Len(promises)
          BY PromiseFacts
        <4> QED
          BY <4>1 DEF Calls, CallRecords
      <3> QED
        BY <3>1 DEF IInv, CallsOK
    <2>5. active \in Contacts \cup {NoCall}
      BY DEF IInv, CallsOK
    <2>6. chat.open \in BOOLEAN /\ chat.promise \in 0..Len(promises)
      BY <2>1 DEF IInv, ChatOK
    <2> QED
      BY <2>1, <2>2, <2>3, <2>4, <2>5, <2>6 DEF IInv, FlagsOK, TypeOK, States
  <1>2. IInv => ChatTaskReady
    <2> SUFFICES ASSUME IInv, connected, ~closing, logouts = <<>>, chat.open, forgotten = {}
                 PROVE  chat.promise \in wrappers /\ promises[chat.promise] = "added"
      BY DEF ChatTaskReady
    <2>1. /\ chat.promise \in wrappers /\ promises[chat.promise] # "finished"
          /\ promises[chat.promise] # "started"
      BY DEF IInv, ChatOK
    <2>2. chat.promise \in 1..Len(promises)
      BY <2>1 DEF IInv, TasksOK
    <2>3. promises[chat.promise] \in States
      BY <2>2 DEF IInv, TasksOK
    <2> QED
      BY <2>1, <2>3 DEF States
  <1>3. IInv => TasksInv
    BY <1>1, <1>2 DEF TasksInv, IInv, CallsOK
  <1> QED
    BY InitCorrect, NextCorrect, <1>3, PTL DEF Spec

\* The calls a logout has found have ended when its continuation logs the client out, for any contacts
\* and any number of logouts, whatever ends them (Connection::logOut(), removeCallOnLogout()).
THEOREM LogoutCorrect == Spec => CallsEndBeforeLogout
  <1>1. ASSUME IInv, Next, NEW i \in DOMAIN logouts, Len(logouts') < Len(logouts),
               \A j \in DOMAIN logouts' : logouts'[j] # logouts[i]
        PROVE  logouts[i].calls \cap Listed = {}
    <2>1. logouts \in Seq(Waiting) /\ Len(logouts) \in Nat /\ DOMAIN logouts = 1..Len(logouts)
      BY <1>1 DEF IInv, TasksOK
    <2>2. CASE TasksFinished
      <3>1. PICK n \in 1..Len(logouts) : /\ \A p \in logouts[n].promises : promises[p] = "finished"
                                         /\ logouts' = RemoveAt(logouts, n)
        BY <2>1, <2>2 DEF TasksFinished, ClearAndLogOut
      <3>2. /\ logouts' \in Seq(Waiting) /\ Len(logouts') = Len(logouts) - 1
            /\ \A j \in 1..Len(logouts') : logouts'[j] = logouts[IF j < n THEN j ELSE j + 1]
        BY <2>1, <3>1, RemoveAtFacts
      <3>3. i = n
        <4>1. CASE i < n
          <5>1. i \in 1..Len(logouts') /\ logouts'[i] = logouts[i]
            BY <2>1, <3>2, <4>1
          <5> QED
            BY <1>1, <3>2, <5>1
        <4>2. CASE i > n
          <5>1. i - 1 \in 1..Len(logouts') /\ ~(i - 1 < n) /\ (i - 1) + 1 = i
            BY <2>1, <3>2, <4>2
          <5>2. logouts'[i - 1] = logouts[i]
            BY <3>2, <5>1
          <5> QED
            BY <1>1, <3>2, <5>1, <5>2
        <4> QED
          BY <2>1, <4>1, <4>2
      <3>4. ASSUME NEW k \in logouts[i].calls, k \in Listed PROVE FALSE
        <4>1. k \in Contacts /\ calls[k].listed
          BY <3>4 DEF Listed
        <4>2. calls[k].promise \in logouts[i].promises
          BY <1>1, <2>1, <3>4, <4>1 DEF IInv, LogoutsOK
        <4>3. promises[calls[k].promise] # "finished"
          BY <1>1, <4>1, PromiseFacts
        <4> QED
          BY <3>1, <3>3, <4>2, <4>3
      <3> QED
        BY <3>4
    <2>3. CASE LogOut
      <3>1. logouts' = logouts \/ \E w : logouts' = Append(logouts, w)
        BY <2>3 DEF LogOut, ClearAndLogOut
      <3>2. \A w : Len(Append(logouts, w)) = Len(logouts) + 1
        BY <2>1
      <3> QED
        BY <1>1, <2>1, <3>1, <3>2
    <2>4. CASE ~TasksFinished /\ ~LogOut
      <3>1. UNCHANGED logouts
        BY <1>1, <2>4 DEF Next, RunTask, Connected, Disconnected, OpenChat, CloseChat, StartCall,
           CallProposed, CallReceived, Proposed, Proceeded, Accept, HangUpOrReject, CallFinished,
           JmiClosed, tasks
      <3> QED
        BY <1>1, <2>1, <3>1
    <2> QED
      BY <2>2, <2>3, <2>4
  <1>2. IInv /\ [Next]_vars =>
           [\A i \in DOMAIN logouts :
               Len(logouts') < Len(logouts) /\ (\A j \in DOMAIN logouts' : logouts'[j] # logouts[i])
                  => logouts[i].calls \cap Listed = {}]_vars
    BY <1>1
  <1> QED
    BY InitCorrect, NextCorrect, <1>2, PTL DEF Spec, CallsEndBeforeLogout

=============================================================================
