----------------------- MODULE MessageDelivery_proofs -----------------------
(***************************************************************************)
(* Theorems about MessageDelivery: its types, safety invariants and action *)
(* properties, with the inductive strengthenings stated in that module.    *)
(***************************************************************************)
EXTENDS MessageDelivery, TLAPS, SequenceTheorems

-----------------------------------------------------------------------------
(* Types of the helpers.                                                   *)

\* A row stays a row whatever job is run on it.
LEMMA RowAfterType ==
    ASSUME NEW row \in Rows, NEW job \in ItemJobs
    PROVE  RowAfter(row, job) \in Rows
<1>1. job.item \in Items /\ job.item.id \in Versions /\ job.item.ver \in Versions /\ job.op \in ItemOps
  BY DEF ItemJobs, Items
<1>2. 0 \in Versions
  BY ConstantsAssumption DEF Versions
<1>3. /\ row.state \in DeliveryStates \cup {"NoRow"}
      /\ row.id \in Versions /\ row.ver \in Versions /\ row.removed \in BOOLEAN
  BY DEF Rows
<1>4. ASSUME NEW id, NEW state \in DeliveryStates PROVE Updated(row, id, state) \in Rows
  BY <1>3 DEF Updated, Rows
<1>5. Corrected(row, job.item.ver) \in Rows
  BY <1>1, <1>3 DEF Corrected, Rows, DeliveryStates
<1>6. Echoed(row, job.item) \in Rows
  BY <1>1, <1>3 DEF Echoed, Rows, DeliveryStates
<1>7. [state |-> "Pending", id |-> job.item.id, ver |-> job.item.ver, removed |-> FALSE] \in Rows
  BY <1>1 DEF Rows, DeliveryStates
<1>8. (IF Visible(row) THEN [row EXCEPT !.removed = TRUE] ELSE row) \in Rows
  BY <1>3 DEF Rows
<1> QED
  BY <1>1, <1>2, <1>4, <1>5, <1>6, <1>7, <1>8 DEF RowAfter, ItemOps, DeliveryStates

\* The item of a row, and the item a message starts with, are items.
LEMMA ItemOfType ==
    ASSUME TypeOK, NEW m \in Msgs
    PROVE  ItemOf(m) \in Items /\ Origin(m) \in Items
  BY ConstantsAssumption DEF TypeOK, ItemOf, Origin, Items, Rows, Versions

\* Every item has a name for its parts.
LEMMA ItemParts ==
    ASSUME NEW i \in Items
    PROVE  /\ i.msg \in Msgs /\ i.id \in Versions /\ i.ver \in Versions
           /\ i = [msg |-> i.msg, id |-> i.id, ver |-> i.ver]
  BY DEF Items

\* A job about an item is a job.
LEMMA JobType ==
    ASSUME NEW op \in ItemOps, NEW i \in Items
    PROVE  Job(op, i) \in ItemJobs /\ Job(op, i) \in Jobs
  BY DEF Job, ItemJobs, Jobs

\* A job is a fetch or is about an item, and the names tell which.
LEMMA JobCases ==
    ASSUME NEW job \in Jobs
    PROVE  /\ job.op # "fetch" => job \in ItemJobs /\ job.item \in Items /\ job.op \in ItemOps
           /\ job.op = "fetch" => job = FetchJob
  BY DEF Jobs, ItemJobs, FetchJob, ItemOps

\* Transmissions keep the types of the bags and of the history.
LEMMA TransmitType ==
    ASSUME TypeOK, NEW S \in SUBSET Items, Transmit(S)
    PROVE  inFlight' \in [Items -> Nat] /\ wire' \subseteq Items
<1>1. inFlight \in [Items -> Nat] /\ wire \subseteq Items
  BY DEF TypeOK
<1>2. CASE connected
  BY <1>1, <1>2 DEF Transmit
<1>3. CASE ~connected
  BY <1>1, <1>3 DEF Transmit
<1> QED
  BY <1>2, <1>3

LEMMA SendPendingType ==
    ASSUME TypeOK, NEW S \in SUBSET Items, SendPending(S)
    PROVE  /\ resolving' \in [Items -> Nat]
           /\ inFlight' \in [Items -> Nat]
           /\ wire' \subseteq Items
<1>1. CASE connected
  <2>1. Transmit({i \in S : i.msg \notin GroupMsgs})
    BY <1>1 DEF SendPending
  <2>2. resolving' \in [Items -> Nat]
    BY <1>1 DEF SendPending, TypeOK
  <2> QED
    BY <2>1, <2>2, TransmitType
<1>2. CASE ~connected
  BY <1>2 DEF SendPending, sending, TypeOK
<1> QED
  BY <1>1, <1>2

-----------------------------------------------------------------------------
(* Type correctness.                                                       *)

LEMMA InitType == Init => TypeOK
<1> SUFFICES ASSUME Init PROVE TypeOK
  OBVIOUS
<1>1. NoRow \in Rows
  BY ConstantsAssumption DEF NoRow, Rows, Versions
<1>2. <<>> \in Seq(Jobs) /\ <<>> \in Seq(Continuations)
  OBVIOUS
<1>3. /\ [m \in Msgs |-> NoRow] \in [Msgs -> Rows]
      /\ [i \in Items |-> 0] \in [Items -> Nat]
      /\ [m \in Msgs |-> 0] \in [Msgs -> Versions]
  BY <1>1, ConstantsAssumption DEF Versions
<1>4. loaded \in BOOLEAN
  BY ConstantsAssumption DEF Init
<1> QED
  BY <1>2, <1>3, <1>4 DEF Init, TypeOK

\* The types of the queues after one step of each kind, stated once.
LEMMA QueueType ==
    ASSUME TypeOK
    PROVE  /\ \A op \in ItemOps, i \in Items : Append(jobs, Job(op, i)) \in Seq(Jobs)
           /\ Append(jobs, FetchJob) \in Seq(Jobs)
           /\ jobs # <<>> => Head(jobs) \in Jobs /\ Tail(jobs) \in Seq(Jobs)
           /\ posted # <<>> => Head(posted) \in Continuations /\ Tail(posted) \in Seq(Continuations)
           /\ \A c \in Continuations : Append(posted, c) \in Seq(Continuations)
<1>1. FetchJob \in Jobs
  BY DEF Jobs
<1> QED
  BY <1>1, JobType DEF TypeOK

LEMMA UserStepType ==
    ASSUME TypeOK, NEW m \in Msgs, Send(m) \/ Correct(m) \/ Resend(m) \/ Remove(m)
    PROVE  TypeOK'
<1>1. CASE Send(m)
  <2>1. [msg |-> m, id |-> 0, ver |-> 0] \in Items
    BY ItemOfType DEF Origin
  <2>2. jobs' \in Seq(Jobs)
    BY <1>1, <2>1, QueueType DEF Send, ItemOps
  <2>3. /\ resolving' \in [Items -> Nat] /\ inFlight' \in [Items -> Nat] /\ wire' \subseteq Items
    BY <1>1, <2>1, SendPendingType DEF Send
  <2> QED
    BY <1>1, <2>2, <2>3 DEF Send, TypeOK, session
<1>2. CASE Correct(m)
  <2>1. edits[m] + 1 \in Versions
    BY <1>2, ConstantsAssumption DEF Correct, TypeOK, Versions
  <2>2. [msg |-> m, id |-> 0, ver |-> edits[m] + 1] \in Items
    BY <2>1, ConstantsAssumption DEF Items, Versions
  <2>3. jobs' \in Seq(Jobs)
    BY <1>2, <2>2, QueueType DEF Correct, ItemOps
  <2> QED
    BY <1>2, <2>1, <2>3 DEF Correct, TypeOK, session, sending
<1>3. CASE Resend(m)
  <2>1. ItemOf(m) \in Items
    BY ItemOfType
  <2>2. jobs' \in Seq(Jobs)
    BY <1>3, <2>1, QueueType DEF Resend, ItemOps
  <2>3. /\ resolving' \in [Items -> Nat] /\ inFlight' \in [Items -> Nat] /\ wire' \subseteq Items
    BY <1>3, <2>1, SendPendingType DEF Resend
  <2> QED
    BY <1>3, <2>2, <2>3 DEF Resend, TypeOK, session, user
<1>4. CASE Remove(m)
  <2>1. jobs' \in Seq(Jobs)
    BY <1>4, ItemOfType, QueueType DEF Remove, ItemOps
  <2> QED
    BY <1>4, <2>1 DEF Remove, TypeOK, session, sending, user
<1> QED
  BY <1>1, <1>2, <1>3, <1>4

LEMMA WorkerStepType ==
    ASSUME TypeOK, RunItemJob \/ RunFetch
    PROVE  TypeOK'
<1>1. CASE RunItemJob
  <2> DEFINE job == Head(jobs)
             m   == job.item.msg
             row == RowAfter(db[m], job)
  <2>1. job \in ItemJobs /\ job.item \in Items /\ m \in Msgs
    BY <1>1, QueueType, JobCases, ItemParts DEF RunItemJob
  <2>2. db[m] \in Rows /\ row \in Rows
    BY <2>1, RowAfterType DEF TypeOK
  <2>3. [msg |-> m, id |-> row.id, ver |-> row.ver] \in Items
    BY <2>1, <2>2 DEF Items, Rows
  <2>4. [kind |-> "correction", items |-> {[msg |-> m, id |-> row.id, ver |-> row.ver]}] \in Continuations
    BY <2>3 DEF Continuations
  <2>5. posted' \in Seq(Continuations)
    BY <1>1, <2>4, QueueType DEF RunItemJob, TypeOK
  <2>6. db' \in [Msgs -> Rows]
    BY <1>1, <2>1, <2>2 DEF RunItemJob, TypeOK
  <2>7. jobs' \in Seq(Jobs)
    BY <1>1, QueueType DEF RunItemJob
  <2> QED
    BY <1>1, <2>5, <2>6, <2>7 DEF RunItemJob, TypeOK, session, sending, user
<1>2. CASE RunFetch
  <2>1. PendingItems \subseteq Items
    BY ItemOfType DEF PendingItems
  <2>2. [kind |-> "flush", items |-> PendingItems] \in Continuations
    BY <2>1 DEF Continuations
  <2> QED
    BY <1>2, <2>2, QueueType DEF RunFetch, TypeOK, session, sending, user
<1> QED
  BY <1>1, <1>2

LEMMA MainStepType ==
    ASSUME TypeOK,
           \/ Flush \/ SendCorrection
           \/ \E i \in Items : RecipientsResolved(i) \/ SendResult(i)
           \/ \E i \in Items : Receipt(i) \/ ErrorStanza(i) \/ Echo(i)
    PROVE  TypeOK'
<1>1. CASE Flush
  <2>1. Head(posted).items \in SUBSET Items /\ posted' \in Seq(Continuations)
    BY <1>1, QueueType DEF Flush, Continuations
  <2>2. /\ resolving' \in [Items -> Nat] /\ inFlight' \in [Items -> Nat] /\ wire' \subseteq Items
    BY <1>1, <2>1, SendPendingType DEF Flush
  <2> QED
    BY <1>1, <2>1, <2>2 DEF Flush, TypeOK, session, user
<1>2. CASE SendCorrection
  <2>1. Head(posted).items \in SUBSET Items /\ posted' \in Seq(Continuations)
    BY <1>2, QueueType DEF SendCorrection, Continuations
  <2>2. inFlight' \in [Items -> Nat] /\ wire' \subseteq Items
    BY <1>2, <2>1, TransmitType DEF SendCorrection
  <2> QED
    BY <1>2, <2>1, <2>2 DEF SendCorrection, TypeOK, session, user
<1>3. ASSUME NEW i \in Items, RecipientsResolved(i) PROVE TypeOK'
  <2>1. inFlight' \in [Items -> Nat] /\ wire' \subseteq Items
    BY <1>3, TransmitType DEF RecipientsResolved
  <2>2. jobs' \in Seq(Jobs)
    BY <1>3, QueueType DEF RecipientsResolved, ItemOps, TypeOK
  <2>3. resolving' \in [Items -> Nat]
    BY <1>3 DEF RecipientsResolved, TypeOK
  <2> QED
    BY <1>3, <2>1, <2>2, <2>3 DEF RecipientsResolved, TypeOK, session, user
<1>4. ASSUME NEW i \in Items, SendResult(i) PROVE TypeOK'
  <2>1. jobs' \in Seq(Jobs)
    BY <1>4, QueueType DEF SendResult, ItemOps
  <2>2. inFlight' \in [Items -> Nat]
    BY <1>4 DEF SendResult, TypeOK
  <2> QED
    BY <1>4, <2>1, <2>2 DEF SendResult, TypeOK, session, user
<1>5. ASSUME NEW i \in Items, Receipt(i) \/ ErrorStanza(i) \/ Echo(i) PROVE TypeOK'
  <2>1. jobs' \in Seq(Jobs)
    BY <1>5, QueueType DEF Receipt, ErrorStanza, Echo, ItemOps
  <2> QED
    BY <1>5, <2>1 DEF Receipt, ErrorStanza, Echo, TypeOK, sending, session, user
<1> QED
  BY <1>1, <1>2, <1>3, <1>4, <1>5

LEMMA PendingDataType ==
    ASSUME TypeOK, PendingDataRequested
    PROVE  jobs' \in Seq(Jobs) /\ waiters' \in Nat
<1>1. jobs \in Seq(Jobs) /\ Append(jobs, FetchJob) \in Seq(Jobs) /\ waiters \in Nat
  BY QueueType DEF TypeOK
<1> QED
  BY <1>1 DEF PendingDataRequested

\* What connecting and finishing the set-up may enqueue.
LEMMA FetchAtMost ==
    ASSUME Connected \/ Disconnected \/ SetUpFinished
    PROVE  /\ jobs' = jobs \/ jobs' = Append(jobs, FetchJob)
           /\ UNCHANGED <<db, posted, resolving, inFlight, wire, composed, edits>>
<1>1. CASE Connected
  BY <1>1 DEF Connected, PendingDataRequested, sending, user
<1>2. CASE Disconnected
  BY <1>2 DEF Disconnected, storage, sending, user
<1>3. CASE SetUpFinished
  BY <1>3 DEF SetUpFinished, PendingDataRequested, sending, user
<1> QED
  BY <1>1, <1>2, <1>3

LEMMA ConnectionStepType ==
    ASSUME TypeOK, Connected \/ Disconnected \/ SetUpFinished \/ ServicesChanged \/ Restart
    PROVE  TypeOK'
<1>1. CASE Connected
  <2>1. jobs' \in Seq(Jobs) /\ waiters' \in Nat /\ setUps' \in Nat
    <3>1. CASE loaded
      BY <1>1, <3>1, PendingDataType DEF Connected, TypeOK
    <3>2. CASE ~loaded
      BY <1>1, <3>2 DEF Connected, TypeOK
    <3> QED
      BY <3>1, <3>2
  <2>2. connected' \in BOOLEAN /\ sessions' \in Nat
    BY <1>1 DEF Connected, TypeOK
  <2>3. UNCHANGED <<db, posted, resolving, inFlight, wire, loaded, composed, edits, crashes>>
    BY <1>1 DEF Connected, sending, user
  <2> QED
    BY <2>1, <2>2, <2>3 DEF TypeOK
<1>5. CASE Disconnected
  BY <1>5 DEF Disconnected, storage, sending, user, TypeOK
<1>2. CASE SetUpFinished
  <2>1. jobs' \in Seq(Jobs) /\ waiters' \in Nat /\ loaded' \in BOOLEAN
    BY <1>2, PendingDataType DEF SetUpFinished, TypeOK
  <2>2. setUps' \in Nat
    BY <1>2 DEF SetUpFinished, TypeOK
  <2>3. UNCHANGED <<db, posted, resolving, inFlight, wire, connected, sessions, composed, edits, crashes>>
    BY <1>2 DEF SetUpFinished, sending, user
  <2> QED
    BY <2>1, <2>2, <2>3 DEF TypeOK
<1>3. CASE ServicesChanged
  <2>1. [k \in 1 .. waiters |-> FetchJob] \in Seq(Jobs)
    BY IsASeq DEF TypeOK, Jobs
  <2>2. jobs' \in Seq(Jobs)
    BY <1>3, <2>1, ConcatProperties DEF ServicesChanged, TypeOK
  <2> QED
    BY <1>3, <2>2 DEF ServicesChanged, TypeOK, sending, user
<1>4. CASE Restart
  <2>1. jobs' \in Seq(Jobs) /\ posted' \in Seq(Continuations)
    BY <1>4 DEF Restart
  <2>2. resolving' \in [Items -> Nat] /\ inFlight' \in [Items -> Nat]
    BY <1>4 DEF Restart
  <2>3. UNCHANGED <<db, sessions, loaded, composed, edits, wire>> /\ connected' = FALSE
    BY <1>4 DEF Restart, user
  <2>4. setUps' = 0 /\ waiters' = 0 /\ crashes' \in Nat
    BY <1>4 DEF Restart, TypeOK
  <2> QED
    BY <2>1, <2>2, <2>3, <2>4 DEF TypeOK
<1> QED
  BY <1>1, <1>2, <1>3, <1>4, <1>5

LEMMA StepType == TypeOK /\ [Next]_vars => TypeOK'
<1> SUFFICES ASSUME TypeOK, [Next]_vars PROVE TypeOK'
  OBVIOUS
<1>1. CASE Next
  BY <1>1, UserStepType, WorkerStepType, MainStepType, ConnectionStepType DEF Next
<1>2. CASE UNCHANGED vars
  BY <1>2 DEF vars, storage, sending, session, user, TypeOK
<1> QED
  BY <1>1, <1>2

\* Every reachable state of every instance is typed.
THEOREM TypeCorrect == Spec => []TypeOK
  BY InitType, StepType, PTL DEF Spec

-----------------------------------------------------------------------------
(* Queues after a step: every job of the new queue is an old one or a new  *)
(* one that is known.                                                      *)

LEMMA AppendedJobs ==
    ASSUME TypeOK, NEW job, jobs' = Append(jobs, job)
    PROVE  /\ DOMAIN jobs' = 1 .. Len(jobs) + 1 /\ DOMAIN jobs = 1 .. Len(jobs) /\ Len(jobs) \in Nat
           /\ \A k \in DOMAIN jobs : jobs'[k] = jobs[k]
           /\ jobs'[Len(jobs) + 1] = job
  BY DEF TypeOK

LEMMA RemainingJobs ==
    ASSUME TypeOK, jobs # <<>>, jobs' = Tail(jobs)
    PROVE  /\ Head(jobs) = jobs[1] /\ 1 \in DOMAIN jobs
           /\ DOMAIN jobs = 1 .. Len(jobs) /\ Len(jobs) \in Nat \ {0}
           /\ DOMAIN jobs' = 1 .. Len(jobs) - 1
           /\ \A k \in DOMAIN jobs' : k + 1 \in DOMAIN jobs /\ jobs'[k] = jobs[k + 1]
  BY DEF TypeOK

LEMMA FetchesAppended ==
    ASSUME TypeOK, ServicesChanged
    PROVE  /\ DOMAIN jobs = 1 .. Len(jobs) /\ Len(jobs) \in Nat
           /\ DOMAIN jobs \subseteq DOMAIN jobs'
           /\ \A k \in DOMAIN jobs : jobs'[k] = jobs[k]
           /\ \A k \in DOMAIN jobs' : k \notin DOMAIN jobs => jobs'[k] = FetchJob
<1> DEFINE fetches == [k \in 1 .. waiters |-> FetchJob]
<1>1. fetches \in Seq(Jobs) /\ Len(fetches) = waiters /\ waiters \in Nat
  <2>1. fetches \in Seq(Jobs)
    BY IsASeq DEF TypeOK, Jobs
  <2>2. waiters \in Nat
    BY DEF TypeOK
  <2>3. DOMAIN fetches = 1 .. waiters
    OBVIOUS
  <2> QED
    BY <2>1, <2>2, <2>3, LenProperties
<1>2. jobs \in Seq(Jobs) /\ jobs' = jobs \o fetches
  BY DEF TypeOK, ServicesChanged
<1>3. /\ Len(jobs') = Len(jobs) + Len(fetches)
      /\ \A k \in 1 .. Len(jobs) + Len(fetches) :
            jobs'[k] = IF k <= Len(jobs) THEN jobs[k] ELSE fetches[k - Len(jobs)]
      /\ jobs' \in Seq(Jobs)
  BY <1>1, <1>2, ConcatProperties
<1>4. DOMAIN jobs' = 1 .. Len(jobs) + waiters /\ DOMAIN jobs = 1 .. Len(jobs) /\ Len(jobs) \in Nat
  BY <1>1, <1>2, <1>3, LenProperties
<1> QED
  BY <1>1, <1>3, <1>4

-----------------------------------------------------------------------------
(* Nothing is settled that was not transmitted.                            *)

Settled == TypeOK /\ EvidenceOnWire /\ SettledOnlyAfterTransmission

\* A transmission keeps the history and puts each unanswered item on it.
LEMMA TransmitEvidence ==
    ASSUME TypeOK, EvidenceOnWire, NEW S \in SUBSET Items, Transmit(S)
    PROVE  wire \subseteq wire' /\ \A i \in Items : inFlight'[i] > 0 => i \in wire'
  BY DEF TypeOK, EvidenceOnWire, Transmit

LEMMA SendPendingEvidence ==
    ASSUME TypeOK, EvidenceOnWire, NEW S \in SUBSET Items, SendPending(S)
    PROVE  wire \subseteq wire' /\ \A i \in Items : inFlight'[i] > 0 => i \in wire'
<1>1. CASE connected
  <2>1. Transmit({i \in S : i.msg \notin GroupMsgs})
    BY <1>1 DEF SendPending
  <2> QED
    BY <2>1, TransmitEvidence
<1>2. CASE ~connected
  BY <1>2 DEF SendPending, sending, EvidenceOnWire
<1> QED
  BY <1>1, <1>2

\* One job is appended, the history does not shrink, and the job brings its evidence.
LEMMA AppendEvidence ==
    ASSUME TypeOK, EvidenceOnWire, NEW job, jobs' = Append(jobs, job),
           wire \subseteq wire',
           \A i \in Items : inFlight'[i] > 0 => i \in wire',
           job.op \in {"sent", "receipt", "echo"} => job.item \in wire'
    PROVE  EvidenceOnWire'
  BY AppendedJobs DEF EvidenceOnWire

LEMMA EvidenceStep ==
    ASSUME TypeOK, EvidenceOnWire, [Next]_vars
    PROVE  EvidenceOnWire' /\ wire \subseteq wire'
<1>1. ASSUME NEW m \in Msgs, Send(m) PROVE EvidenceOnWire' /\ wire \subseteq wire'
  <2>1. [msg |-> m, id |-> 0, ver |-> 0] \in Items
    BY ItemOfType DEF Origin
  <2>2. wire \subseteq wire' /\ \A i \in Items : inFlight'[i] > 0 => i \in wire'
    BY <1>1, <2>1, SendPendingEvidence DEF Send
  <2>3. jobs' = Append(jobs, Job("add", [msg |-> m, id |-> 0, ver |-> 0]))
    BY <1>1 DEF Send
  <2> QED
    BY <2>2, <2>3, AppendEvidence DEF Job
<1>2. ASSUME NEW m \in Msgs, Correct(m) PROVE EvidenceOnWire' /\ wire \subseteq wire'
  <2>1. /\ jobs' = Append(jobs, Job("correct", [msg |-> m, id |-> 0, ver |-> edits[m] + 1]))
        /\ UNCHANGED <<wire, inFlight>>
    BY <1>2 DEF Correct, sending
  <2> QED
    BY <2>1, AppendEvidence DEF Job, EvidenceOnWire
<1>3. ASSUME NEW m \in Msgs, Resend(m) PROVE EvidenceOnWire' /\ wire \subseteq wire'
  <2>1. wire \subseteq wire' /\ \A i \in Items : inFlight'[i] > 0 => i \in wire'
    BY <1>3, ItemOfType, SendPendingEvidence DEF Resend
  <2>2. jobs' = Append(jobs, Job("resend", ItemOf(m)))
    BY <1>3 DEF Resend
  <2> QED
    BY <2>1, <2>2, AppendEvidence DEF Job
<1>4. ASSUME NEW m \in Msgs, Remove(m) PROVE EvidenceOnWire' /\ wire \subseteq wire'
  <2>1. jobs' = Append(jobs, Job("remove", ItemOf(m))) /\ UNCHANGED <<wire, inFlight>>
    BY <1>4 DEF Remove, sending
  <2> QED
    BY <2>1, AppendEvidence DEF Job, EvidenceOnWire
<1>5. CASE RunItemJob \/ RunFetch
  <2>1. jobs # <<>> /\ jobs' = Tail(jobs) /\ UNCHANGED <<wire, inFlight>>
    BY <1>5 DEF RunItemJob, RunFetch, sending
  <2> QED
    BY <2>1, RemainingJobs DEF EvidenceOnWire
<1>6. CASE Flush
  <2>1. Head(posted).items \in SUBSET Items
    BY <1>6, QueueType DEF Flush, Continuations
  <2>2. wire \subseteq wire' /\ \A i \in Items : inFlight'[i] > 0 => i \in wire'
    BY <1>6, <2>1, SendPendingEvidence DEF Flush
  <2> QED
    BY <1>6, <2>2 DEF Flush, EvidenceOnWire
<1>7. CASE SendCorrection
  <2>1. Head(posted).items \in SUBSET Items
    BY <1>7, QueueType DEF SendCorrection, Continuations
  <2>2. wire \subseteq wire' /\ \A i \in Items : inFlight'[i] > 0 => i \in wire'
    BY <1>7, <2>1, TransmitEvidence DEF SendCorrection
  <2> QED
    BY <1>7, <2>2 DEF SendCorrection, EvidenceOnWire
<1>8. ASSUME NEW i \in Items, RecipientsResolved(i) PROVE EvidenceOnWire' /\ wire \subseteq wire'
  <2>1. wire \subseteq wire' /\ \A j \in Items : inFlight'[j] > 0 => j \in wire'
    BY <1>8, TransmitEvidence DEF RecipientsResolved
  <2>2. CASE connected
    BY <1>8, <2>1, <2>2 DEF RecipientsResolved, EvidenceOnWire
  <2>3. CASE ~connected
    BY <1>8, <2>1, <2>3, AppendEvidence DEF RecipientsResolved, Job
  <2> QED
    BY <2>2, <2>3
<1>9. ASSUME NEW i \in Items, SendResult(i) PROVE EvidenceOnWire' /\ wire \subseteq wire'
  <2>1. i \in wire /\ wire' = wire /\ \A j \in Items : inFlight'[j] > 0 => j \in wire'
    BY <1>9 DEF SendResult, EvidenceOnWire, TypeOK
  <2>2. PICK op \in {"sent", "failed"} : jobs' = Append(jobs, Job(op, i))
    BY <1>9 DEF SendResult
  <2> QED
    BY <2>1, <2>2, AppendEvidence DEF Job
<1>10. ASSUME NEW i \in Items, Receipt(i) \/ ErrorStanza(i) \/ Echo(i)
       PROVE  EvidenceOnWire' /\ wire \subseteq wire'
  <2>1. PICK op \in {"receipt", "error", "echo"} : jobs' = Append(jobs, Job(op, i))
    BY <1>10 DEF Receipt, ErrorStanza, Echo
  <2>2. i \in wire /\ UNCHANGED <<wire, inFlight>>
    BY <1>10 DEF Receipt, ErrorStanza, Echo, sending
  <2> QED
    BY <2>1, <2>2, AppendEvidence DEF Job, EvidenceOnWire
<1>11. CASE Connected \/ Disconnected \/ SetUpFinished
  <2>1. UNCHANGED <<wire, inFlight>> /\ (jobs' = jobs \/ jobs' = Append(jobs, FetchJob))
    BY <1>11, FetchAtMost
  <2>2. CASE jobs' = Append(jobs, FetchJob)
    BY <2>1, <2>2, AppendEvidence DEF FetchJob, EvidenceOnWire
  <2>3. CASE UNCHANGED jobs
    BY <2>1, <2>3 DEF EvidenceOnWire
  <2> QED
    BY <2>1, <2>2, <2>3
<1>13. CASE ServicesChanged
  <2>1. UNCHANGED <<wire, inFlight>>
    BY <1>13 DEF ServicesChanged, sending
  <2> QED
    BY <1>13, <2>1, FetchesAppended DEF FetchJob, EvidenceOnWire
<1>14. CASE Restart
  <2>1. UNCHANGED wire /\ jobs' = <<>> /\ inFlight' = [i \in Items |-> 0]
    BY <1>14 DEF Restart
  <2> QED
    BY <2>1 DEF EvidenceOnWire
<1>15. CASE UNCHANGED vars
  BY <1>15 DEF vars, storage, sending, EvidenceOnWire
<1> QED
  BY <1>1, <1>2, <1>3, <1>4, <1>5, <1>6, <1>7, <1>8, <1>9, <1>10, <1>11, <1>13, <1>14, <1>15 DEF Next

\* Only the jobs that carry evidence settle a row.
LEMMA RowAfterSettles ==
    ASSUME NEW row \in Rows, NEW job \in ItemJobs,
           RowAfter(row, job).state \in {"Sent", "Delivered"}
    PROVE  row.state \in {"Sent", "Delivered"} \/ job.op \in {"sent", "receipt", "echo"}
<1>1. job.op \in ItemOps
  BY DEF ItemJobs
<1>2. CASE job.op \in {"add", "failed", "error", "resend"}
  BY <1>2 DEF RowAfter, Updated, Rows
<1>3. CASE job.op = "correct"
  BY <1>3 DEF RowAfter, Corrected, Rows
<1>4. CASE job.op = "remove"
  BY <1>4 DEF RowAfter, Rows
<1> QED
  BY <1>1, <1>2, <1>3, <1>4 DEF ItemOps

\* Only the worker's jobs about an item change the table.
LEMMA TableStep ==
    ASSUME [Next]_vars, ~RunItemJob
    PROVE  UNCHANGED db
  BY DEF Next, vars, storage, Send, Correct, Resend, Remove, RunFetch, Flush, SendCorrection,
         RecipientsResolved, SendResult, Receipt, ErrorStanza, Echo, Connected, Disconnected,
         SetUpFinished, ServicesChanged, Restart

LEMMA SettledStep == Settled /\ [Next]_vars => Settled'
<1> SUFFICES ASSUME Settled, [Next]_vars PROVE Settled'
  OBVIOUS
<1>1. TypeOK' /\ EvidenceOnWire' /\ wire \subseteq wire'
  BY StepType, EvidenceStep DEF Settled
<1>2. SettledOnlyAfterTransmission'
  <2>1. CASE ~RunItemJob
    BY <1>1, <2>1, TableStep DEF Settled, SettledOnlyAfterTransmission
  <2>2. CASE RunItemJob
    <3> DEFINE job == Head(jobs)
               n   == job.item.msg
    <3>1. job \in ItemJobs /\ job.item \in Items /\ n \in Msgs
      BY <2>2, QueueType, JobCases, ItemParts DEF RunItemJob, Settled
    <3>2. db[n] \in Rows /\ db' = [db EXCEPT ![n] = RowAfter(db[n], job)]
      BY <2>2, <3>1 DEF RunItemJob, Settled, TypeOK
    <3>3. job.op \in {"sent", "receipt", "echo"} => job.item \in wire
      BY <2>2, RemainingJobs DEF RunItemJob, Settled, EvidenceOnWire
    <3> SUFFICES ASSUME NEW m \in Msgs, db'[m].state \in {"Sent", "Delivered"}
                 PROVE  \E i \in wire' : i.msg = m
      BY DEF SettledOnlyAfterTransmission
    <3>4. CASE m # n
      BY <1>1, <3>2, <3>4 DEF Settled, SettledOnlyAfterTransmission, TypeOK
    <3>5. CASE m = n
      <4>1. db'[m] = RowAfter(db[n], job)
        BY <3>2, <3>5 DEF Settled, TypeOK
      <4>2. db[m].state \in {"Sent", "Delivered"} \/ job.item \in wire
        BY <3>1, <3>2, <3>3, <3>5, <4>1, RowAfterSettles
      <4> QED
        BY <1>1, <3>5, <4>2 DEF Settled, SettledOnlyAfterTransmission
    <3> QED
      BY <3>4, <3>5
  <2> QED
    BY <2>1, <2>2
<1> QED
  BY <1>1, <1>2 DEF Settled

\* A message is shown as sent or delivered only if it was handed to the stream: no crash, resend,
\* correction or late result makes it appear settled.
THEOREM SettledCorrect == Spec => []SettledOnlyAfterTransmission
<1>1. Init => Settled
  <2> SUFFICES ASSUME Init PROVE EvidenceOnWire /\ SettledOnlyAfterTransmission
    BY InitType DEF Settled
  <2> QED
    BY DEF Init, NoRow, EvidenceOnWire, SettledOnlyAfterTransmission
<1>2. Settled => SettledOnlyAfterTransmission
  BY DEF Settled
<1> QED
  BY <1>1, <1>2, SettledStep, PTL DEF Spec

-----------------------------------------------------------------------------
(* A version of a message has one ID.                                      *)

Versioned == TypeOK /\ EvidenceOnWire /\ VersionsHaveOneId

LEMMA KnownType == TypeOK => Known \subseteq Items
<1> SUFFICES ASSUME TypeOK PROVE Known \subseteq Items
  OBVIOUS
<1>1. ASSUME NEW k \in DOMAIN posted PROVE posted[k].items \subseteq Items
  <2>1. posted[k] \in Continuations
    BY DEF TypeOK
  <2> QED
    BY <2>1 DEF Continuations
<1>2. \A m \in Msgs : ItemOf(m) \in Items /\ Origin(m) \in Items
  BY ItemOfType
<1>3. wire \subseteq Items
  BY DEF TypeOK
<1> SUFFICES ASSUME NEW i \in Known PROVE i \in Items
  OBVIOUS
<1>4. CASE i \in UNION {posted[k].items : k \in DOMAIN posted}
  BY <1>1, <1>4, Zenon
<1>5. CASE i \in {ItemOf(m) : m \in Msgs} \cup {Origin(m) : m \in Msgs}
  BY <1>2, <1>5
<1>6. CASE i \in wire \cup {j \in Items : resolving[j] > 0}
  BY <1>3, <1>6
<1> QED
  BY <1>4, <1>5, <1>6, Zenon DEF Known

LEMMA TransmitKnown ==
    ASSUME TypeOK, NEW S \in SUBSET Items, S \subseteq Known, Transmit(S)
    PROVE  wire' \subseteq Known
<1>1. wire \subseteq Known
  BY DEF Known
<1> QED
  BY <1>1 DEF Transmit

LEMMA SendPendingKnown ==
    ASSUME TypeOK, NEW S \in SUBSET Items, S \subseteq Known, SendPending(S)
    PROVE  wire' \subseteq Known /\ \A i \in Items : resolving'[i] > 0 => i \in Known
<1>1. \A i \in Items : resolving[i] > 0 => i \in Known
  BY DEF Known
<1>2. CASE connected
  <2> DEFINE now == {i \in S : i.msg \notin GroupMsgs}
  <2>1. Transmit(now) /\ now \in SUBSET Items /\ now \subseteq Known
    BY <1>2 DEF SendPending
  <2>2. resolving' = [i \in Items |-> IF i \in S \ now THEN resolving[i] + 1 ELSE resolving[i]]
    BY <1>2 DEF SendPending
  <2>3. \A i \in Items : resolving'[i] > 0 => i \in Known
    BY <1>1, <2>2
  <2> QED
    BY <2>1, <2>3, TransmitKnown
<1>3. CASE ~connected
  <2>1. wire \subseteq Known
    BY DEF Known
  <2> QED
    BY <1>1, <1>3, <2>1 DEF SendPending, sending
<1> QED
  BY <1>2, <1>3

\* What the table, the lookups and the continuations hold is known.
LEMMA HeldIsKnown ==
    /\ wire \subseteq Known
    /\ \A i \in Items : resolving[i] > 0 => i \in Known
    /\ \A k \in DOMAIN posted : posted[k].items \subseteq Known
    /\ \A m \in Msgs : ItemOf(m) \in Known /\ Origin(m) \in Known
    /\ db' = db => \A m \in Msgs : ItemOf(m)' \in Known
<1>1. \A m \in Msgs : ItemOf(m) \in Known /\ Origin(m) \in Known
  <2> SUFFICES ASSUME NEW m \in Msgs PROVE ItemOf(m) \in Known /\ Origin(m) \in Known
    OBVIOUS
  <2>1. ItemOf(m) \in {ItemOf(n) : n \in Msgs} /\ Origin(m) \in {Origin(n) : n \in Msgs}
    OBVIOUS
  <2> QED
    BY <2>1, Zenon DEF Known
<1>2. \A k \in DOMAIN posted : posted[k].items \subseteq Known
  BY Zenon DEF Known
<1>3. wire \subseteq Known /\ \A i \in Items : resolving[i] > 0 => i \in Known
  BY Zenon DEF Known
<1>4. ASSUME db' = db, NEW m \in Msgs PROVE ItemOf(m)' = ItemOf(m)
  BY <1>4 DEF ItemOf
<1> QED
  BY <1>1, <1>2, <1>3, <1>4

\* A step that takes all it holds from the known items knows nothing new.
LEMMA NothingNew ==
    ASSUME wire' \subseteq Known,
           \A i \in Items : resolving'[i] > 0 => i \in Known,
           \A k \in DOMAIN posted' : posted'[k].items \subseteq Known,
           \A m \in Msgs : ItemOf(m)' \in Known
    PROVE  Known' \subseteq Known
<1>1. \A m \in Msgs : Origin(m)' \in Known
  <2> SUFFICES ASSUME NEW m \in Msgs PROVE Origin(m)' \in Known
    OBVIOUS
  <2>1. Origin(m)' = Origin(m)
    BY DEF Origin
  <2> QED
    BY <2>1, HeldIsKnown
<1>2. Known' = wire' \cup {i \in Items : resolving'[i] > 0}
                     \cup (UNION {posted'[k].items : k \in DOMAIN posted'})
                     \cup {ItemOf(m)' : m \in Msgs} \cup {Origin(m)' : m \in Msgs}
  BY DEF Known
<1> SUFFICES ASSUME NEW i \in Known' PROVE i \in Known
  OBVIOUS
<1>3. CASE i \in UNION {posted'[k].items : k \in DOMAIN posted'}
  BY <1>3, Zenon
<1>4. CASE i \in {ItemOf(m)' : m \in Msgs} \cup {Origin(m)' : m \in Msgs}
  BY <1>1, <1>4, Zenon
<1>5. CASE i \in wire' \cup {j \in Items : resolving'[j] > 0}
  BY <1>5
<1> QED
  BY <1>2, <1>3, <1>4, <1>5, Zenon

\* The continuations left after the first one ran.
LEMMA RemainingPosted ==
    ASSUME TypeOK, posted # <<>>, posted' = Tail(posted)
    PROVE  /\ Head(posted).items \in SUBSET Items /\ Head(posted).items \subseteq Known
           /\ \A k \in DOMAIN posted' : posted'[k].items \subseteq Known
<1>1. /\ 1 \in DOMAIN posted /\ Head(posted) = posted[1]
      /\ \A k \in DOMAIN posted' : k + 1 \in DOMAIN posted /\ posted'[k] = posted[k + 1]
  BY DEF TypeOK
<1>2. Head(posted).items \in SUBSET Items
  BY QueueType DEF Continuations
<1> QED
  BY <1>1, <1>2, HeldIsKnown

\* The invariant is kept by a step that knows nothing new and queues no correction.
LEMMA NoNewVersion ==
    ASSUME Versioned, Known' \subseteq Known, edits' = edits,
           \A k \in DOMAIN jobs' :
              \/ k \in DOMAIN jobs /\ jobs'[k] = jobs[k]
              \/ /\ jobs'[k].op # "correct"
                 /\ jobs'[k].op = "add" => jobs'[k].item = Origin(jobs'[k].item.msg)
    PROVE  VersionsHaveOneId'
<1>1. \A k \in DOMAIN jobs' : CorrectionQueued(k)' => CorrectionQueued(k) /\ jobs'[k] = jobs[k]
  BY DEF CorrectionQueued
<1>2. \A k \in DOMAIN jobs' : jobs'[k].op = "add" => jobs'[k].item = Origin(jobs'[k].item.msg)
  BY DEF Versioned, VersionsHaveOneId
<1>3. \A i, j \in Known' : i.msg = j.msg /\ i.ver = j.ver => i.id = j.id
  BY DEF Versioned, VersionsHaveOneId
<1>4. \A i \in Known' : i.ver <= edits'[i.msg]
  BY DEF Versioned, VersionsHaveOneId
<1>5. \A k \in DOMAIN jobs' : CorrectionQueued(k)' =>
         /\ jobs'[k].item.ver <= edits'[jobs'[k].item.msg]
         /\ \A i \in Known' : i.msg = jobs'[k].item.msg => i.ver # jobs'[k].item.ver
  BY <1>1 DEF Versioned, VersionsHaveOneId, CorrectionQueued
<1>6. \A k, l \in DOMAIN jobs' :
         /\ CorrectionQueued(k)' /\ CorrectionQueued(l)' /\ k # l
         /\ jobs'[k].item.msg = jobs'[l].item.msg
         => jobs'[k].item.ver # jobs'[l].item.ver
  BY <1>1 DEF Versioned, VersionsHaveOneId, CorrectionQueued
<1> QED
  BY <1>2, <1>3, <1>4, <1>5, <1>6 DEF VersionsHaveOneId, Origin

\* A step of the main thread that leaves the table alone, keeps or shortens the continuations and
\* queues at most one job, which is no correction.
LEMMA MainStepVersions ==
    ASSUME Versioned, db' = db, edits' = edits,
           wire' \subseteq Known,
           \A i \in Items : resolving'[i] > 0 => i \in Known,
           \/ posted' = posted
           \/ posted # <<>> /\ posted' = Tail(posted),
           \/ jobs' = jobs
           \/ \E op \in ItemOps, i \in Items :
                 /\ jobs' = Append(jobs, Job(op, i))
                 /\ op # "correct"
                 /\ op = "add" => i = Origin(i.msg)
    PROVE  VersionsHaveOneId'
<1>1. \A k \in DOMAIN posted' : posted'[k].items \subseteq Known
  BY HeldIsKnown, RemainingPosted DEF Versioned
<1>2. Known' \subseteq Known
  BY <1>1, HeldIsKnown, NothingNew
<1>3. \A k \in DOMAIN jobs' :
         \/ k \in DOMAIN jobs /\ jobs'[k] = jobs[k]
         \/ /\ jobs'[k].op # "correct"
            /\ jobs'[k].op = "add" => jobs'[k].item = Origin(jobs'[k].item.msg)
  <2>1. CASE jobs' = jobs
    BY <2>1
  <2>2. ASSUME NEW op \in ItemOps, NEW i \in Items,
               jobs' = Append(jobs, Job(op, i)),
               op # "correct",
               op = "add" => i = Origin(i.msg)
        PROVE  \A k \in DOMAIN jobs' :
                  \/ k \in DOMAIN jobs /\ jobs'[k] = jobs[k]
                  \/ /\ jobs'[k].op # "correct"
                     /\ jobs'[k].op = "add" => jobs'[k].item = Origin(jobs'[k].item.msg)
    BY <2>2, AppendedJobs DEF Versioned, Job
  <2> QED
    BY <2>1, <2>2
<1> QED
  BY <1>2, <1>3, NoNewVersion

LEMMA UserStepVersions ==
    ASSUME Versioned, NEW m \in Msgs, Send(m) \/ Correct(m) \/ Resend(m) \/ Remove(m)
    PROVE  VersionsHaveOneId'
<1>1. CASE Send(m)
  <2>1. Origin(m) \in Items /\ Origin(m) \in Known
    BY ItemOfType, HeldIsKnown DEF Versioned
  <2>2. wire' \subseteq Known /\ \A i \in Items : resolving'[i] > 0 => i \in Known
    BY <1>1, <2>1, SendPendingKnown DEF Send, Versioned, Origin
  <2>3. jobs' = Append(jobs, Job("add", Origin(m))) /\ Origin(m) = Origin(Origin(m).msg)
    BY <1>1 DEF Send, Origin
  <2>4. db' = db /\ edits' = edits /\ posted' = posted
    BY <1>1 DEF Send
  <2> QED
    BY <2>1, <2>2, <2>3, <2>4, MainStepVersions DEF ItemOps
<1>2. CASE Correct(m)
  <2> DEFINE new == [msg |-> m, id |-> 0, ver |-> edits[m] + 1]
  <2>1. /\ UNCHANGED <<db, posted, wire, resolving>>
        /\ edits' = [edits EXCEPT ![m] = edits[m] + 1]
        /\ jobs' = Append(jobs, Job("correct", new))
    BY <1>2 DEF Correct, sending
  <2>2. Known' = Known
    BY <2>1 DEF Known, ItemOf, Origin
  <2>3. \A n \in Msgs : edits[n] \in Nat /\ edits'[n] >= edits[n] /\ edits'[m] = edits[m] + 1
    BY <2>1, ConstantsAssumption DEF Versioned, TypeOK, Versions
  <2>4. \A i \in Known : i.msg \in Msgs /\ i.ver \in Nat
    BY KnownType, ItemParts, ConstantsAssumption DEF Versioned, Versions
  <2>5. \A i \in Known' : i.ver <= edits'[i.msg]
    <3> SUFFICES ASSUME NEW i \in Known PROVE i.ver <= edits'[i.msg]
      BY <2>2
    <3>1. i.ver <= edits[i.msg]
      BY DEF Versioned, VersionsHaveOneId
    <3>2. edits'[i.msg] \in Nat
      BY <2>1, <2>3, <2>4 DEF Versioned, TypeOK
    <3> QED
      BY <2>3, <2>4, <3>1, <3>2
  <2>6. \A k \in DOMAIN jobs : CorrectionQueued(k) =>
           jobs[k].item.msg \in Msgs /\ jobs[k].item.ver \in Nat
    <3> SUFFICES ASSUME NEW k \in DOMAIN jobs, CorrectionQueued(k)
                 PROVE  jobs[k].item.msg \in Msgs /\ jobs[k].item.ver \in Nat
      OBVIOUS
    <3>1. jobs[k] \in Jobs /\ jobs[k].op # "fetch"
      BY DEF Versioned, TypeOK, CorrectionQueued
    <3>2. jobs[k].item \in Items
      BY <3>1, JobCases
    <3> QED
      BY <3>2, ItemParts, ConstantsAssumption DEF Versions
  <2>7. \A k \in DOMAIN jobs' : CorrectionQueued(k)' =>
           \/ k \in DOMAIN jobs /\ CorrectionQueued(k) /\ jobs'[k] = jobs[k]
           \/ k = Len(jobs) + 1 /\ jobs'[k].item = new
    BY <2>1, AppendedJobs DEF CorrectionQueued, Job, Versioned
  <2>8. \A k \in DOMAIN jobs' : CorrectionQueued(k)' =>
           /\ jobs'[k].item.ver <= edits'[jobs'[k].item.msg]
           /\ \A i \in Known' : i.msg = jobs'[k].item.msg => i.ver # jobs'[k].item.ver
    <3> SUFFICES ASSUME NEW k \in DOMAIN jobs', CorrectionQueued(k)'
                 PROVE  /\ jobs'[k].item.ver <= edits'[jobs'[k].item.msg]
                        /\ \A i \in Known' : i.msg = jobs'[k].item.msg => i.ver # jobs'[k].item.ver
      OBVIOUS
    <3>1. CASE k \in DOMAIN jobs /\ CorrectionQueued(k) /\ jobs'[k] = jobs[k]
      <4>1. /\ jobs[k].item.ver <= edits[jobs[k].item.msg]
            /\ \A i \in Known : i.msg = jobs[k].item.msg => i.ver # jobs[k].item.ver
        BY <3>1 DEF Versioned, VersionsHaveOneId
      <4>2. jobs[k].item.msg \in Msgs /\ jobs[k].item.ver \in Nat
        BY <2>6, <3>1
      <4>3. edits'[jobs[k].item.msg] \in Nat
        BY <2>1, <2>3, <4>2 DEF Versioned, TypeOK
      <4>4. jobs[k].item.ver <= edits'[jobs[k].item.msg]
        BY <2>3, <4>1, <4>2, <4>3
      <4> QED
        BY <2>2, <3>1, <4>1, <4>4
    <3>2. CASE jobs'[k].item = new
      <4>1. jobs'[k].item.ver = edits[m] + 1 /\ jobs'[k].item.msg = m
        BY <3>2
      <4> QED
        BY <2>2, <2>3, <2>4, <4>1 DEF Versioned, VersionsHaveOneId
    <3> QED
      BY <2>7, <3>1, <3>2
  <2>9. \A k, l \in DOMAIN jobs' :
           /\ CorrectionQueued(k)' /\ CorrectionQueued(l)' /\ k # l
           /\ jobs'[k].item.msg = jobs'[l].item.msg
           => jobs'[k].item.ver # jobs'[l].item.ver
    <3>1. ASSUME NEW k \in DOMAIN jobs, CorrectionQueued(k), jobs[k].item.msg = m
          PROVE  jobs[k].item.ver # edits[m] + 1
      <4>1. jobs[k].item.ver <= edits[m]
        BY <3>1 DEF Versioned, VersionsHaveOneId
      <4> QED
        BY <2>3, <2>6, <3>1, <4>1
    <3>2. new.msg = m /\ new.ver = edits[m] + 1
      OBVIOUS
    <3> HIDE DEF new
    <3> QED
      BY <2>7, <3>1, <3>2 DEF Versioned, VersionsHaveOneId
  <2>10. \A k \in DOMAIN jobs' : jobs'[k].op = "add" => jobs'[k].item = Origin(jobs'[k].item.msg)
    BY <2>1, AppendedJobs DEF Versioned, VersionsHaveOneId, Job
  <2>11. \A i, j \in Known' : i.msg = j.msg /\ i.ver = j.ver => i.id = j.id
    BY <2>2 DEF Versioned, VersionsHaveOneId
  <2> QED
    BY <2>5, <2>8, <2>9, <2>10, <2>11 DEF VersionsHaveOneId, Origin
<1>3. CASE Resend(m)
  <2>1. ItemOf(m) \in Items /\ ItemOf(m) \in Known
    BY ItemOfType, HeldIsKnown DEF Versioned
  <2>2. wire' \subseteq Known /\ \A i \in Items : resolving'[i] > 0 => i \in Known
    BY <1>3, <2>1, SendPendingKnown DEF Resend, Versioned
  <2>3. jobs' = Append(jobs, Job("resend", ItemOf(m))) /\ UNCHANGED <<db, edits, posted>>
    BY <1>3 DEF Resend, user
  <2> QED
    BY <2>1, <2>2, <2>3, MainStepVersions DEF ItemOps
<1>4. CASE Remove(m)
  <2>1. ItemOf(m) \in Items
    BY ItemOfType DEF Versioned
  <2>2. /\ jobs' = Append(jobs, Job("remove", ItemOf(m)))
        /\ UNCHANGED <<db, edits, posted, wire, resolving>>
    BY <1>4 DEF Remove, user, sending
  <2> QED
    BY <2>1, <2>2, HeldIsKnown, MainStepVersions DEF ItemOps
<1> QED
  BY <1>1, <1>2, <1>3, <1>4

LEMMA OtherStepVersions ==
    ASSUME Versioned,
           \/ Flush \/ SendCorrection
           \/ \E i \in Items : RecipientsResolved(i) \/ SendResult(i)
           \/ \E i \in Items : Receipt(i) \/ ErrorStanza(i) \/ Echo(i)
           \/ Connected \/ Disconnected \/ SetUpFinished \/ ServicesChanged \/ Restart
    PROVE  VersionsHaveOneId'
<1>1. CASE Flush
  <2>1. UNCHANGED <<db, edits, jobs>> /\ posted # <<>> /\ posted' = Tail(posted)
    BY <1>1 DEF Flush, user
  <2>2. wire' \subseteq Known /\ \A i \in Items : resolving'[i] > 0 => i \in Known
    BY <1>1, <2>1, RemainingPosted, SendPendingKnown DEF Flush, Versioned
  <2> QED
    BY <2>1, <2>2, MainStepVersions
<1>2. CASE SendCorrection
  <2>1. UNCHANGED <<db, edits, jobs, resolving>> /\ posted # <<>> /\ posted' = Tail(posted)
    BY <1>2 DEF SendCorrection, user
  <2>2. wire' \subseteq Known
    BY <1>2, <2>1, RemainingPosted, TransmitKnown DEF SendCorrection, Versioned
  <2> QED
    BY <2>1, <2>2, HeldIsKnown, MainStepVersions
<1>3. ASSUME NEW i \in Items, RecipientsResolved(i) PROVE VersionsHaveOneId'
  <2>1. i \in Known
    BY <1>3, HeldIsKnown DEF RecipientsResolved
  <2>2. wire' \subseteq Known
    BY <1>3, <2>1, TransmitKnown DEF RecipientsResolved, Versioned
  <2>3. \A j \in Items : resolving'[j] > 0 => j \in Known
    <3>1. \A j \in Items : resolving'[j] > 0 => resolving[j] > 0
      BY <1>3 DEF RecipientsResolved, Versioned, TypeOK
    <3> QED
      BY <3>1, HeldIsKnown
  <2>4. UNCHANGED <<db, edits, posted>> /\ (jobs' = jobs \/ jobs' = Append(jobs, Job("failed", i)))
    BY <1>3 DEF RecipientsResolved, user
  <2> QED
    BY <2>2, <2>3, <2>4, MainStepVersions DEF ItemOps
<1>4. ASSUME NEW i \in Items, SendResult(i) PROVE VersionsHaveOneId'
  <2>1. PICK op \in {"sent", "failed"} : jobs' = Append(jobs, Job(op, i))
    BY <1>4 DEF SendResult
  <2>2. UNCHANGED <<db, edits, posted, wire, resolving>>
    BY <1>4 DEF SendResult, user
  <2> QED
    BY <2>1, <2>2, HeldIsKnown, MainStepVersions DEF ItemOps
<1>5. ASSUME NEW i \in Items, Receipt(i) \/ ErrorStanza(i) \/ Echo(i) PROVE VersionsHaveOneId'
  <2>1. PICK op \in {"receipt", "error", "echo"} : jobs' = Append(jobs, Job(op, i))
    BY <1>5 DEF Receipt, ErrorStanza, Echo
  <2>2. UNCHANGED <<db, edits, posted, wire, resolving>>
    BY <1>5 DEF Receipt, ErrorStanza, Echo, user, sending
  <2> QED
    BY <2>1, <2>2, HeldIsKnown, MainStepVersions DEF ItemOps
<1>7. CASE Connected \/ Disconnected \/ SetUpFinished \/ ServicesChanged
  <2>1. UNCHANGED <<db, edits, posted, wire, resolving>>
    BY <1>7, FetchAtMost DEF ServicesChanged, sending, user
  <2>2. Known' \subseteq Known
    BY <2>1, HeldIsKnown, NothingNew
  <2>3. \A k \in DOMAIN jobs' : (k \in DOMAIN jobs /\ jobs'[k] = jobs[k]) \/ jobs'[k] = FetchJob
    <3>1. CASE Connected \/ Disconnected \/ SetUpFinished
      <4>1. jobs' = jobs \/ jobs' = Append(jobs, FetchJob)
        BY <3>1, FetchAtMost
      <4> QED
        BY <4>1, AppendedJobs DEF Versioned
    <3>2. CASE ServicesChanged
      BY <3>2, FetchesAppended DEF Versioned
    <3> QED
      BY <1>7, <3>1, <3>2
  <2> QED
    BY <2>1, <2>2, <2>3, NoNewVersion DEF FetchJob
<1>8. CASE Restart
  <2>1. UNCHANGED <<db, edits, wire>> /\ jobs' = <<>> /\ posted' = <<>>
    BY <1>8 DEF Restart, user
  <2>2. \A i \in Items : ~(resolving'[i] > 0)
    BY <1>8 DEF Restart
  <2>3. Known' \subseteq Known
    BY <2>1, <2>2, HeldIsKnown, NothingNew
  <2> QED
    BY <2>1, <2>3, NoNewVersion
<1> QED
  BY <1>1, <1>2, <1>3, <1>4, <1>5, <1>7, <1>8

\* The item of the row after a job is known, unless the job is a correction of a visible row.
LEMMA RowAfterKnown ==
    ASSUME Versioned, NEW job \in ItemJobs, job.op # "correct",
           job.op = "add" => job.item = Origin(job.item.msg),
           job.op = "echo" => job.item \in wire,
           NEW row, row = RowAfter(db[job.item.msg], job)
    PROVE  [msg |-> job.item.msg, id |-> row.id, ver |-> row.ver] \in Known
<1> DEFINE m == job.item.msg
           item == [msg |-> m, id |-> row.id, ver |-> row.ver]
<1>1. job.op \in ItemOps /\ job.item \in Items /\ m \in Msgs
  BY ItemParts DEF ItemJobs
<1>2. db[m] \in Rows
  BY <1>1 DEF Versioned, TypeOK
<1>3. job.item = [msg |-> m, id |-> job.item.id, ver |-> job.item.ver]
  BY <1>1, ItemParts
<1>4. CASE row.id = db[m].id /\ row.ver = db[m].ver
  <2>1. item = ItemOf(m)
    BY <1>4 DEF ItemOf
  <2> QED
    BY <1>1, <2>1, HeldIsKnown
<1>5. CASE job.op = "add"
  <2>1. row.id = job.item.id /\ row.ver = job.item.ver
    BY <1>5 DEF RowAfter
  <2>2. item = Origin(m)
    BY <1>3, <1>5, <2>1
  <2> QED
    BY <1>1, <2>2, HeldIsKnown
<1>6. CASE job.op = "echo"
  <2>1. \/ row.id = db[m].id /\ row.ver = db[m].ver
        \/ row.id = job.item.id /\ row.ver = job.item.ver
    BY <1>2, <1>6 DEF RowAfter, Echoed, Rows
  <2>2. CASE row.id = job.item.id /\ row.ver = job.item.ver
    BY <1>3, <1>6, <2>2, HeldIsKnown
  <2> QED
    BY <1>4, <2>1, <2>2
<1>7. CASE job.op \in {"sent", "failed", "receipt", "error", "resend"}
  <2>1. row.id = db[m].id /\ row.ver = db[m].ver
    BY <1>2, <1>7 DEF RowAfter, Updated, Rows
  <2> QED
    BY <1>4, <2>1
<1>8. CASE job.op = "remove"
  <2>1. row.id = db[m].id /\ row.ver = db[m].ver
    BY <1>2, <1>8 DEF RowAfter, Rows
  <2> QED
    BY <1>4, <2>1
<1> QED
  BY <1>1, <1>5, <1>6, <1>7, <1>8 DEF ItemOps

\* The queue left after a job, with the facts the invariant states of it.
LEMMA RemainingVersions ==
    ASSUME Versioned, jobs # <<>>, jobs' = Tail(jobs)
    PROVE  \A k \in DOMAIN jobs' :
              /\ k + 1 \in DOMAIN jobs /\ k + 1 # 1 /\ jobs'[k] = jobs[k + 1]
              /\ CorrectionQueued(k)' => CorrectionQueued(k + 1)
              /\ jobs'[k].op = "add" => jobs'[k].item = Origin(jobs'[k].item.msg)
  BY RemainingJobs DEF Versioned, VersionsHaveOneId, CorrectionQueued

\* A job that makes at most one new item known, one whose version is queued no more.
LEMMA WorkerVersions ==
    ASSUME Versioned, edits' = edits, jobs # <<>>, jobs' = Tail(jobs),
           NEW new,
           \/ Known' \subseteq Known
           \/ /\ Known' \subseteq Known \cup {new}
              /\ Head(jobs).op = "correct"
              /\ new.msg = Head(jobs).item.msg
              /\ new.ver = Head(jobs).item.ver
    PROVE  VersionsHaveOneId'
<1>1. Head(jobs) = jobs[1] /\ 1 \in DOMAIN jobs
  BY RemainingJobs DEF Versioned
<1>2. ~(Known' \subseteq Known) =>
         /\ CorrectionQueued(1) /\ Known' \subseteq Known \cup {new}
         /\ new.ver <= edits[new.msg]
         /\ \A i \in Known : i.msg = new.msg => i.ver # new.ver
         /\ \A k \in DOMAIN jobs :
               CorrectionQueued(k) /\ k # 1 /\ jobs[k].item.msg = new.msg => jobs[k].item.ver # new.ver
  BY <1>1 DEF Versioned, VersionsHaveOneId, CorrectionQueued
<1>3. \A i, j \in Known' : i.msg = j.msg /\ i.ver = j.ver => i.id = j.id
  BY <1>2 DEF Versioned, VersionsHaveOneId
<1>4. \A i \in Known' : i.ver <= edits'[i.msg]
  BY <1>2 DEF Versioned, VersionsHaveOneId
<1>5. \A k \in DOMAIN jobs' : CorrectionQueued(k)' =>
         /\ jobs'[k].item.ver <= edits'[jobs'[k].item.msg]
         /\ \A i \in Known' : i.msg = jobs'[k].item.msg => i.ver # jobs'[k].item.ver
  BY <1>2, RemainingVersions DEF Versioned, VersionsHaveOneId
<1>6. \A k, l \in DOMAIN jobs' :
         /\ CorrectionQueued(k)' /\ CorrectionQueued(l)' /\ k # l
         /\ jobs'[k].item.msg = jobs'[l].item.msg
         => jobs'[k].item.ver # jobs'[l].item.ver
  <2> SUFFICES ASSUME NEW k \in DOMAIN jobs', NEW l \in DOMAIN jobs',
                      CorrectionQueued(k)', CorrectionQueued(l)', k # l,
                      jobs'[k].item.msg = jobs'[l].item.msg
               PROVE  jobs'[k].item.ver # jobs'[l].item.ver
    OBVIOUS
  <2>1. k \in Nat /\ l \in Nat
    BY RemainingJobs DEF Versioned
  <2>2. k + 1 # l + 1
    BY <2>1
  <2> QED
    BY <2>2, RemainingVersions DEF Versioned, VersionsHaveOneId
<1>7. \A k \in DOMAIN jobs' : jobs'[k].op = "add" => jobs'[k].item = Origin(jobs'[k].item.msg)
  BY RemainingVersions
<1> QED
  BY <1>3, <1>4, <1>5, <1>6, <1>7 DEF VersionsHaveOneId, Origin

LEMMA WorkerStepVersions ==
    ASSUME Versioned, RunItemJob \/ RunFetch
    PROVE  VersionsHaveOneId'
<1>1. CASE RunFetch
  <2>1. UNCHANGED <<db, wire, resolving, edits>> /\ jobs # <<>> /\ jobs' = Tail(jobs)
    BY <1>1 DEF RunFetch, sending, user
  <2>2. PendingItems \subseteq Known
    BY HeldIsKnown DEF PendingItems
  <2>3. \A k \in DOMAIN posted' : posted'[k].items \subseteq Known
    <3>1. posted' = Append(posted, [kind |-> "flush", items |-> PendingItems])
      BY <1>1 DEF RunFetch
    <3>2. \A k \in DOMAIN posted' :
             \/ k \in DOMAIN posted /\ posted'[k] = posted[k]
             \/ posted'[k].items = PendingItems
      BY <3>1 DEF Versioned, TypeOK
    <3> QED
      BY <2>2, <3>2, HeldIsKnown
  <2>4. Known' \subseteq Known
    BY <2>1, <2>3, HeldIsKnown, NothingNew
  <2> QED
    BY <2>1, <2>4, WorkerVersions
<1>2. CASE RunItemJob
  <2> DEFINE job == Head(jobs)
             m   == job.item.msg
             row == RowAfter(db[m], job)
             new == [msg |-> m, id |-> row.id, ver |-> row.ver]
  <2>1. job \in ItemJobs /\ job.item \in Items /\ m \in Msgs
    BY <1>2, QueueType, JobCases, ItemParts DEF RunItemJob, Versioned
  <2>2. /\ jobs # <<>> /\ jobs' = Tail(jobs)
        /\ UNCHANGED <<wire, resolving, edits>>
        /\ db' = [db EXCEPT ![m] = row]
        /\ \/ posted' = posted
           \/ posted' = Append(posted, [kind |-> "correction", items |-> {new}])
    BY <1>2 DEF RunItemJob, sending, user
  <2>3. new \in Known \/ (job.op = "correct" /\ new.msg = m /\ new.ver = job.item.ver)
    <3>1. CASE job.op # "correct"
      <4>1. job.op = "add" => job.item = Origin(job.item.msg)
        BY <2>2, RemainingJobs DEF Versioned, VersionsHaveOneId
      <4>2. job.op = "echo" => job.item \in wire
        BY <2>2, RemainingJobs DEF Versioned, EvidenceOnWire
      <4> QED
        BY <2>1, <3>1, <4>1, <4>2, RowAfterKnown
    <3>2. CASE job.op = "correct"
      <4>1. row = Corrected(db[m], job.item.ver) /\ db[m] \in Rows
        BY <2>1, <3>2 DEF RowAfter, Versioned, TypeOK
      <4>2. CASE Visible(db[m])
        BY <3>2, <4>1, <4>2 DEF Corrected, Rows
      <4>3. CASE ~Visible(db[m])
        <5>1. new = ItemOf(m)
          BY <4>1, <4>3 DEF Corrected, ItemOf
        <5> QED
          BY <2>1, <5>1, HeldIsKnown
      <4> QED
        BY <4>2, <4>3
    <3> QED
      BY <3>1, <3>2
  <2>4. Known' \subseteq Known \cup {new}
    <3> HIDE DEF new
    <3>1. \A n \in Msgs : ItemOf(n)' \in Known \cup {new}
      <4> SUFFICES ASSUME NEW n \in Msgs PROVE ItemOf(n)' \in Known \cup {new}
        OBVIOUS
      <4>1. CASE n = m
        BY <2>1, <2>2, <4>1 DEF ItemOf, new, Versioned, TypeOK
      <4>2. CASE n # m
        <5>1. ItemOf(n)' = ItemOf(n)
          BY <2>1, <2>2, <4>2 DEF ItemOf, Versioned, TypeOK
        <5> QED
          BY <5>1, HeldIsKnown
      <4> QED
        BY <4>1, <4>2
    <3>2. \A k \in DOMAIN posted' : posted'[k].items \subseteq Known \cup {new}
      <4>1. \A k \in DOMAIN posted' :
               (k \in DOMAIN posted /\ posted'[k] = posted[k]) \/ posted'[k].items = {new}
        <5>1. CASE posted' = posted
          BY <5>1
        <5>2. CASE posted' = Append(posted, [kind |-> "correction", items |-> {new}])
          BY <5>2 DEF Versioned, TypeOK
        <5> QED
          BY <2>2, <5>1, <5>2 DEF new
      <4> QED
        BY <4>1, HeldIsKnown
    <3>3. wire' \subseteq Known /\ \A i \in Items : resolving'[i] > 0 => i \in Known
      BY <2>2, HeldIsKnown
    <3>4. \A n \in Msgs : Origin(n)' \in Known
      BY HeldIsKnown DEF Origin
    <3> SUFFICES ASSUME NEW i \in Known' PROVE i \in Known \cup {new}
      OBVIOUS
    <3>5. Known' = wire' \cup {j \in Items : resolving'[j] > 0}
                         \cup (UNION {posted'[k].items : k \in DOMAIN posted'})
                         \cup {ItemOf(n)' : n \in Msgs} \cup {Origin(n)' : n \in Msgs}
      BY DEF Known
    <3>6. CASE i \in UNION {posted'[k].items : k \in DOMAIN posted'}
      BY <3>2, <3>6, Zenon
    <3>7. CASE i \in {ItemOf(n)' : n \in Msgs}
      BY <3>1, <3>7, Zenon
    <3>8. CASE i \in {Origin(n)' : n \in Msgs}
      BY <3>4, <3>8, Zenon
    <3>9. CASE i \in wire' \cup {j \in Items : resolving'[j] > 0}
      BY <3>3, <3>9
    <3> QED
      BY <3>5, <3>6, <3>7, <3>8, <3>9, Zenon
  <2> QED
    BY <2>2, <2>3, <2>4, WorkerVersions
<1> QED
  BY <1>1, <1>2

LEMMA VersionedStep == Versioned /\ [Next]_vars => Versioned'
<1> SUFFICES ASSUME Versioned, [Next]_vars PROVE Versioned'
  OBVIOUS
<1>1. TypeOK' /\ EvidenceOnWire'
  BY StepType, EvidenceStep DEF Versioned
<1>2. CASE Next
  BY <1>1, <1>2, UserStepVersions, WorkerStepVersions, OtherStepVersions DEF Next, Versioned
<1>3. CASE UNCHANGED vars
  <2>1. UNCHANGED <<db, posted, wire, resolving, jobs, edits>>
    BY <1>3 DEF vars, storage, sending, user
  <2> QED
    BY <1>1, <2>1, HeldIsKnown, MainStepVersions DEF Versioned
<1> QED
  BY <1>2, <1>3

LEMMA InitVersions ==
    ASSUME Init
    PROVE  EvidenceOnWire /\ VersionsHaveOneId
<1>1. EvidenceOnWire
  BY DEF Init, EvidenceOnWire
<1>2. \A i \in Known : \E m \in Msgs : i = Origin(m)
  <2>1. \A m \in Msgs : ItemOf(m) = Origin(m)
    <3>1. \A m \in Msgs : db[m].id = 0 /\ db[m].ver = 0
      BY DEF Init, NoRow
    <3> QED
      BY <3>1 DEF ItemOf, Origin
  <2>2. Known = {ItemOf(m) : m \in Msgs} \cup {Origin(m) : m \in Msgs}
    BY DEF Init, Known
  <2> QED
    BY <2>1, <2>2
<1>3. \A k \in DOMAIN jobs : FALSE
  BY DEF Init
<1>4. \A i \in Known : i.id = 0 /\ i.ver = 0 /\ edits[i.msg] = 0
  BY <1>2 DEF Origin, Init
<1> QED
  BY <1>1, <1>3, <1>4 DEF VersionsHaveOneId

\* Every transmission of a body uses one ID, whatever was retried, resent, corrected or restarted.
THEOREM OneIdCorrect == Spec => []OneIdPerVersion
<1>1. Init => Versioned
  BY InitType, InitVersions DEF Versioned
<1>2. Versioned => OneIdPerVersion
  BY DEF Versioned, VersionsHaveOneId, OneIdPerVersion, Known
<1> QED
  BY <1>1, <1>2, VersionedStep, PTL DEF Spec

\* Types and one ID for each version of a message hold over all retries, corrections and restarts.
THEOREM DeliveryCorrect == Spec => []DeliveryInv
<1>1. TypeOK /\ OneIdPerVersion => DeliveryInv
  BY DEF DeliveryInv
<1> QED
  BY <1>1, TypeCorrect, OneIdCorrect, PTL

-----------------------------------------------------------------------------
(* The table is ahead of all that speaks of its messages.                  *)

Leading == Versioned /\ RowsLead

\* Transmissions and lookups of items of composed messages lead to no others.
LEMMA TransmitLed ==
    ASSUME TypeOK, RowsLead, NEW S \in SUBSET Items, S \subseteq Led, Transmit(S)
    PROVE  /\ wire' \subseteq Led
           /\ \A i \in Items : inFlight'[i] > 0 => i \in Led
<1>1. \A i \in Items : inFlight[i] > 0 => inFlight[i] + resolving[i] > 0
  BY DEF TypeOK
<1>2. wire \subseteq Led /\ \A i \in Items : inFlight[i] > 0 => i \in Led
  BY <1>1 DEF RowsLead, Traced, TypeOK
<1> QED
  BY <1>2 DEF Transmit

LEMMA SendPendingLed ==
    ASSUME TypeOK, RowsLead, NEW S \in SUBSET Items, S \subseteq Led, SendPending(S)
    PROVE  /\ wire' \subseteq Led
           /\ \A i \in Items : inFlight'[i] > 0 => i \in Led
           /\ \A i \in Items : resolving'[i] > 0 => i \in Led
<1>1. \A i \in Items : resolving[i] > 0 => inFlight[i] + resolving[i] > 0
  BY DEF TypeOK
<1>2. \A i \in Items : resolving[i] > 0 => i \in Led
  BY <1>1 DEF RowsLead, Traced
<1>3. CASE connected
  <2> DEFINE now == {i \in S : i.msg \notin GroupMsgs}
  <2>1. now \in SUBSET Items /\ now \subseteq Led /\ Transmit(now)
    BY <1>3 DEF SendPending
  <2>2. resolving' = [i \in Items |-> IF i \in S \ now THEN resolving[i] + 1 ELSE resolving[i]]
    BY <1>3 DEF SendPending
  <2>3. \A i \in Items : resolving'[i] > 0 => i \in Led
    BY <1>2, <2>2
  <2> QED
    BY <2>1, <2>3, TransmitLed
<1>4. CASE ~connected
  <2>1. UNCHANGED <<wire, inFlight, resolving>>
    BY <1>4 DEF SendPending, sending
  <2>2. \A i \in Items : inFlight[i] > 0 => inFlight[i] + resolving[i] > 0
    BY DEF TypeOK
  <2> QED
    BY <1>2, <2>1, <2>2 DEF RowsLead, Traced, TypeOK
<1> QED
  BY <1>3, <1>4

\* What is held before a step.
LEMMA HeldIsLed ==
    ASSUME TypeOK, RowsLead
    PROVE  /\ wire \subseteq Led
           /\ \A i \in Items : inFlight[i] > 0 => i \in Led
           /\ \A i \in Items : resolving[i] > 0 => i \in Led
           /\ \A k \in DOMAIN posted : posted[k].items \subseteq Led
           /\ \A k \in DOMAIN jobs : jobs[k].op # "fetch" => jobs[k].item \in Led
           /\ \A m \in Msgs : Visible(db[m]) => ItemOf(m) \in Led
<1>1. \A i \in Items : (inFlight[i] > 0 \/ resolving[i] > 0) => inFlight[i] + resolving[i] > 0
  BY DEF TypeOK
<1>2. \A k \in DOMAIN posted : posted[k].items \subseteq Items
  <2>1. \A k \in DOMAIN posted : posted[k] \in Continuations
    BY DEF TypeOK
  <2> QED
    BY <2>1 DEF Continuations
<1>3. \A k \in DOMAIN jobs : jobs[k].op # "fetch" => jobs[k].item \in Items
  BY JobCases DEF TypeOK
<1>4. \A m \in Msgs : Visible(db[m]) => ItemOf(m) \in Led
  BY ItemOfType DEF Visible, Led, ItemOf, RowsLead
<1>5. wire \subseteq Led
  BY DEF RowsLead, Traced, TypeOK
<1>6. \A i \in Items : inFlight[i] > 0 \/ resolving[i] > 0 => i \in Led
  BY <1>1 DEF RowsLead, Traced
<1>7. \A k \in DOMAIN posted : posted[k].items \subseteq Led
  BY <1>2 DEF RowsLead, Traced
<1>8. \A k \in DOMAIN jobs : jobs[k].op # "fetch" => jobs[k].item \in Led
  BY <1>3 DEF RowsLead, Traced
<1> QED
  BY <1>4, <1>5, <1>6, <1>7, <1>8

\* A step of the main thread that composes no message: it queues at most jobs about items of
\* composed messages, or fetches.
LEMMA MainStepLeads ==
    ASSUME TypeOK, RowsLead, TypeOK', db' = db, composed' = composed,
           wire' \subseteq Led,
           \A i \in Items : inFlight'[i] > 0 => i \in Led,
           \A i \in Items : resolving'[i] > 0 => i \in Led,
           \A k \in DOMAIN posted' : posted'[k].items \subseteq Led,
           \A k \in DOMAIN jobs' : k \in DOMAIN jobs => jobs'[k] = jobs[k],
           \A k \in DOMAIN jobs' : k \notin DOMAIN jobs =>
              jobs'[k].op # "add" /\ (jobs'[k].op # "fetch" => jobs'[k].item \in Led)
    PROVE  RowsLead'
<1>1. Led' = Led
  BY DEF Led
<1>2. \A i \in Items : inFlight'[i] + resolving'[i] > 0 => i \in Led
  <2>1. \A i \in Items : inFlight'[i] \in Nat /\ resolving'[i] \in Nat
    BY DEF TypeOK
  <2> QED
    BY <2>1
<1>3. \A k \in DOMAIN jobs' : jobs'[k].op # "fetch" => jobs'[k].item \in Led
  BY HeldIsLed
<1>4. \A i \in Items : Traced(i)' => i \in Led
  BY <1>2, <1>3 DEF Traced
<1>5. \A k \in DOMAIN jobs' : jobs'[k].op = "add" =>
         /\ db[jobs'[k].item.msg].state = "NoRow"
         /\ \A l \in DOMAIN jobs' :
               l < k /\ jobs'[l].op # "fetch" => jobs'[l].item.msg # jobs'[k].item.msg
  <2>1. /\ DOMAIN jobs = 1 .. Len(jobs) /\ DOMAIN jobs' = 1 .. Len(jobs')
        /\ Len(jobs) \in Nat /\ Len(jobs') \in Nat
    BY DEF TypeOK
  <2> SUFFICES ASSUME NEW k \in DOMAIN jobs', jobs'[k].op = "add"
               PROVE  /\ db[jobs'[k].item.msg].state = "NoRow"
                      /\ \A l \in DOMAIN jobs' :
                            l < k /\ jobs'[l].op # "fetch" => jobs'[l].item.msg # jobs'[k].item.msg
    OBVIOUS
  <2>2. k \in DOMAIN jobs /\ jobs'[k] = jobs[k]
    OBVIOUS
  <2>3. \A l \in DOMAIN jobs' : l < k => l \in DOMAIN jobs /\ jobs'[l] = jobs[l]
    BY <2>1, <2>2
  <2> QED
    BY <2>2, <2>3 DEF RowsLead
<1> QED
  BY <1>1, <1>4, <1>5 DEF RowsLead

LEMMA UserStepLeads ==
    ASSUME Leading, TypeOK', NEW m \in Msgs, Send(m) \/ Correct(m) \/ Resend(m) \/ Remove(m)
    PROVE  RowsLead'
<1> USE DEF Leading, Versioned
<1>1. CASE Send(m)
  <2>1. Origin(m) \in Items /\ Origin(m).msg = m /\ Origin(m).id = 0
    BY ItemOfType DEF Origin
  <2>2. /\ m \notin composed /\ composed' = composed \cup {m}
        /\ jobs' = Append(jobs, Job("add", Origin(m)))
        /\ SendPending({Origin(m)})
        /\ db' = db /\ posted' = posted
    BY <1>1 DEF Send, Origin
  <2>3. Led \cup {Origin(m)} \subseteq Led'
    BY <2>1, <2>2 DEF Led
  <2>4. /\ wire' \subseteq Led'
        /\ \A i \in Items : inFlight'[i] + resolving'[i] > 0 => i \in Led'
    <3>1. CASE connected
      <4> DEFINE now == {i \in {Origin(m)} : i.msg \notin GroupMsgs}
      <4>1. /\ inFlight' = [i \in Items |-> IF i \in now THEN inFlight[i] + 1 ELSE inFlight[i]]
            /\ wire' = wire \cup now
            /\ resolving' = [i \in Items |->
                   IF i \in {Origin(m)} \ now THEN resolving[i] + 1 ELSE resolving[i]]
        BY <2>2, <3>1 DEF SendPending, Transmit
      <4>2. \A i \in Items : i # Origin(m) =>
               inFlight'[i] = inFlight[i] /\ resolving'[i] = resolving[i]
        BY <4>1
      <4>3. \A i \in Items : i # Origin(m) /\ inFlight'[i] + resolving'[i] > 0 => i \in Led
        BY <4>2 DEF RowsLead, Traced
      <4> QED
        BY <2>3, <4>1, <4>3, HeldIsLed
    <3>2. CASE ~connected
      <4>1. UNCHANGED <<wire, inFlight, resolving>>
        BY <2>2, <3>2 DEF SendPending, sending
      <4> QED
        BY <2>3, <4>1, HeldIsLed DEF RowsLead, Traced
    <3> QED
      BY <3>1, <3>2
  <2>5. /\ DOMAIN jobs' = 1 .. Len(jobs) + 1 /\ DOMAIN jobs = 1 .. Len(jobs) /\ Len(jobs) \in Nat
        /\ \A k \in DOMAIN jobs : jobs'[k] = jobs[k]
        /\ jobs'[Len(jobs) + 1] = Job("add", Origin(m))
    BY <2>2, AppendedJobs
  <2>6. \A k \in DOMAIN jobs' : k \in DOMAIN jobs \/ k = Len(jobs) + 1
    BY <2>5
  <2>7. \A i \in Items : Traced(i)' => i \in Led'
    <3>1. \A k \in DOMAIN jobs' : jobs'[k].op # "fetch" => jobs'[k].item \in Led'
      BY <2>3, <2>5, <2>6, HeldIsLed DEF Job
    <3>2. \A k \in DOMAIN posted' : posted'[k].items \subseteq Led'
      BY <2>2, <2>3, HeldIsLed
    <3> QED
      BY <2>4, <3>1, <3>2 DEF Traced
  <2>8. \A l \in DOMAIN jobs : jobs[l].op # "fetch" => jobs[l].item.msg # m
    BY <2>2, HeldIsLed DEF Led
  <2>9. \A k \in DOMAIN jobs' : jobs'[k].op = "add" =>
           /\ db'[jobs'[k].item.msg].state = "NoRow"
           /\ \A l \in DOMAIN jobs' :
                 l < k /\ jobs'[l].op # "fetch" => jobs'[l].item.msg # jobs'[k].item.msg
    <3> SUFFICES ASSUME NEW k \in DOMAIN jobs', jobs'[k].op = "add"
                 PROVE  /\ db[jobs'[k].item.msg].state = "NoRow"
                        /\ \A l \in DOMAIN jobs' : l < k /\ jobs'[l].op # "fetch" =>
                              jobs'[l].item.msg # jobs'[k].item.msg
      BY <2>2
    <3>1. \A l \in DOMAIN jobs' : l < k => l \in DOMAIN jobs /\ jobs'[l] = jobs[l]
      BY <2>5, <2>6
    <3>2. CASE k \in DOMAIN jobs
      BY <2>5, <3>1, <3>2 DEF RowsLead
    <3>3. CASE k = Len(jobs) + 1
      <4>1. jobs'[k].item.msg = m
        BY <2>1, <2>5, <3>3 DEF Job
      <4> QED
        BY <2>2, <2>8, <3>1, <4>1 DEF RowsLead
    <3> QED
      BY <2>6, <3>2, <3>3
  <2> QED
    BY <2>2, <2>7, <2>9 DEF RowsLead
<1>2. CASE Correct(m)
  <2> DEFINE new == [msg |-> m, id |-> 0, ver |-> edits[m] + 1]
  <2>1. /\ UNCHANGED <<db, posted, wire, inFlight, resolving, composed>>
        /\ jobs' = Append(jobs, Job("correct", new))
    BY <1>2 DEF Correct, sending
  <2>2. new \in Led
    <3>1. edits[m] + 1 \in Versions /\ 0 \in Versions
      BY <1>2, ConstantsAssumption DEF Correct, TypeOK, Versions
    <3>2. m \in composed
      BY <1>2 DEF Correct, Visible, RowsLead
    <3> QED
      BY <3>1, <3>2 DEF Led, Items
  <2> HIDE DEF new
  <2>3. \A k \in DOMAIN jobs' : k \notin DOMAIN jobs =>
           jobs'[k].op # "add" /\ (jobs'[k].op # "fetch" => jobs'[k].item \in Led)
    BY <2>1, <2>2, AppendedJobs DEF Job
  <2> QED
    BY <2>1, <2>3, AppendedJobs, HeldIsLed, MainStepLeads
<1>3. CASE Resend(m)
  <2>1. ItemOf(m) \in Items /\ ItemOf(m) \in Led
    BY <1>3, ItemOfType, HeldIsLed DEF Resend
  <2>2. /\ UNCHANGED <<db, posted, composed>>
        /\ jobs' = Append(jobs, Job("resend", ItemOf(m)))
        /\ SendPending({ItemOf(m)})
    BY <1>3 DEF Resend, user
  <2>3. \A k \in DOMAIN jobs' : k \notin DOMAIN jobs =>
           jobs'[k].op # "add" /\ (jobs'[k].op # "fetch" => jobs'[k].item \in Led)
    BY <2>1, <2>2, AppendedJobs DEF Job
  <2>4. /\ wire' \subseteq Led
        /\ \A i \in Items : inFlight'[i] > 0 => i \in Led
        /\ \A i \in Items : resolving'[i] > 0 => i \in Led
    BY <2>1, <2>2, SendPendingLed
  <2> QED
    BY <2>2, <2>3, <2>4, AppendedJobs, HeldIsLed, MainStepLeads
<1>4. CASE Remove(m)
  <2>1. ItemOf(m) \in Led
    BY <1>4, HeldIsLed DEF Remove
  <2>2. /\ UNCHANGED <<db, posted, wire, inFlight, resolving, composed>>
        /\ jobs' = Append(jobs, Job("remove", ItemOf(m)))
    BY <1>4 DEF Remove, sending, user
  <2>3. \A k \in DOMAIN jobs' : k \notin DOMAIN jobs =>
           jobs'[k].op # "add" /\ (jobs'[k].op # "fetch" => jobs'[k].item \in Led)
    BY <2>1, <2>2, AppendedJobs DEF Job
  <2> QED
    BY <2>2, <2>3, AppendedJobs, HeldIsLed, MainStepLeads
<1> QED
  BY <1>1, <1>2, <1>3, <1>4

\* The continuations left after the first one ran, and what the first one sends.
LEMMA RemainingLed ==
    ASSUME TypeOK, RowsLead, posted # <<>>, posted' = Tail(posted)
    PROVE  /\ Head(posted).items \in SUBSET Items /\ Head(posted).items \subseteq Led
           /\ \A k \in DOMAIN posted' : posted'[k].items \subseteq Led
<1>1. /\ 1 \in DOMAIN posted /\ Head(posted) = posted[1]
      /\ \A k \in DOMAIN posted' : k + 1 \in DOMAIN posted /\ posted'[k] = posted[k + 1]
  BY DEF TypeOK
<1>2. Head(posted).items \in SUBSET Items
  BY QueueType DEF Continuations
<1> QED
  BY <1>1, <1>2, HeldIsLed

LEMMA AppendedPosted ==
    ASSUME TypeOK, NEW c, posted' = Append(posted, c)
    PROVE  /\ DOMAIN posted \subseteq DOMAIN posted' /\ Len(posted) + 1 \in DOMAIN posted'
           /\ \A k \in DOMAIN posted : posted'[k] = posted[k]
           /\ \A k \in DOMAIN posted' : k \in DOMAIN posted \/ posted'[k] = c
           /\ posted'[Len(posted) + 1] = c
  BY DEF TypeOK

LEMMA OtherStepLeads ==
    ASSUME Leading, TypeOK',
           \/ Flush \/ SendCorrection
           \/ \E i \in Items : RecipientsResolved(i) \/ SendResult(i)
           \/ \E i \in Items : Receipt(i) \/ ErrorStanza(i) \/ Echo(i)
           \/ Connected \/ Disconnected \/ SetUpFinished \/ ServicesChanged \/ Restart
           \/ UNCHANGED vars
    PROVE  RowsLead'
<1> USE DEF Leading, Versioned
<1>1. CASE Flush
  <2>1. /\ UNCHANGED <<db, jobs, composed>> /\ posted # <<>> /\ posted' = Tail(posted)
        /\ SendPending(Head(posted).items)
    BY <1>1 DEF Flush, user
  <2>2. /\ wire' \subseteq Led
        /\ \A i \in Items : inFlight'[i] > 0 => i \in Led
        /\ \A i \in Items : resolving'[i] > 0 => i \in Led
    BY <2>1, RemainingLed, SendPendingLed
  <2> QED
    BY <2>1, <2>2, RemainingLed, MainStepLeads
<1>2. CASE SendCorrection
  <2>1. /\ UNCHANGED <<db, jobs, composed, resolving>> /\ posted # <<>> /\ posted' = Tail(posted)
        /\ Transmit(Head(posted).items)
    BY <1>2 DEF SendCorrection, user
  <2>2. wire' \subseteq Led /\ \A i \in Items : inFlight'[i] > 0 => i \in Led
    BY <2>1, RemainingLed, TransmitLed
  <2> QED
    BY <2>1, <2>2, RemainingLed, HeldIsLed, MainStepLeads
<1>3. ASSUME NEW i \in Items, RecipientsResolved(i) PROVE RowsLead'
  <2>1. /\ UNCHANGED <<db, posted, composed>> /\ Transmit({i})
        /\ jobs' = jobs \/ jobs' = Append(jobs, Job("failed", i))
        /\ resolving' = [resolving EXCEPT ![i] = @ - 1] /\ resolving[i] > 0
    BY <1>3 DEF RecipientsResolved, user
  <2>2. i \in Led
    BY <2>1, HeldIsLed
  <2>3. wire' \subseteq Led /\ \A j \in Items : inFlight'[j] > 0 => j \in Led
    BY <2>1, <2>2, TransmitLed
  <2>4. \A j \in Items : resolving'[j] > 0 => j \in Led
    BY <2>1, <2>2, HeldIsLed DEF TypeOK
  <2>5. \A k \in DOMAIN jobs' :
           IF k \in DOMAIN jobs THEN jobs'[k] = jobs[k] ELSE jobs'[k] = Job("failed", i)
    BY <2>1, AppendedJobs
  <2> QED
    BY <2>1, <2>2, <2>3, <2>4, <2>5, HeldIsLed, MainStepLeads DEF Job
<1>4. ASSUME NEW i \in Items, SendResult(i) PROVE RowsLead'
  <2>1. PICK op \in {"sent", "failed"} : jobs' = Append(jobs, Job(op, i))
    BY <1>4 DEF SendResult
  <2>2. /\ UNCHANGED <<db, posted, resolving, wire, composed>>
        /\ inFlight[i] > 0 /\ inFlight' = [inFlight EXCEPT ![i] = @ - 1]
    BY <1>4 DEF SendResult, user
  <2>3. i \in Led
    BY <2>2, HeldIsLed
  <2>4. \A j \in Items : inFlight'[j] > 0 => j \in Led
    BY <2>2, <2>3, HeldIsLed DEF TypeOK
  <2>5. \A k \in DOMAIN jobs' :
           IF k \in DOMAIN jobs THEN jobs'[k] = jobs[k] ELSE jobs'[k] = Job(op, i)
    BY <2>1, AppendedJobs
  <2> QED
    BY <2>2, <2>3, <2>4, <2>5, HeldIsLed, MainStepLeads DEF Job
<1>5. ASSUME NEW i \in Items, Receipt(i) \/ ErrorStanza(i) \/ Echo(i) PROVE RowsLead'
  <2>1. PICK op \in {"receipt", "error", "echo"} : jobs' = Append(jobs, Job(op, i))
    BY <1>5 DEF Receipt, ErrorStanza, Echo
  <2>2. i \in wire /\ UNCHANGED <<db, posted, resolving, inFlight, wire, composed>>
    BY <1>5 DEF Receipt, ErrorStanza, Echo, sending, user
  <2>3. i \in Led
    BY <2>2, HeldIsLed
  <2>5. \A k \in DOMAIN jobs' :
           IF k \in DOMAIN jobs THEN jobs'[k] = jobs[k] ELSE jobs'[k] = Job(op, i)
    BY <2>1, AppendedJobs
  <2> QED
    BY <2>2, <2>3, <2>5, HeldIsLed, MainStepLeads DEF Job
<1>6. CASE Connected \/ Disconnected \/ SetUpFinished \/ ServicesChanged
  <2>1. UNCHANGED <<db, posted, resolving, inFlight, wire, composed>>
    BY <1>6, FetchAtMost DEF ServicesChanged, sending, user
  <2>2. \A k \in DOMAIN jobs' :
           IF k \in DOMAIN jobs THEN jobs'[k] = jobs[k] ELSE jobs'[k] = FetchJob
    <3>1. CASE Connected \/ Disconnected \/ SetUpFinished
      BY <3>1, FetchAtMost, AppendedJobs
    <3>2. CASE ServicesChanged
      BY <3>2, FetchesAppended
    <3> QED
      BY <1>6, <3>1, <3>2
  <2> QED
    BY <2>1, <2>2, HeldIsLed, MainStepLeads DEF FetchJob
<1>7. CASE Restart
  <2>1. /\ UNCHANGED <<db, wire, composed>> /\ DOMAIN jobs' = {} /\ DOMAIN posted' = {}
        /\ \A i \in Items : ~(resolving'[i] > 0) /\ ~(inFlight'[i] > 0)
    BY <1>7 DEF Restart, user
  <2> QED
    BY <2>1, HeldIsLed, MainStepLeads
<1>8. CASE UNCHANGED vars
  <2>1. UNCHANGED <<db, posted, resolving, inFlight, wire, composed, jobs>>
    BY <1>8 DEF vars, storage, sending, user
  <2> QED
    BY <2>1, HeldIsLed, MainStepLeads
<1> QED
  BY <1>1, <1>2, <1>3, <1>4, <1>5, <1>6, <1>7, <1>8

\* A job keeps the row and its ID, or gives it a new one.
LEMMA RowAfterLeads ==
    ASSUME NEW row \in Rows, NEW job \in ItemJobs, row.state = "NoRow" => row.id = 0,
           job.op = "add" => row.state = "NoRow",
           job.op = "correct" => job.item.ver # 0
    PROVE  /\ RowAfter(row, job).state = "NoRow" => RowAfter(row, job) = row
           /\ row.id # 0 => RowAfter(row, job).id # 0
<1>1. job.op \in ItemOps /\ job.item.id \in Nat
  BY DEF ItemJobs, Items, Versions
<1>2. CASE job.op = "add"
  BY <1>2 DEF RowAfter
<1>3. CASE job.op \in {"sent", "failed", "receipt", "error", "resend"}
  BY <1>3 DEF RowAfter, Updated, Rows, Matches, Visible
<1>4. CASE job.op = "correct"
  BY <1>4 DEF RowAfter, Corrected, Rows, Visible
<1>5. CASE job.op = "echo"
  <2>1. RowAfter(row, job) = Echoed(row, job.item)
    BY <1>5 DEF RowAfter
  <2> QED
    BY <1>1, <2>1 DEF Echoed, Rows, Visible
<1>6. CASE job.op = "remove"
  BY <1>6 DEF RowAfter, Rows, Visible
<1> QED
  BY <1>1, <1>2, <1>3, <1>4, <1>5, <1>6 DEF ItemOps

LEMMA WorkerStepLeads ==
    ASSUME Leading, TypeOK', RunItemJob \/ RunFetch
    PROVE  RowsLead'
<1> USE DEF Leading, Versioned
<1>0. jobs # <<>> /\ jobs' = Tail(jobs) /\ UNCHANGED <<wire, inFlight, resolving, composed>>
  BY DEF RunItemJob, RunFetch, sending, user
<1>1. /\ Head(jobs) = jobs[1] /\ 1 \in DOMAIN jobs
      /\ \A k \in DOMAIN jobs' : k \in Nat /\ k >= 1 /\ k + 1 \in DOMAIN jobs /\ jobs'[k] = jobs[k + 1]
  BY <1>0, RemainingJobs
\* What is left of the queue, if a step keeps the rows that are still to be added.
<1>2. ASSUME \A k \in DOMAIN jobs' : jobs'[k].op = "add" =>
                db'[jobs'[k].item.msg] = db[jobs'[k].item.msg]
      PROVE  \A k \in DOMAIN jobs' : jobs'[k].op = "add" =>
                /\ db'[jobs'[k].item.msg].state = "NoRow"
                /\ \A l \in DOMAIN jobs' :
                      l < k /\ jobs'[l].op # "fetch" => jobs'[l].item.msg # jobs'[k].item.msg
  <2> SUFFICES ASSUME NEW k \in DOMAIN jobs', jobs'[k].op = "add"
               PROVE  /\ db[jobs'[k].item.msg].state = "NoRow"
                      /\ \A l \in DOMAIN jobs' : l < k /\ jobs'[l].op # "fetch" =>
                            jobs'[l].item.msg # jobs'[k].item.msg
    BY <1>2
  <2>1. \A l \in DOMAIN jobs' : l < k => l + 1 < k + 1
    BY <1>1
  <2> QED
    BY <1>1, <2>1 DEF RowsLead
<1>3. CASE RunFetch
  <2>1. db' = db /\ posted' = Append(posted, [kind |-> "flush", items |-> PendingItems])
    BY <1>3 DEF RunFetch
  <2>2. Led' = Led
    BY <1>0, <2>1 DEF Led
  <2>3. PendingItems \subseteq Led
    BY HeldIsLed DEF PendingItems
  <2>4. \A k \in DOMAIN posted' : posted'[k].items \subseteq Led
    <3>1. \A k \in DOMAIN posted' :
             (k \in DOMAIN posted /\ posted'[k] = posted[k]) \/ posted'[k].items = PendingItems
      BY <2>1 DEF TypeOK
    <3> QED
      BY <2>3, <3>1, HeldIsLed
  <2>5. \A i \in Items : Traced(i)' => i \in Led
    <3>1. \A k \in DOMAIN jobs' : jobs'[k].op # "fetch" => jobs'[k].item \in Led
      BY <1>1, HeldIsLed
    <3> QED
      BY <1>0, <2>4, <3>1 DEF Traced, RowsLead
  <2> QED
    BY <1>0, <1>2, <2>1, <2>2, <2>5 DEF RowsLead
<1>4. CASE RunItemJob
  <2> DEFINE job == Head(jobs)
             m   == job.item.msg
             row == RowAfter(db[m], job)
             new == [msg |-> m, id |-> row.id, ver |-> row.ver]
  <2>1. job \in ItemJobs /\ job.item \in Items /\ m \in Msgs
    BY <1>4, QueueType, JobCases, ItemParts DEF RunItemJob
  <2>2. /\ job.op # "fetch"
        /\ db' = [db EXCEPT ![m] = row]
        /\ \/ posted' = posted
           \/ posted' = Append(posted, [kind |-> "correction", items |-> {new}])
    BY <1>4 DEF RunItemJob
  <2>3. db[m] \in Rows /\ db'[m] = row /\ \A n \in Msgs : n # m => db'[n] = db[n]
    BY <2>1, <2>2 DEF TypeOK
  <2>4. m \in composed
    BY <1>1, <2>2, HeldIsLed DEF Led
  <2>5. job.op = "correct" => job.item.ver # 0
    <3>1. Origin(m) \in Known /\ Origin(m).msg = m /\ Origin(m).ver = 0
      BY <2>1, HeldIsKnown DEF Origin
    <3> QED
      BY <1>1, <3>1 DEF VersionsHaveOneId, CorrectionQueued
  <2>6. (row.state = "NoRow" => row = db[m]) /\ (db[m].id # 0 => row.id # 0)
    <3>1. db[m].state = "NoRow" => db[m].id = 0
      BY <2>1 DEF RowsLead
    <3>2. job.op = "add" => db[m].state = "NoRow"
      BY <1>1 DEF RowsLead
    <3> QED
      BY <2>1, <2>3, <2>5, <3>1, <3>2, RowAfterLeads
  <2> HIDE DEF row
  <2>7. Led \subseteq Led'
    BY <1>0, <2>3, <2>6 DEF Led, Items
  <2>8. \A i \in Items : i = new => i \in Led'
    BY <1>0, <2>3, <2>4 DEF Led
  <2> HIDE DEF new
  <2>9. \A i \in Items : Traced(i)' => i \in Led'
    <3> SUFFICES ASSUME NEW i \in Items, Traced(i)' PROVE i \in Led'
      OBVIOUS
    <3>1. CASE i \in wire' \/ inFlight'[i] + resolving'[i] > 0
      BY <1>0, <2>7, <3>1 DEF RowsLead, Traced
    <3>2. ASSUME NEW k \in DOMAIN jobs', jobs'[k].op # "fetch", jobs'[k].item = i PROVE i \in Led'
      BY <1>1, <2>7, <3>2, HeldIsLed
    <3>3. ASSUME NEW k \in DOMAIN posted', i \in posted'[k].items PROVE i \in Led'
      <4>1. \/ k \in DOMAIN posted /\ posted'[k] = posted[k]
            \/ posted'[k].items = {new}
        <5>1. CASE posted' = posted
          BY <5>1, <3>3
        <5>2. CASE posted' = Append(posted, [kind |-> "correction", items |-> {new}])
          BY <3>3, <5>2, AppendedPosted
        <5> QED
          BY <2>2, <5>1, <5>2 DEF new, row
      <4> QED
        BY <2>7, <2>8, <3>3, <4>1, HeldIsLed
    <3> QED
      BY <3>1, <3>2, <3>3 DEF Traced
  <2>10. \A k \in DOMAIN jobs' : jobs'[k].op = "add" =>
            db'[jobs'[k].item.msg] = db[jobs'[k].item.msg]
    <3> SUFFICES ASSUME NEW k \in DOMAIN jobs', jobs'[k].op = "add"
                 PROVE  db'[jobs'[k].item.msg] = db[jobs'[k].item.msg]
      OBVIOUS
    <3>1. 1 < k + 1 /\ jobs'[k] = jobs[k + 1] /\ k + 1 \in DOMAIN jobs
      BY <1>1
    <3>2. jobs[1].item.msg # jobs[k + 1].item.msg
      BY <1>1, <2>2, <3>1 DEF RowsLead
    <3>3. jobs[k + 1].item \in Items
      BY <3>1, JobCases DEF TypeOK
    <3> QED
      BY <1>1, <2>3, <3>1, <3>2, <3>3, ItemParts
  <2>11. \A n \in Msgs : /\ db'[n].state = "NoRow" => db'[n].id = 0
                         /\ n \notin composed' => db'[n].state = "NoRow"
    BY <1>0, <2>1, <2>3, <2>4, <2>6 DEF RowsLead
  <2>12. \A k \in DOMAIN jobs' : jobs'[k].op = "add" =>
            /\ db'[jobs'[k].item.msg].state = "NoRow"
            /\ \A l \in DOMAIN jobs' :
                  l < k /\ jobs'[l].op # "fetch" => jobs'[l].item.msg # jobs'[k].item.msg
    BY <1>2, <2>10
  <2> QED
    BY <2>9, <2>11, <2>12 DEF RowsLead
<1> QED
  BY <1>3, <1>4

LEMMA LeadingStep == Leading /\ [Next]_vars => Leading'
<1> SUFFICES ASSUME Leading, [Next]_vars PROVE Leading'
  OBVIOUS
<1>1. Versioned' /\ TypeOK'
  BY VersionedStep DEF Leading, Versioned
<1> QED
  BY <1>1, UserStepLeads, OtherStepLeads, WorkerStepLeads DEF Next, Leading

-----------------------------------------------------------------------------
(* What was removed stays removed, and versions only grow.                 *)

Monotone == Leading /\ RowsEmpty

\* A job keeps a removed row, and an empty row is replaced by a complete one.
LEMMA RowAfterKeepsRemoval ==
    ASSUME NEW row \in Rows, NEW job \in ItemJobs, row.state = "NoRow" => row = NoRow,
           job.op = "add" => row.state = "NoRow"
    PROVE  /\ row.removed => RowAfter(row, job).removed
           /\ RowAfter(row, job).state = "NoRow" => RowAfter(row, job) = NoRow
<1>1. job.op \in ItemOps
  BY DEF ItemJobs
<1>2. CASE job.op = "add"
  BY <1>2 DEF RowAfter, NoRow
<1>3. CASE job.op \in {"sent", "failed", "receipt", "error", "resend"}
  BY <1>3 DEF RowAfter, Updated, Rows, Matches, Visible
<1>4. CASE job.op = "correct"
  BY <1>4 DEF RowAfter, Corrected, Rows, Visible
<1>5. CASE job.op = "echo"
  <2>1. RowAfter(row, job) = Echoed(row, job.item)
    BY <1>5 DEF RowAfter
  <2>2. CASE row.state = "NoRow"
    <3>1. row.removed = FALSE
      BY <2>2 DEF NoRow
    <3> QED
      BY <2>1, <2>2, <3>1 DEF Echoed, Visible
  <2>3. CASE row.state # "NoRow"
    BY <2>1, <2>3 DEF Echoed, Rows, Visible
  <2> QED
    BY <2>2, <2>3
<1>6. CASE job.op = "remove"
  BY <1>6 DEF RowAfter, Rows, Visible
<1> QED
  BY <1>1, <1>2, <1>3, <1>4, <1>5, <1>6 DEF ItemOps

\* With a single correction, the only body that a job can put into a row that has one is the
\* corrected one.
LEMMA RowAfterGrows ==
    ASSUME MaxCorrections <= 1, NEW row \in Rows, NEW job \in ItemJobs,
           row.state = "NoRow" => row = NoRow,
           job.op = "add" => row.state = "NoRow",
           job.op = "correct" => job.item.ver # 0,
           job.op = "echo" /\ job.item.id # 0 => job.item.ver # 0
    PROVE  row.ver <= RowAfter(row, job).ver
<1>1. job.op \in ItemOps /\ job.item.ver \in {0, 1} /\ job.item.id \in Nat /\ row.ver \in {0, 1}
  BY ConstantsAssumption DEF ItemJobs, Items, Versions, Rows
<1>2. CASE job.op = "add"
  BY <1>1, <1>2 DEF RowAfter, NoRow
<1>3. CASE job.op \in {"sent", "failed", "receipt", "error", "resend"}
  BY <1>1, <1>3 DEF RowAfter, Updated, Rows
<1>4. CASE job.op = "correct"
  BY <1>1, <1>4 DEF RowAfter, Corrected, Rows
<1>5. CASE job.op = "echo"
  <2>1. RowAfter(row, job) = Echoed(row, job.item)
    BY <1>5 DEF RowAfter
  <2> QED
    BY <1>1, <1>5, <2>1 DEF Echoed, Rows, NoRow
<1>6. CASE job.op = "remove"
  BY <1>1, <1>6 DEF RowAfter, Rows
<1> QED
  BY <1>1, <1>2, <1>3, <1>4, <1>5, <1>6 DEF ItemOps

\* What the worker's job about an item finds: the message's row and, in the job, an item that
\* was transmitted as an echo, is new as a correction, and belongs to no row as an addition.
LEMMA WorkerFinds ==
    ASSUME Monotone, RunItemJob
    PROVE  LET job == Head(jobs)
               n   == job.item.msg
           IN  /\ job \in ItemJobs /\ job.item \in Items /\ n \in Msgs
               /\ db[n] \in Rows /\ db' = [db EXCEPT ![n] = RowAfter(db[n], job)]
               /\ db[n].state = "NoRow" => db[n] = NoRow
               /\ job.op = "add" => db[n].state = "NoRow"
               /\ job.op = "correct" => job.item.ver # 0
               /\ job.op = "echo" /\ job.item.id # 0 => job.item.ver # 0
<1> DEFINE job == Head(jobs)
           n   == job.item.msg
<1> USE DEF Monotone, Leading, Versioned
<1>1. job \in ItemJobs /\ job.item \in Items /\ n \in Msgs
  BY QueueType, JobCases, ItemParts DEF RunItemJob
<1>2. job = jobs[1] /\ 1 \in DOMAIN jobs
  BY RemainingJobs DEF RunItemJob
<1>3. db[n] \in Rows /\ db' = [db EXCEPT ![n] = RowAfter(db[n], job)]
  BY <1>1 DEF RunItemJob, TypeOK
<1>4. db[n].state = "NoRow" => db[n] = NoRow
  BY <1>1 DEF RowsEmpty
<1>5. job.op = "add" => db[n].state = "NoRow"
  BY <1>2 DEF RowsLead
<1>6. Origin(n) \in Known /\ Origin(n).msg = n /\ Origin(n).ver = 0 /\ Origin(n).id = 0
  BY <1>1 DEF Known, Origin
<1>7. job.op = "correct" => job.item.ver # 0
  BY <1>2, <1>6 DEF VersionsHaveOneId, CorrectionQueued
<1>8. job.op = "echo" => job.item \in Known
  BY <1>2 DEF EvidenceOnWire, Known
<1>9. job.op = "echo" /\ job.item.id # 0 => job.item.ver # 0
  BY <1>6, <1>8 DEF VersionsHaveOneId
<1> QED
  BY <1>1, <1>3, <1>4, <1>5, <1>7, <1>9

LEMMA MonotoneStep == Monotone /\ [Next]_vars => Monotone'
<1> SUFFICES ASSUME Monotone, [Next]_vars PROVE Monotone'
  OBVIOUS
<1>1. Leading'
  BY LeadingStep DEF Monotone
<1>2. RowsEmpty'
  <2>1. CASE ~RunItemJob
    BY <2>1, TableStep DEF Monotone, RowsEmpty
  <2>2. CASE RunItemJob
    <3> DEFINE job == Head(jobs)
               n   == job.item.msg
    <3>1. RowAfter(db[n], job).state = "NoRow" => RowAfter(db[n], job) = NoRow
      BY <2>2, WorkerFinds, RowAfterKeepsRemoval
    <3>2. db' = [db EXCEPT ![n] = RowAfter(db[n], job)]
      BY <2>2, WorkerFinds
    <3>3. db \in [Msgs -> Rows]
      BY DEF Monotone, Leading, Versioned, TypeOK
    <3> QED
      BY <3>1, <3>2, <3>3 DEF Monotone, RowsEmpty
  <2> QED
    BY <2>1, <2>2
<1> QED
  BY <1>1, <1>2 DEF Monotone

LEMMA InitMonotone == Init => Monotone
<1> SUFFICES ASSUME Init PROVE Monotone
  OBVIOUS
<1>1. TypeOK
  BY InitType
<1>2. EvidenceOnWire /\ VersionsHaveOneId
  BY InitVersions
<1>3. RowsLead
  BY DEF Init, RowsLead, Traced, NoRow
<1>4. RowsEmpty
  BY DEF Init, RowsEmpty
<1> QED
  BY <1>1, <1>2, <1>3, <1>4 DEF Monotone, Leading, Versioned

\* A message that the user removed is never shown again, whatever comes back for it, is corrected or
\* resent, over all restarts (MessageDb::_checkMessageExists(), the view chatMessages).
THEOREM RemovalCorrect == Spec => RemovedStaysRemoved
<1>1. Monotone /\ [Next]_vars => [\A m \in Msgs : db[m].removed => db'[m].removed]_vars
  <2> SUFFICES ASSUME Monotone, Next, NEW m \in Msgs, db[m].removed PROVE db'[m].removed
    OBVIOUS
  <2>1. CASE ~RunItemJob
    BY <2>1, TableStep
  <2>2. CASE RunItemJob
    <3> DEFINE job == Head(jobs)
               n   == job.item.msg
    <3>1. db[n].removed => RowAfter(db[n], job).removed
      BY <2>2, WorkerFinds, RowAfterKeepsRemoval
    <3>2. db' = [db EXCEPT ![n] = RowAfter(db[n], job)]
      BY <2>2, WorkerFinds
    <3>3. db \in [Msgs -> Rows]
      BY DEF Monotone, Leading, Versioned, TypeOK
    <3> QED
      BY <3>1, <3>2, <3>3
  <2> QED
    BY <2>1, <2>2
<1> QED
  BY <1>1, InitMonotone, MonotoneStep, PTL DEF Spec, RemovedStaysRemoved

\* A message that is corrected at most once keeps its corrected body: neither an echo of what was
\* sent before nor a late job brings the first body back (MessageController::handleMessage()).
THEOREM VersionsCorrect ==
    ASSUME MaxCorrections <= 1
    PROVE  Spec => VersionNeverRegresses
<1>1. Monotone /\ [Next]_vars => [\A m \in Msgs : db[m].ver <= db'[m].ver]_vars
  <2> SUFFICES ASSUME Monotone, Next, NEW m \in Msgs PROVE db[m].ver <= db'[m].ver
    OBVIOUS
  <2>1. db \in [Msgs -> Rows] /\ db[m].ver \in Nat
    BY DEF Monotone, Leading, Versioned, TypeOK, Rows, Versions
  <2>2. CASE ~RunItemJob
    BY <2>1, <2>2, TableStep
  <2>3. CASE RunItemJob
    <3> DEFINE job == Head(jobs)
               n   == job.item.msg
    <3>1. db[n].ver <= RowAfter(db[n], job).ver
      BY <2>3, WorkerFinds, RowAfterGrows
    <3>2. db' = [db EXCEPT ![n] = RowAfter(db[n], job)]
      BY <2>3, WorkerFinds
    <3> QED
      BY <2>1, <3>1, <3>2
  <2> QED
    BY <2>2, <2>3
<1> QED
  BY <1>1, InitMonotone, MonotoneStep, PTL DEF Spec, VersionNeverRegresses

-----------------------------------------------------------------------------
(* No pending message is left that nothing sends.                          *)

Served == Leading /\ loaded = TRUE /\ PendingIsServed

\* While connected, what is handed over is transmitted or looked up, and nothing else gets lost.
LEMMA TransmitHands ==
    ASSUME TypeOK, connected, NEW S \in SUBSET Items, Transmit(S), resolving' = resolving
    PROVE  \A i \in Items : i \in S \/ inFlight[i] + resolving[i] > 0
                            => inFlight'[i] + resolving'[i] > 0
  BY DEF TypeOK, Transmit

LEMMA SendPendingHands ==
    ASSUME TypeOK, connected, NEW S \in SUBSET Items, SendPending(S)
    PROVE  \A i \in Items : i \in S \/ inFlight[i] + resolving[i] > 0
                            => inFlight'[i] + resolving'[i] > 0
<1> DEFINE now == {i \in S : i.msg \notin GroupMsgs}
<1>1. /\ inFlight' = [i \in Items |-> IF i \in now THEN inFlight[i] + 1 ELSE inFlight[i]]
      /\ resolving' = [i \in Items |-> IF i \in S \ now THEN resolving[i] + 1 ELSE resolving[i]]
  BY DEF SendPending, Transmit
<1> QED
  BY <1>1 DEF TypeOK

\* A step that keeps the table and the queue while connected: whatever sends or settles a message
\* stays, or is replaced by a job behind the queue.
LEMMA LaterJobServes ==
    ASSUME TypeOK, TypeOK', PendingIsServed, connected, db' = db,
           \A k \in DOMAIN jobs : k \in DOMAIN jobs' /\ jobs'[k] = jobs[k],
           \A m \in Msgs : waiters > 0 \/ Handed(m) =>
              \/ waiters' > 0 \/ Handed(m)'
              \/ \E l \in DOMAIN jobs' \ DOMAIN jobs : jobs'[l].op = "fetch" \/ Settles(jobs'[l], m),
           \A m \in Msgs, k \in DOMAIN jobs' \ DOMAIN jobs :
              jobs'[k].op \in {"add", "resend"} /\ jobs'[k].item.msg = m => Handed(m)'
    PROVE  PendingIsServed'
<1>1. /\ DOMAIN jobs = 1 .. Len(jobs) /\ DOMAIN jobs' = 1 .. Len(jobs')
      /\ Len(jobs) \in Nat /\ Len(jobs') \in Nat
  BY DEF TypeOK
<1>2. \A l \in DOMAIN jobs' \ DOMAIN jobs : l > 0 /\ \A k \in DOMAIN jobs : l > k
  BY <1>1
<1>3. ASSUME NEW m \in Msgs, NEW k \in DOMAIN jobs \cup {0}, Coming(m, k)
      PROVE  Coming(m, k)'
  <2>1. CASE waiters > 0 \/ Handed(m)
    BY <1>2, <2>1 DEF Coming, Settles
  <2>2. CASE \E l \in DOMAIN jobs : l > k /\ (jobs[l].op = "fetch" \/ Settles(jobs[l], m))
    BY <2>2 DEF Coming, Settles
  <2> QED
    BY <1>3, <2>1, <2>2 DEF Coming
<1>4. \A m \in Msgs : Pending(m)' => Pending(m)
  BY DEF Pending
<1> SUFFICES ASSUME NEW m \in Msgs
             PROVE  /\ Pending(m)' => Coming(m, 0)'
                    /\ \A k \in DOMAIN jobs' :
                          jobs'[k].op \in {"add", "resend"} /\ jobs'[k].item.msg = m => Coming(m, k)'
  BY DEF PendingIsServed
<1>5. Pending(m)' => Coming(m, 0)'
  BY <1>3, <1>4 DEF PendingIsServed
<1>6. ASSUME NEW k \in DOMAIN jobs', jobs'[k].op \in {"add", "resend"}, jobs'[k].item.msg = m
      PROVE  Coming(m, k)'
  <2>1. CASE k \in DOMAIN jobs
    BY <1>3, <1>6, <2>1 DEF PendingIsServed
  <2>2. CASE k \notin DOMAIN jobs
    BY <1>6, <2>2 DEF Coming
  <2> QED
    BY <2>1, <2>2
<1> QED
  BY <1>5, <1>6

LEMMA UserStepServes ==
    ASSUME Served, TypeOK', connected, NEW m \in Msgs,
           Send(m) \/ Correct(m) \/ Resend(m) \/ Remove(m)
    PROVE  PendingIsServed'
<1> USE DEF Served, Leading, Versioned
<1>1. ASSUME NEW op \in {"add", "resend"}, NEW i \in Items, i.msg = m,
             jobs' = Append(jobs, Job(op, i)), SendPending({i}),
             UNCHANGED <<db, posted, waiters>>
      PROVE  PendingIsServed'
  <2>1. \A j \in Items : j = i \/ inFlight[j] + resolving[j] > 0 => inFlight'[j] + resolving'[j] > 0
    BY <1>1, SendPendingHands
  <2>2. Handed(m)' /\ \A n \in Msgs : Handed(n) => Handed(n)'
    BY <1>1, <2>1 DEF Handed
  <2>3. \A k \in DOMAIN jobs' \ DOMAIN jobs : jobs'[k].item.msg = m
    BY <1>1, AppendedJobs DEF Job
  <2>4. \A k \in DOMAIN jobs : k \in DOMAIN jobs' /\ jobs'[k] = jobs[k]
    BY <1>1, AppendedJobs
  <2> QED
    BY <1>1, <2>2, <2>3, <2>4, LaterJobServes
<1>2. ASSUME NEW op \in {"correct", "remove"}, NEW i,
             jobs' = Append(jobs, Job(op, i)),
             UNCHANGED <<db, posted, waiters, inFlight, resolving>>
      PROVE  PendingIsServed'
  <2>1. \A n \in Msgs : Handed(n) => Handed(n)'
    BY <1>2 DEF Handed
  <2>2. \A k \in DOMAIN jobs' \ DOMAIN jobs : jobs'[k].op = op
    BY <1>2, AppendedJobs DEF Job
  <2>3. \A k \in DOMAIN jobs : k \in DOMAIN jobs' /\ jobs'[k] = jobs[k]
    BY <1>2, AppendedJobs
  <2> QED
    BY <1>2, <2>1, <2>2, <2>3, LaterJobServes
<1>3. CASE Send(m)
  <2>1. Origin(m) \in Items /\ Origin(m).msg = m
    BY ItemOfType DEF Origin
  <2> QED
    BY <1>1, <1>3, <2>1 DEF Send, Origin, session
<1>4. CASE Correct(m)
  BY <1>2, <1>4 DEF Correct, session, sending
<1>5. CASE Resend(m)
  <2>1. ItemOf(m) \in Items /\ ItemOf(m).msg = m
    BY ItemOfType DEF ItemOf
  <2> QED
    BY <1>1, <1>5, <2>1 DEF Resend, session
<1>6. CASE Remove(m)
  BY <1>2, <1>6 DEF Remove, session, sending
<1> QED
  BY <1>3, <1>4, <1>5, <1>6

\* The first continuation ran: its items were handed over, the others wait.
LEMMA ContinuationServes ==
    ASSUME Served, TypeOK', connected, posted # <<>>, posted' = Tail(posted),
           UNCHANGED <<db, jobs, waiters>>,
           \A i \in Items : i \in Head(posted).items \/ inFlight[i] + resolving[i] > 0
                            => inFlight'[i] + resolving'[i] > 0
    PROVE  PendingIsServed'
<1> USE DEF Served, Leading, Versioned
<1>1. /\ Head(posted) = posted[1] /\ Head(posted).items \in SUBSET Items
      /\ \A l \in DOMAIN posted : l = 1 \/ (l - 1 \in DOMAIN posted' /\ posted'[l - 1] = posted[l])
  <2>1. posted \in Seq(Continuations)
    BY DEF TypeOK
  <2>2. Head(posted).items \in SUBSET Items
    BY QueueType DEF Continuations
  <2>3. \A l \in DOMAIN posted : l = 1 \/ (l - 1 \in DOMAIN posted' /\ posted'[l - 1] = posted[l])
    BY <2>1
  <2> QED
    BY <2>1, <2>2, <2>3
<1>2. ASSUME NEW n \in Msgs, Handed(n) PROVE Handed(n)'
  <2>1. CASE \E i \in Items : i.msg = n /\ inFlight[i] + resolving[i] > 0
    BY <2>1 DEF Handed
  <2>2. ASSUME NEW l \in DOMAIN posted, NEW i \in posted[l].items, i.msg = n PROVE Handed(n)'
    BY <1>1, <2>2 DEF Handed
  <2> QED
    BY <1>2, <2>1, <2>2 DEF Handed
<1> QED
  BY <1>2, LaterJobServes

LEMMA MainStepServes ==
    ASSUME Served, TypeOK', connected,
           \/ Flush \/ SendCorrection
           \/ \E i \in Items : RecipientsResolved(i) \/ SendResult(i)
           \/ \E i \in Items : Receipt(i) \/ ErrorStanza(i) \/ Echo(i)
           \/ SetUpFinished \/ ServicesChanged \/ UNCHANGED vars
    PROVE  PendingIsServed'
<1> USE DEF Served, Leading, Versioned
<1>1. CASE Flush
  <2>1. Head(posted).items \in SUBSET Items
    BY <1>1, QueueType DEF Flush, Continuations
  <2> QED
    BY <1>1, <2>1, SendPendingHands, ContinuationServes DEF Flush, session
<1>2. CASE SendCorrection
  <2>1. Head(posted).items \in SUBSET Items
    BY <1>2, QueueType DEF SendCorrection, Continuations
  <2> QED
    BY <1>2, <2>1, TransmitHands, ContinuationServes DEF SendCorrection, session
<1>3. ASSUME NEW i \in Items, RecipientsResolved(i) PROVE PendingIsServed'
  <2>1. /\ UNCHANGED <<db, posted, waiters, jobs>>
        /\ resolving' = [resolving EXCEPT ![i] = @ - 1]
        /\ inFlight' = [j \in Items |-> IF j \in {i} THEN inFlight[j] + 1 ELSE inFlight[j]]
    BY <1>3 DEF RecipientsResolved, Transmit, session
  <2>2. \A j \in Items : inFlight'[j] + resolving'[j] = inFlight[j] + resolving[j]
    BY <2>1 DEF TypeOK
  <2>3. \A n \in Msgs : Handed(n) => Handed(n)'
    BY <2>1, <2>2 DEF Handed
  <2> QED
    BY <2>1, <2>3, LaterJobServes
<1>4. ASSUME NEW i \in Items, SendResult(i) PROVE PendingIsServed'
  <2>1. PICK op \in {"sent", "failed"} : jobs' = Append(jobs, Job(op, i))
    BY <1>4 DEF SendResult
  <2>2. UNCHANGED <<db, posted, waiters, resolving>> /\ inFlight' = [inFlight EXCEPT ![i] = @ - 1]
    BY <1>4 DEF SendResult, session
  <2>3. \A j \in Items : j # i => inFlight'[j] = inFlight[j]
    BY <2>2 DEF TypeOK
  <2>4. \A n \in Msgs : n # i.msg /\ Handed(n) => Handed(n)'
    BY <2>2, <2>3 DEF Handed
  <2>5. /\ Len(jobs) + 1 \in DOMAIN jobs' \ DOMAIN jobs
        /\ jobs'[Len(jobs) + 1] = Job(op, i)
        /\ \A k \in DOMAIN jobs : k \in DOMAIN jobs' /\ jobs'[k] = jobs[k]
        /\ \A k \in DOMAIN jobs' \ DOMAIN jobs : jobs'[k] = Job(op, i)
    BY <2>1, AppendedJobs
  <2>6. Settles(jobs'[Len(jobs) + 1], i.msg)
    BY <2>5 DEF Settles, Job
  <2>7. \A k \in DOMAIN jobs' \ DOMAIN jobs : jobs'[k].op \notin {"add", "resend"}
    BY <2>5 DEF Job
  <2> QED
    BY <2>2, <2>4, <2>5, <2>6, <2>7, LaterJobServes
<1>5. ASSUME NEW i \in Items, Receipt(i) \/ ErrorStanza(i) \/ Echo(i) PROVE PendingIsServed'
  <2>1. PICK op \in {"receipt", "error", "echo"} : jobs' = Append(jobs, Job(op, i))
    BY <1>5 DEF Receipt, ErrorStanza, Echo
  <2>2. UNCHANGED <<db, posted, waiters, resolving, inFlight>>
    BY <1>5 DEF Receipt, ErrorStanza, Echo, session, sending
  <2>3. \A n \in Msgs : Handed(n) => Handed(n)'
    BY <2>2 DEF Handed
  <2>4. /\ \A k \in DOMAIN jobs : k \in DOMAIN jobs' /\ jobs'[k] = jobs[k]
        /\ \A k \in DOMAIN jobs' \ DOMAIN jobs : jobs'[k].op = op
    BY <2>1, AppendedJobs DEF Job
  <2> QED
    BY <2>2, <2>3, <2>4, LaterJobServes
<1>6. CASE SetUpFinished
  <2>1. UNCHANGED <<db, posted, resolving, inFlight>> /\ (waiters' = waiters \/ waiters' = waiters + 1)
    BY <1>6 DEF SetUpFinished, PendingDataRequested, sending
  <2>2. \A n \in Msgs : Handed(n) => Handed(n)'
    BY <2>1 DEF Handed
  <2>3. \A k \in DOMAIN jobs : k \in DOMAIN jobs' /\ jobs'[k] = jobs[k]
    BY <1>6, FetchAtMost, AppendedJobs
  <2>4. \A k \in DOMAIN jobs' \ DOMAIN jobs : jobs'[k].op = "fetch"
    BY <1>6, FetchAtMost, AppendedJobs DEF FetchJob
  <2>5. waiters > 0 => waiters' > 0
    BY <2>1 DEF TypeOK
  <2> QED
    BY <2>1, <2>2, <2>3, <2>4, <2>5, LaterJobServes
<1>7. CASE ServicesChanged
  <2>1. UNCHANGED <<db, posted, resolving, inFlight>>
    BY <1>7 DEF ServicesChanged, sending
  <2>2. \A n \in Msgs : Handed(n) => Handed(n)'
    BY <2>1 DEF Handed
  <2>3. /\ \A k \in DOMAIN jobs : k \in DOMAIN jobs' /\ jobs'[k] = jobs[k]
        /\ \A k \in DOMAIN jobs' \ DOMAIN jobs : jobs'[k].op = "fetch"
    BY <1>7, FetchesAppended DEF FetchJob
  <2>4. Len(jobs) + 1 \in DOMAIN jobs' \ DOMAIN jobs
    <3> DEFINE fetches == [k \in 1 .. waiters |-> FetchJob]
    <3>1. waiters > 0 /\ waiters \in Nat /\ jobs' = jobs \o fetches /\ jobs \in Seq(Jobs)
      BY <1>7 DEF ServicesChanged, TypeOK
    <3>2. fetches \in Seq(Jobs) /\ Len(fetches) = waiters
      <4>1. fetches \in Seq(Jobs)
        BY <3>1, IsASeq DEF Jobs
      <4>2. DOMAIN fetches = 1 .. waiters
        OBVIOUS
      <4> QED
        BY <3>1, <4>1, <4>2, LenProperties
    <3>3. Len(jobs') = Len(jobs) + waiters /\ jobs' \in Seq(Jobs)
      BY <3>1, <3>2, ConcatProperties
    <3>4. DOMAIN jobs = 1 .. Len(jobs) /\ DOMAIN jobs' = 1 .. Len(jobs') /\ Len(jobs) \in Nat
      BY <3>1, <3>3, LenProperties
    <3> QED
      BY <3>1, <3>3, <3>4
  <2> QED
    BY <2>1, <2>2, <2>3, <2>4, LaterJobServes
<1>8. CASE UNCHANGED vars
  <2>1. UNCHANGED <<db, jobs, posted, resolving, inFlight, waiters>>
    BY <1>8 DEF vars, storage, sending, session
  <2>2. \A n \in Msgs : Handed(n) => Handed(n)'
    BY <2>1 DEF Handed
  <2> QED
    BY <2>1, <2>2, LaterJobServes
<1> QED
  BY <1>1, <1>2, <1>3, <1>4, <1>5, <1>6, <1>7, <1>8

\* What a job that leaves its message pending is, if its ID is that of the row or the first one.
LEMMA RowAfterPending ==
    ASSUME NEW row \in Rows, NEW job \in ItemJobs, job.item.id \in {0, row.id},
           Visible(RowAfter(row, job)), RowAfter(row, job).state = "Pending"
    PROVE  \/ job.op \in {"add", "resend"}
           \/ job.op = "correct" /\ Visible(row) /\ row.state # "Pending"
           \/ job.op \in {"correct", "echo"} /\ Visible(row) /\ row.state = "Pending"
<1>1. job.op \in ItemOps
  BY DEF ItemJobs
<1>2. CASE job.op \in {"sent", "failed", "receipt", "error"}
  <2>1. PICK state \in {"Sent", "Error", "Delivered"} :
           RowAfter(row, job) = Updated(row, job.item.id, state)
    BY <1>2 DEF RowAfter
  <2> QED
    BY <2>1 DEF Updated, Matches, Visible, Rows
<1>3. CASE job.op = "remove"
  BY <1>3 DEF RowAfter, Visible, Rows
<1>4. CASE job.op = "correct"
  BY <1>4 DEF RowAfter, Corrected
<1>5. CASE job.op = "echo"
  <2>1. RowAfter(row, job) = Echoed(row, job.item)
    BY <1>5 DEF RowAfter
  <2>2. row.state = "NoRow" => ~Visible(row)
    BY DEF Visible
  <2>3. \A id, ver, removed :
           [state |-> "Sent", id |-> id, ver |-> ver, removed |-> removed].state # "Pending"
    OBVIOUS
  <2> QED
    BY <1>5, <2>1, <2>2, <2>3 DEF Echoed, Visible, Rows
<1> QED
  BY <1>1, <1>2, <1>3, <1>4, <1>5 DEF ItemOps

LEMMA WorkerStepServes ==
    ASSUME MaxCorrections <= 1, Served, TypeOK', connected, RunItemJob \/ RunFetch
    PROVE  PendingIsServed'
<1> USE DEF Served, Leading, Versioned
<1>1. jobs # <<>> /\ jobs' = Tail(jobs) /\ UNCHANGED <<waiters, inFlight, resolving>>
  BY DEF RunItemJob, RunFetch, sending, session
<1>2. /\ Head(jobs) = jobs[1] /\ 1 \in DOMAIN jobs /\ DOMAIN jobs \subseteq Nat
      /\ \A k \in DOMAIN jobs' : k \in Nat /\ k + 1 \in DOMAIN jobs /\ jobs'[k] = jobs[k + 1]
      /\ \A l \in DOMAIN jobs : l > 1 => l - 1 \in DOMAIN jobs' /\ jobs'[l - 1] = jobs[l]
  <2>1. jobs \in Seq(Jobs)
    BY DEF TypeOK
  <2> QED
    BY <1>1, <2>1, RemainingJobs
<1>3. \A n \in Msgs : Handed(n) => Handed(n)'
  <2>1. \A l \in DOMAIN posted : l \in DOMAIN posted' /\ posted'[l] = posted[l]
    <3>1. posted' = posted \/ \E c : posted' = Append(posted, c)
      BY DEF RunItemJob, RunFetch
    <3> QED
      BY <3>1, AppendedPosted
  <2> QED
    BY <1>1, <2>1 DEF Handed
\* Jobs behind the first one stay behind.
<1>4. ASSUME NEW m \in Msgs, NEW k \in Nat, Coming(m, k + 1)
      PROVE  Coming(m, k)'
  <2>1. CASE waiters > 0 \/ Handed(m)
    BY <1>1, <1>3, <2>1 DEF Coming
  <2>2. ASSUME NEW l \in DOMAIN jobs, l > k + 1, jobs[l].op = "fetch" \/ Settles(jobs[l], m)
        PROVE  Coming(m, k)'
    <3>1. l \in Nat /\ l > 1 /\ l - 1 > k
      BY <1>2, <2>2
    <3>2. l - 1 \in DOMAIN jobs' /\ jobs'[l - 1] = jobs[l]
      BY <1>2, <3>1
    <3> QED
      BY <2>2, <3>1, <3>2 DEF Coming, Settles
  <2> QED
    BY <1>4, <2>1, <2>2 DEF Coming
<1>5. ASSUME NEW m \in Msgs, NEW k \in DOMAIN jobs',
             jobs'[k].op \in {"add", "resend"}, jobs'[k].item.msg = m
      PROVE  Coming(m, k)'
  <2>1. k \in Nat /\ k + 1 \in DOMAIN jobs /\ Coming(m, k + 1)
    BY <1>2, <1>5 DEF PendingIsServed
  <2> QED
    BY <1>4, <2>1
\* A first job that is neither a fetch nor settles m sends and settles nothing of it.
<1>6. ASSUME NEW m \in Msgs, Coming(m, 0), Head(jobs).op # "fetch", ~Settles(Head(jobs), m)
      PROVE  Coming(m, 0)'
  <2>1. Coming(m, 0 + 1)
    <3>1. CASE waiters > 0 \/ Handed(m)
      BY <3>1 DEF Coming
    <3>2. ASSUME NEW l \in DOMAIN jobs, l > 0, jobs[l].op = "fetch" \/ Settles(jobs[l], m)
          PROVE  Coming(m, 0 + 1)
      <4>1. l # 1 /\ l \in Nat
        BY <1>2, <1>6, <3>2
      <4>2. l > 0 + 1
        BY <3>2, <4>1
      <4> QED
        BY <3>2, <4>2 DEF Coming
    <3> QED
      BY <1>6, <3>1, <3>2 DEF Coming
  <2> QED
    BY <1>4, <2>1
<1>7. CASE RunFetch
  <2>1. db' = db /\ posted' = Append(posted, [kind |-> "flush", items |-> PendingItems])
    BY <1>7 DEF RunFetch
  <2>2. ASSUME NEW m \in Msgs, Pending(m)' PROVE Coming(m, 0)'
    <3>1. ItemOf(m) \in PendingItems /\ ItemOf(m).msg = m
      BY <2>1, <2>2 DEF Pending, PendingItems, ItemOf
    <3>2. Len(posted) + 1 \in DOMAIN posted' /\ posted'[Len(posted) + 1].items = PendingItems
      BY <2>1, AppendedPosted
    <3> QED
      BY <3>1, <3>2 DEF Coming, Handed
  <2> QED
    BY <1>5, <2>2 DEF PendingIsServed
<1>8. CASE RunItemJob
  <2> DEFINE job == Head(jobs)
             n   == job.item.msg
             row == RowAfter(db[n], job)
             new == [msg |-> n, id |-> row.id, ver |-> row.ver]
  <2>1. /\ job \in ItemJobs /\ job.item \in Items /\ n \in Msgs /\ job.op # "fetch"
    BY <1>8, QueueType, JobCases, ItemParts DEF RunItemJob
  <2>2. /\ db' = [db EXCEPT ![n] = row]
        /\ posted' = IF job.op = "correct" /\ Visible(db[n]) /\ db[n].state # "Pending"
                     THEN Append(posted, [kind |-> "correction", items |-> {new}])
                     ELSE posted
    BY <1>8 DEF RunItemJob
  <2>3. db[n] \in Rows /\ db'[n] = row /\ \A m \in Msgs : m # n => db'[m] = db[m]
    BY <2>1, <2>2 DEF TypeOK
  <2>4. job.item.id \in {0, db[n].id}
    <3>1. job.item \in Led
      BY <1>2, <2>1, HeldIsLed
    <3>2. Versions \subseteq {0, 1}
      BY ConstantsAssumption DEF Versions
    <3>3. job.item.id \in Versions /\ db[n].id \in Versions
      BY <2>1, <2>3, ItemParts DEF Rows
    <3> QED
      BY <3>1, <3>2, <3>3 DEF Led
  <2>5. new.msg = n
    OBVIOUS
  <2> HIDE DEF row, new
  <2>6. ASSUME NEW m \in Msgs, Pending(m)' PROVE Coming(m, 0)'
    <3>1. CASE m # n
      <4>1. Pending(m)
        BY <2>3, <2>6, <3>1 DEF Pending
      <4>2. ~Settles(job, m)
        BY <3>1 DEF Settles
      <4> QED
        BY <1>6, <2>1, <4>1, <4>2 DEF PendingIsServed
    <3>2. CASE m = n
      <4>1. Visible(row) /\ row.state = "Pending"
        BY <2>3, <2>6, <3>2 DEF Pending
      <4>2. \/ job.op \in {"add", "resend"}
            \/ job.op = "correct" /\ Visible(db[n]) /\ db[n].state # "Pending"
            \/ job.op \in {"correct", "echo"} /\ Visible(db[n]) /\ db[n].state = "Pending"
        BY <2>1, <2>3, <2>4, <4>1, RowAfterPending DEF row
      <4>3. CASE job.op \in {"add", "resend"}
        <5>1. Coming(m, 1)
          BY <1>2, <3>2, <4>3 DEF PendingIsServed
        <5> QED
          BY <1>4, <5>1, 0 + 1 = 1
      <4>4. CASE job.op = "correct" /\ Visible(db[n]) /\ db[n].state # "Pending"
        <5>1. posted' = Append(posted, [kind |-> "correction", items |-> {new}])
          BY <2>2, <4>4
        <5>2. /\ Len(posted) + 1 \in DOMAIN posted'
              /\ posted'[Len(posted) + 1] = [kind |-> "correction", items |-> {new}]
          BY <5>1, AppendedPosted
        <5>3. new \in posted'[Len(posted) + 1].items
          BY <5>2
        <5> QED
          BY <2>5, <3>2, <5>2, <5>3 DEF Coming, Handed
      <4>5. CASE job.op \in {"correct", "echo"} /\ Visible(db[n]) /\ db[n].state = "Pending"
        <5>1. Pending(m) /\ ~Settles(job, m)
          BY <3>2, <4>5 DEF Pending, Settles
        <5> QED
          BY <1>6, <2>1, <5>1 DEF PendingIsServed
      <4> QED
        BY <4>2, <4>3, <4>4, <4>5
    <3> QED
      BY <3>1, <3>2
  <2> QED
    BY <1>5, <2>6 DEF PendingIsServed
<1> QED
  BY <1>7, <1>8

\* A new connection requests the pending data after all that is queued.
LEMMA ConnectedServes ==
    ASSUME Served, Connected
    PROVE  PendingIsServed'
<1> USE DEF Served, Leading, Versioned
<1>1. PendingDataRequested
  BY DEF Connected
<1>2. CASE jobs' = Append(jobs, FetchJob)
  <2>1. /\ DOMAIN jobs' = 1 .. Len(jobs) + 1 /\ Len(jobs) \in Nat
        /\ jobs'[Len(jobs) + 1].op = "fetch"
    BY <1>2, AppendedJobs DEF FetchJob
  <2>2. \A m \in Msgs, k \in 0 .. Len(jobs) : Coming(m, k)'
    <3> SUFFICES ASSUME NEW m \in Msgs, NEW k \in 0 .. Len(jobs) PROVE Coming(m, k)'
      OBVIOUS
    <3>1. Len(jobs) + 1 \in DOMAIN jobs' /\ Len(jobs) + 1 > k
      BY <2>1
    <3> QED
      BY <2>1, <3>1 DEF Coming
  <2>3. \A k \in DOMAIN jobs' : jobs'[k].op \in {"add", "resend"} => k \in 0 .. Len(jobs)
    BY <2>1
  <2>4. 0 \in 0 .. Len(jobs)
    BY <2>1
  <2> QED
    BY <2>2, <2>3, <2>4 DEF PendingIsServed
<1>3. CASE waiters' = waiters + 1
  <2>1. waiters' > 0
    BY <1>3 DEF TypeOK
  <2> QED
    BY <2>1 DEF PendingIsServed, Coming
<1> QED
  BY <1>1, <1>2, <1>3 DEF PendingDataRequested

LEMMA ServedStep ==
    ASSUME MaxCorrections <= 1
    PROVE  Served /\ [Next]_vars => Served'
<1> SUFFICES ASSUME Served, [Next]_vars PROVE Served'
  OBVIOUS
<1>1. Leading' /\ TypeOK'
  BY LeadingStep DEF Served, Leading, Versioned
<1>2. loaded' = TRUE
  BY DEF Served, Next, vars, session, Send, Correct, Resend, Remove, RunItemJob, RunFetch, Flush,
         SendCorrection, RecipientsResolved, SendResult, Receipt, ErrorStanza, Echo, Connected,
         Disconnected, SetUpFinished, ServicesChanged, Restart
<1>3. PendingIsServed'
  <2>1. CASE Disconnected \/ Restart
    BY <2>1 DEF Disconnected, Restart, PendingIsServed
  <2>2. CASE Connected
    BY <2>2, ConnectedServes
  <2>3. CASE ~connected /\ connected' = connected
    BY <2>3 DEF PendingIsServed
  <2>4. CASE connected /\ ~(Disconnected \/ Restart \/ Connected)
    BY <1>1, <2>4, UserStepServes, MainStepServes, WorkerStepServes DEF Next
  <2>5. Disconnected \/ Restart \/ Connected \/ connected' = connected
    BY DEF Next, vars, session, Send, Correct, Resend, Remove, RunItemJob, RunFetch, Flush,
           SendCorrection, RecipientsResolved, SendResult, Receipt, ErrorStanza, Echo,
           SetUpFinished, ServicesChanged
  <2> QED
    BY <1>1, <2>1, <2>2, <2>3, <2>4, <2>5 DEF Served, Leading, Versioned, TypeOK
<1> QED
  BY <1>1, <1>2, <1>3 DEF Served

\* Whatever is lost, resent, corrected once or restarted: while an account with OMEMO data is
\* connected and its pending data was fetched, no message is pending that nothing sends.
THEOREM StrandedNever ==
    ASSUME MaxCorrections <= 1, InitiallyLoaded \subseteq {TRUE}
    PROVE  Spec => []NothingStranded
<1>1. Init => Served
  <2> SUFFICES ASSUME Init PROVE Served
    OBVIOUS
  <2>1. TypeOK
    BY InitType
  <2>2. EvidenceOnWire /\ VersionsHaveOneId
    BY InitVersions
  <2>3. RowsLead
    BY DEF Init, RowsLead, Traced, NoRow
  <2>4. loaded = TRUE /\ PendingIsServed
    BY DEF Init, PendingIsServed
  <2> QED
    BY <2>1, <2>2, <2>3, <2>4 DEF Served, Leading, Versioned
<1>2. Served => NothingStranded
  <2> SUFFICES ASSUME Served, connected, ~FlushUnderWay, NEW m \in Msgs, Pending(m)
               PROVE  UnderWay(m)
    BY DEF NothingStranded
  <2>1. Coming(m, 0)
    BY DEF Served, PendingIsServed
  <2>2. ~(waiters > 0) /\ \A l \in DOMAIN jobs : jobs[l].op # "fetch"
    BY DEF FlushUnderWay
  <2>3. CASE Handed(m)
    BY <2>3 DEF Handed, UnderWay
  <2>4. ASSUME NEW l \in DOMAIN jobs, Settles(jobs[l], m) PROVE UnderWay(m)
    BY <2>2, <2>4 DEF Settles, UnderWay
  <2> QED
    BY <2>1, <2>2, <2>3, <2>4 DEF Coming
<1>3. Served /\ [Next]_vars => Served'
  BY ServedStep
<1> QED
  BY <1>1, <1>2, <1>3, PTL DEF Spec
=============================================================================
