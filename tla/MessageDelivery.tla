-------------------------- MODULE MessageDelivery --------------------------
(***************************************************************************)
(* The life of the messages a Kaidan account sends: composed, corrected,   *)
(* resent or removed by the user, stored by the database worker, handed to *)
(* the XMPP stream, and settled by send results, delivery receipts, error  *)
(* stanzas and echoes (reflections by a group chat, carbons, MAM).         *)
(*                                                                         *)
(* Two threads run the code.  The main thread runs the user's operations,  *)
(* the stream's callbacks and the continuations the database worker posts; *)
(* the worker runs the database jobs in the order they were enqueued       *)
(* (FutureUtils.h, runAsync).  A step of this module is one event of the   *)
(* main thread or one job of the worker.                                   *)
(*                                                                         *)
(* A message is identified by its ORIGINAL message ID.  Its stored ID and  *)
(* its body are abstracted to numbers: 0 for what was composed, k for the  *)
(* ID generated, or the body entered, by the k-th correction.              *)
(***************************************************************************)
EXTENDS Naturals, Sequences

CONSTANTS
    Msgs,            \* the messages the user may compose
    GroupMsgs,       \* those sent to a group chat (their recipients are looked up first)
    ReflectedMsgs,   \* those the server reflects: group chat messages, notes to self
    MaxCorrections,  \* bound: corrections of one message
    MaxSessions,     \* bound: connections to the server; the last one is never lost
    MaxCrashes,      \* bound: terminations of the application
    MaxJobs,         \* bound: length of the worker's queue seen by user and server events
    MaxInFlight,     \* bound: unanswered transmissions of an item when it is resent
    InitiallyLoaded  \* whether OMEMO data is stored when the model starts, a subset of BOOLEAN

ASSUME ConstantsAssumption ==
    /\ GroupMsgs \subseteq ReflectedMsgs
    /\ ReflectedMsgs \subseteq Msgs
    /\ MaxCorrections \in Nat
    /\ MaxSessions \in Nat
    /\ MaxCrashes \in Nat
    /\ MaxJobs \in Nat
    /\ MaxInFlight \in Nat
    /\ InitiallyLoaded \subseteq BOOLEAN

Versions == 0 .. MaxCorrections

\* What is handed to the stream: a message under one of its IDs with one of its bodies.
Items == [msg : Msgs, id : Versions, ver : Versions]

\* The delivery states of a stored message; "NoRow" is a message that is not stored.
\* Drafts are rows of another kind and never reach this module.
DeliveryStates == {"Pending", "Sent", "Delivered", "Error"}

Rows == [state : DeliveryStates \cup {"NoRow"}, id : Versions, ver : Versions, removed : BOOLEAN]

NoRow == [state |-> "NoRow", id |-> 0, ver |-> 0, removed |-> FALSE]

\* Database jobs about one item; "fetch" is fetchPendingMessages, about none.
ItemOps == {"add", "sent", "failed", "receipt", "error", "echo", "correct", "resend", "remove"}

FetchJob == [op |-> "fetch"]

ItemJobs == [op : ItemOps, item : Items]

Jobs == {FetchJob} \cup ItemJobs

Job(op, item) == [op |-> op, item |-> item]

\* Continuations the worker posts to the main thread.
Continuations == [kind : {"flush", "correction"}, items : SUBSET Items]

VARIABLES
    db,         \* the messages table, as [Msgs -> Rows]
    jobs,       \* the worker's queue
    posted,     \* the worker's continuations the main thread has not run yet
    resolving,  \* recipient lookups of group chat messages under way, as [Items -> Nat]
    inFlight,   \* transmissions whose send result is outstanding, as [Items -> Nat]
    connected,  \* m_connection->state() == StateConnected
    sessions,   \* connections established so far
    loaded,     \* OmemoController::m_isLoaded: OMEMO data was loaded or set up
    setUps,     \* OmemoController::setUp() calls under way
    waiters,    \* single-shot connections of sendPendingData() to servicesChanged()
    composed,   \* messages composed so far
    edits,      \* corrections entered so far, as [Msgs -> Versions]
    wire,       \* history: items handed to the stream while connected
    crashes     \* terminations of the application so far

storage == <<db, jobs, posted>>
sending == <<resolving, inFlight, wire>>
session == <<connected, sessions, loaded, setUps, waiters>>
user    == <<composed, edits>>
vars    == <<storage, sending, session, user, crashes>>

TypeOK ==
    /\ db \in [Msgs -> Rows]
    /\ jobs \in Seq(Jobs)
    /\ posted \in Seq(Continuations)
    /\ resolving \in [Items -> Nat]
    /\ inFlight \in [Items -> Nat]
    /\ connected \in BOOLEAN
    /\ sessions \in Nat
    /\ loaded \in BOOLEAN
    /\ setUps \in Nat
    /\ waiters \in Nat
    /\ composed \subseteq Msgs
    /\ edits \in [Msgs -> Versions]
    /\ wire \subseteq Items
    /\ crashes \in Nat

Init ==
    /\ db = [m \in Msgs |-> NoRow]
    /\ jobs = <<>>
    /\ posted = <<>>
    /\ resolving = [i \in Items |-> 0]
    /\ inFlight = [i \in Items |-> 0]
    /\ connected = FALSE
    /\ sessions = 0
    /\ loaded \in InitiallyLoaded
    /\ setUps = 0
    /\ waiters = 0
    /\ composed = {}
    /\ edits = [m \in Msgs |-> 0]
    /\ wire = {}
    /\ crashes = 0

-----------------------------------------------------------------------------
(* Stored rows.                                                            *)

\* The view "chatMessages": rows that are neither drafts nor removed.
Visible(row) == row.state # "NoRow" /\ ~row.removed

\* The row's item: what sending it now would transmit.
ItemOf(m) == [msg |-> m, id |-> db[m].id, ver |-> db[m].ver]

\* Whether updateMessage(id) finds the row: by its ID, or by its origin ID or replaced ID,
\* which stay those of the original message.
Matches(row, id) == Visible(row) /\ id \in {row.id, 0}

\* Fault: the state is set under a newly generated ID.
UpdatedUnderNewId(row, id, state) ==
    IF Matches(row, id)
    THEN [row EXCEPT !.state = state, !.id = IF state = "Pending" THEN MaxCorrections ELSE @]
    ELSE row

Updated(row, id, state) == IF Matches(row, id) THEN [row EXCEPT !.state = state] ELSE row

\* The user's correction of a stored message.  A message that is not pending gets a new ID
\* and becomes pending; one that is pending only gets the new body.
Corrected(row, ver) ==
    IF ~Visible(row) THEN row
    ELSE IF row.state = "Pending" THEN [row EXCEPT !.ver = ver]
    ELSE [row EXCEPT !.ver = ver, !.id = ver, !.state = "Pending"]

\* updateReflectedMessage(): a reflection confirms a message that is marked as sent.
Confirms(row, item) == row.state = "Sent" /\ item.msg \in ReflectedMsgs

\* Fault: the check for an existing row sees the visible ones only.
EchoedDespiteRemoval(row, item) ==
    IF ~Visible(row)
    THEN [state |-> "Sent", id |-> item.id, ver |-> item.ver, removed |-> FALSE]
    ELSE IF Confirms(row, item) THEN [row EXCEPT !.state = "Delivered"] ELSE row

\* Fault: whatever comes back replaces what is stored.
EchoedAsNewest(row, item) ==
    IF Visible(row) THEN [row EXCEPT !.id = item.id, !.ver = item.ver] ELSE row

\* handleMessage() for an own message coming back.  A correction is applied to the row it
\* replaces unless it confirms it; any other message confirms or leaves the stored row, and is
\* stored as a new one only if no row exists, removed ones included.
Echoed(row, item) ==
    IF item.id > 0
    THEN IF ~Visible(row) THEN row
         ELSE IF Confirms(row, item) THEN [row EXCEPT !.state = "Delivered"]
         ELSE [row EXCEPT !.id = item.id, !.ver = item.ver]
    ELSE IF row.state = "NoRow"
         THEN [state |-> "Sent", id |-> item.id, ver |-> item.ver, removed |-> FALSE]
         ELSE IF Visible(row) /\ Confirms(row, item) THEN [row EXCEPT !.state = "Delivered"]
         ELSE row

\* The row of the job's message after the job.
RowAfter(row, job) ==
    CASE job.op = "add"     -> [state |-> "Pending", id |-> job.item.id, ver |-> job.item.ver,
                                removed |-> FALSE]
      [] job.op = "sent"    -> Updated(row, job.item.id, "Sent")
      [] job.op = "failed"  -> Updated(row, job.item.id, "Error")
      [] job.op = "receipt" -> Updated(row, job.item.id, "Delivered")
      [] job.op = "error"   -> Updated(row, job.item.id, "Error")
      [] job.op = "resend"  -> Updated(row, 0, "Pending")
      [] job.op = "correct" -> Corrected(row, job.item.ver)
      [] job.op = "echo"    -> Echoed(row, job.item)
      [] job.op = "remove"  -> IF Visible(row) THEN [row EXCEPT !.removed = TRUE] ELSE row

\* Fault: only the messages that need no lookup are fetched.
PendingDirectItems ==
    {ItemOf(m) : m \in {n \in Msgs \ GroupMsgs : Visible(db[n]) /\ db[n].state = "Pending"}}

\* The messages fetchPendingMessages() returns.
PendingItems == {ItemOf(m) : m \in {n \in Msgs : Visible(db[n]) /\ db[n].state = "Pending"}}

-----------------------------------------------------------------------------
(* Handing items to the stream (main thread).                              *)

\* MessageController::send(): the client transmits at once when it is connected, otherwise the
\* send result is an error.  Either way the callbacks of the result enqueue a job of their own.
Transmit(S) ==
    IF connected
    THEN /\ inFlight' = [i \in Items |-> IF i \in S THEN inFlight[i] + 1 ELSE inFlight[i]]
         /\ wire' = wire \cup S
    ELSE UNCHANGED <<inFlight, wire>>

\* sendPendingMessage() for each item of S: nothing unless connected; a group chat message first
\* looks up its recipients (GroupChatUserDb::userJids()), any other one is sent at once.
SendPending(S) ==
    LET now == {i \in S : i.msg \notin GroupMsgs} IN
    IF connected
    THEN /\ Transmit(now)
         /\ resolving' = [i \in Items |-> IF i \in S \ now THEN resolving[i] + 1 ELSE resolving[i]]
    ELSE UNCHANGED sending

-----------------------------------------------------------------------------
(* The user's operations (main thread).                                    *)

RoomForJob == Len(jobs) < MaxJobs

\* MessageComposition::send()
Send(m) ==
    LET item == [msg |-> m, id |-> 0, ver |-> 0] IN
    /\ m \notin composed
    /\ composed' = composed \cup {m}
    /\ jobs' = Append(jobs, Job("add", item))
    /\ SendPending({item})
    /\ UNCHANGED <<db, posted, session, edits, crashes>>

\* MessageComposition::correct(); offered for visible messages not in the error state.
Correct(m) ==
    /\ RoomForJob
    /\ Visible(db[m]) /\ db[m].state # "Error"
    /\ edits[m] < MaxCorrections
    /\ edits' = [edits EXCEPT ![m] = @ + 1]
    /\ jobs' = Append(jobs, Job("correct", [msg |-> m, id |-> 0, ver |-> edits[m] + 1]))
    /\ UNCHANGED <<db, posted, sending, session, composed, crashes>>

\* MessageModel::resendMessage(); offered for messages in the error state.
Resend(m) ==
    /\ RoomForJob
    /\ Visible(db[m]) /\ db[m].state = "Error"
    /\ inFlight[ItemOf(m)] + resolving[ItemOf(m)] < MaxInFlight
    /\ jobs' = Append(jobs, Job("resend", ItemOf(m)))
    /\ SendPending({ItemOf(m)})
    /\ UNCHANGED <<db, posted, session, user, crashes>>

\* MessageModel::removeMessage()
Remove(m) ==
    /\ RoomForJob
    /\ Visible(db[m])
    /\ jobs' = Append(jobs, Job("remove", ItemOf(m)))
    /\ UNCHANGED <<db, posted, sending, session, user, crashes>>

-----------------------------------------------------------------------------
(* The database worker.                                                    *)

\* A job about one message: it replaces the message's row, and a correction of a message that
\* was not pending posts its transmission.
RunItemJob ==
    /\ jobs # <<>>
    /\ Head(jobs).op # "fetch"
    /\ LET job == Head(jobs)
           m   == job.item.msg
           row == RowAfter(db[m], job)
           transmit == [kind |-> "correction",
                        items |-> {[msg |-> m, id |-> row.id, ver |-> row.ver]}]
       IN  /\ db' = [db EXCEPT ![m] = row]
           /\ posted' = IF /\ job.op = "correct"
                           /\ Visible(db[m])
                           /\ db[m].state # "Pending"
                        THEN Append(posted, transmit)
                        ELSE posted
    /\ jobs' = Tail(jobs)
    /\ UNCHANGED <<sending, session, user, crashes>>

\* fetchPendingMessages(), whose continuation gets the messages as they are stored now.
RunFetch ==
    /\ jobs # <<>>
    /\ Head(jobs).op = "fetch"
    /\ posted' = Append(posted, [kind |-> "flush", items |-> PendingItems])
    /\ jobs' = Tail(jobs)
    /\ UNCHANGED <<db, sending, session, user, crashes>>

-----------------------------------------------------------------------------
(* Continuations (main thread).                                            *)

\* The continuation of sendPendingMessages().
Flush ==
    /\ posted # <<>>
    /\ Head(posted).kind = "flush"
    /\ SendPending(Head(posted).items)
    /\ posted' = Tail(posted)
    /\ UNCHANGED <<db, jobs, session, user, crashes>>

\* The lambda correct() posts to the main thread; a correction that finds no connection stays
\* pending.
SendCorrection ==
    /\ posted # <<>>
    /\ Head(posted).kind = "correction"
    /\ Transmit(Head(posted).items)
    /\ posted' = Tail(posted)
    /\ UNCHANGED <<db, jobs, resolving, session, user, crashes>>

\* Fault: a message that finds no connection is taken for sent.
RecipientsResolvedUnchecked(i) ==
    /\ resolving[i] > 0
    /\ resolving' = [resolving EXCEPT ![i] = @ - 1]
    /\ Transmit({i})
    /\ jobs' = IF connected THEN jobs ELSE Append(jobs, Job("sent", i))
    /\ UNCHANGED <<db, posted, session, user, crashes>>

\* The recipients of a group chat message are known: it is sent without asking again whether
\* there is a connection.
RecipientsResolved(i) ==
    /\ resolving[i] > 0
    /\ resolving' = [resolving EXCEPT ![i] = @ - 1]
    /\ Transmit({i})
    /\ jobs' = IF connected THEN jobs ELSE Append(jobs, Job("failed", i))
    /\ UNCHANGED <<db, posted, session, user, crashes>>

\* The send result of a transmission: acknowledged by the server, or failed.
SendResult(i) ==
    /\ inFlight[i] > 0
    /\ inFlight' = [inFlight EXCEPT ![i] = @ - 1]
    /\ \/ connected /\ jobs' = Append(jobs, Job("sent", i))
       \/ jobs' = Append(jobs, Job("failed", i))
    /\ UNCHANGED <<db, posted, resolving, wire, session, user, crashes>>

-----------------------------------------------------------------------------
(* What the server sends (main thread).                                    *)

\* QXmppMessageReceiptManager::messageDelivered; group chat messages request no receipt.
Receipt(i) ==
    /\ connected /\ RoomForJob
    /\ i \in wire /\ i.msg \notin GroupMsgs
    /\ jobs' = Append(jobs, Job("receipt", i))
    /\ UNCHANGED <<db, posted, sending, session, user, crashes>>

\* A stanza of type "error" for a transmitted message.
ErrorStanza(i) ==
    /\ connected /\ RoomForJob
    /\ i \in wire
    /\ jobs' = Append(jobs, Job("error", i))
    /\ UNCHANGED <<db, posted, sending, session, user, crashes>>

\* The message itself comes back: reflected, or via MAM.
Echo(i) ==
    /\ connected /\ RoomForJob
    /\ i \in wire
    /\ jobs' = Append(jobs, Job("echo", i))
    /\ UNCHANGED <<db, posted, sending, session, user, crashes>>

-----------------------------------------------------------------------------
(* The connection.                                                         *)

\* Fault: nobody waits for the upload services.
PendingDataRequestedWithoutWaiting ==
    \/ jobs' = Append(jobs, FetchJob) /\ UNCHANGED waiters
    \/ UNCHANGED <<jobs, waiters>>

\* The continuation of setUp(): pending data is sent at once, or as soon as the upload services
\* are known.
PendingDataRequested ==
    \/ jobs' = Append(jobs, FetchJob) /\ UNCHANGED waiters
    \/ waiters' = waiters + 1 /\ UNCHANGED jobs

\* ClientController::onConnected(): setUp() is finished at once if OMEMO data was loaded, and
\* takes its time otherwise.
Connected ==
    /\ ~connected
    /\ sessions < MaxSessions
    /\ connected' = TRUE
    /\ sessions' = sessions + 1
    /\ IF loaded
       THEN PendingDataRequested /\ UNCHANGED setUps
       ELSE setUps' = setUps + 1 /\ UNCHANGED <<jobs, waiters>>
    /\ UNCHANGED <<db, posted, sending, loaded, user, crashes>>

Disconnected ==
    /\ connected
    /\ sessions < MaxSessions
    /\ connected' = FALSE
    /\ UNCHANGED <<storage, sending, sessions, loaded, setUps, waiters, user, crashes>>

\* OMEMO was set up, or could not be.  setUp() finishes its promise only in the second case: after
\* a successful set-up the promise is dropped and the continuation never runs.
SetUpFinished ==
    /\ setUps > 0
    /\ setUps' = setUps - 1
    /\ \/ loaded' = TRUE /\ UNCHANGED <<jobs, waiters>>
       \/ PendingDataRequested /\ UNCHANGED loaded
    /\ UNCHANGED <<db, posted, sending, connected, sessions, user, crashes>>

\* QXmppHttpUploadManager::servicesChanged runs each waiting sendPendingData() once.
ServicesChanged ==
    /\ waiters > 0
    /\ jobs' = jobs \o [k \in 1 .. waiters |-> FetchJob]
    /\ waiters' = 0
    /\ UNCHANGED <<db, posted, sending, connected, sessions, loaded, setUps, user, crashes>>

\* The application terminates and is started again: only the database survives, with the OMEMO
\* data that logIn() loads.
Restart ==
    /\ crashes < MaxCrashes
    /\ sessions < MaxSessions
    /\ crashes' = crashes + 1
    /\ jobs' = <<>>
    /\ posted' = <<>>
    /\ resolving' = [i \in Items |-> 0]
    /\ inFlight' = [i \in Items |-> 0]
    /\ connected' = FALSE
    /\ setUps' = 0
    /\ waiters' = 0
    /\ UNCHANGED <<db, sessions, loaded, user, wire>>

-----------------------------------------------------------------------------
Next ==
    \/ \E m \in Msgs : Send(m) \/ Correct(m) \/ Resend(m) \/ Remove(m)
    \/ RunItemJob \/ RunFetch
    \/ Flush \/ SendCorrection
    \/ \E i \in Items : RecipientsResolved(i) \/ SendResult(i)
    \/ \E i \in Items : Receipt(i) \/ ErrorStanza(i) \/ Echo(i)
    \/ Connected \/ Disconnected \/ SetUpFinished \/ ServicesChanged
    \/ Restart

Spec == Init /\ [][Next]_vars

\* Fairness: both threads keep running their events, each transmission is answered, the account
\* reconnects (QXmpp retries, the last session of the model is not lost) and a server announces
\* its upload services once it is asked.
Fairness ==
    /\ WF_vars(RunItemJob \/ RunFetch)
    /\ WF_vars(Flush \/ SendCorrection)
    /\ \A i \in Items : WF_vars(RecipientsResolved(i)) /\ WF_vars(SendResult(i))
    /\ WF_vars(Connected)
    /\ WF_vars(SetUpFinished)
    /\ WF_vars(ServicesChanged)

FairSpec == Spec /\ Fairness

-----------------------------------------------------------------------------
(* Properties.                                                             *)

Pending(m) == Visible(db[m]) /\ db[m].state = "Pending"

\* Something under way will still change the row of m or transmit it.
UnderWay(m) ==
    \/ \E k \in DOMAIN jobs : jobs[k].op # "fetch" /\ jobs[k].item.msg = m
    \/ \E k \in DOMAIN posted : \E i \in posted[k].items : i.msg = m
    \/ \E i \in Items : i.msg = m /\ inFlight[i] + resolving[i] > 0

\* The pending data of this session has still to be fetched or sent.
FlushUnderWay ==
    \/ setUps > 0
    \/ waiters > 0
    \/ \E k \in DOMAIN jobs : jobs[k].op = "fetch"
    \/ \E k \in DOMAIN posted : posted[k].kind = "flush"

\* While an account with OMEMO data is connected, no pending message is left that nothing sends:
\* the window between "connected" and sendPendingData(), and that between a correction's database
\* job and its continuation, lose no message (MessageController::sendPendingData()).
NothingStranded ==
    connected /\ ~FlushUnderWay => \A m \in Msgs : Pending(m) => UnderWay(m)

\* A message that the user removed is never shown again, whatever comes back for it: the comment
\* of MessageDb::_checkMessageExists() promises it for MAM.
RemovedStaysRemoved == [][\A m \in Msgs : db[m].removed => db'[m].removed]_vars

\* A message is shown as sent or delivered only if some version of it was handed to a connected
\* stream, over all crashes, resends and late results.
SettledOnlyAfterTransmission ==
    \A m \in Msgs :
        db[m].state \in {"Sent", "Delivered"} => \E i \in wire : i.msg = m

\* A retry (flush after a reconnection or a restart, resend by the user) of a body always uses
\* the ID of its first transmission, so that a recipient can recognize duplicates.
OneIdPerVersion ==
    \A i, j \in wire : i.msg = j.msg /\ i.ver = j.ver => i.id = j.id

\* Types, and one ID for each version of a message.
DeliveryInv == TypeOK /\ OneIdPerVersion

\* A later version of a message is never replaced by an earlier one.  It holds as long as a
\* message is corrected once; a second correction can be overwritten by the first one's echo.
VersionNeverRegresses == [][\A m \in Msgs : db[m].ver <= db'[m].ver]_vars

\* A reflected message becomes delivered when its reflection is processed.  It does not if the
\* reflection overtakes the acknowledgement of the transmission: updateReflectedMessage()
\* ignores it, and the acknowledgement then marks the message as sent for ever.
ReflectionMarksDelivered ==
    [][\A m \in ReflectedMsgs :
        /\ jobs # <<>> /\ jobs' = Tail(jobs)
        /\ Head(jobs) = Job("echo", ItemOf(m))
        /\ Visible(db[m]) /\ db[m].state \in {"Pending", "Sent"}
        => db'[m].state = "Delivered"]_vars

\* What the user sees as sent is what was sent: if nothing of a message is under way, the stored
\* version of a sent or delivered message was transmitted.
TransmittedAsStored ==
    \A m \in Msgs :
        Visible(db[m]) /\ db[m].state \in {"Sent", "Delivered"} /\ ~UnderWay(m)
            => \E i \in wire : i.msg = m /\ i.ver = db[m].ver

\* A pending message is eventually sent, delivered, marked as failed or removed.  It holds for
\* accounts with OMEMO data; in the session that sets OMEMO up, pending messages are not sent.
PendingResolved == \A m \in Msgs : Pending(m) ~> ~Pending(m)

-----------------------------------------------------------------------------
(* Inductive strengthenings of SettledOnlyAfterTransmission and            *)
(* OneIdPerVersion.                                                        *)

\* Whatever may settle a message as sent or delivered was handed to the stream.
EvidenceOnWire ==
    /\ \A i \in Items : inFlight[i] > 0 => i \in wire
    /\ \A k \in DOMAIN jobs : jobs[k].op \in {"sent", "receipt", "echo"} => jobs[k].item \in wire

Origin(m) == [msg |-> m, id |-> 0, ver |-> 0]

\* All items that were transmitted or may be transmitted without another database job.
Known ==
    wire \cup {i \in Items : resolving[i] > 0}
         \cup (UNION {posted[k].items : k \in DOMAIN posted})
         \cup {ItemOf(m) : m \in Msgs} \cup {Origin(m) : m \in Msgs}

CorrectionQueued(k) == k \in DOMAIN jobs /\ jobs[k].op = "correct"

\* A version gets its ID once: the corrections still queued are newer than every known item.
VersionsHaveOneId ==
    /\ \A i, j \in Known : i.msg = j.msg /\ i.ver = j.ver => i.id = j.id
    /\ \A i \in Known : i.ver <= edits[i.msg]
    /\ \A k \in DOMAIN jobs : CorrectionQueued(k) =>
          /\ jobs[k].item.ver <= edits[jobs[k].item.msg]
          /\ \A i \in Known : i.msg = jobs[k].item.msg => i.ver # jobs[k].item.ver
    /\ \A k, l \in DOMAIN jobs :
          /\ CorrectionQueued(k) /\ CorrectionQueued(l) /\ k # l
          /\ jobs[k].item.msg = jobs[l].item.msg
          => jobs[k].item.ver # jobs[l].item.ver
    /\ \A k \in DOMAIN jobs : jobs[k].op = "add" => jobs[k].item = Origin(jobs[k].item.msg)

-----------------------------------------------------------------------------
(* Inductive strengthening of RemovedStaysRemoved and                      *)
(* VersionNeverRegresses, next to RowsLead below: nothing is left of a     *)
(* message that was never stored, and rows never vanish.                   *)

RowsEmpty == \A m \in Msgs : db[m].state = "NoRow" => db[m] = NoRow

-----------------------------------------------------------------------------
(* Inductive strengthening of NothingStranded, which holds while a message *)
(* is corrected once and OMEMO data is loaded.                             *)

\* Something that is not the table speaks of the item.
Traced(i) ==
    \/ i \in wire
    \/ inFlight[i] + resolving[i] > 0
    \/ \E k \in DOMAIN posted : i \in posted[k].items
    \/ \E k \in DOMAIN jobs : jobs[k].op # "fetch" /\ jobs[k].item = i

\* The items of composed messages; an item with an ID of its own is that of a row with one.
Led == {i \in Items : i.msg \in composed /\ (i.id # 0 => db[i.msg].id # 0)}

\* The row gets an ID before anything else speaks of it, and keeps one: a message is stored as
\* composed before any other job about it runs.
RowsLead ==
    /\ \A i \in Items : Traced(i) => i \in Led
    /\ \A m \in Msgs : db[m].state = "NoRow" => db[m].id = 0
    /\ \A m \in Msgs : m \notin composed => db[m].state = "NoRow"
    /\ \A k \in DOMAIN jobs : jobs[k].op = "add" =>
          /\ db[jobs[k].item.msg].state = "NoRow"
          /\ \A l \in DOMAIN jobs :
                l < k /\ jobs[l].op # "fetch" => jobs[l].item.msg # jobs[k].item.msg

\* A job whose message is not pending after it.
Settles(job, m) ==
    job.op \in {"sent", "failed", "receipt", "error", "remove"} /\ job.item.msg = m

\* The main thread has an item of m to send, or waits for the result of its transmission.
Handed(m) ==
    \/ \E l \in DOMAIN posted : \E i \in posted[l].items : i.msg = m
    \/ \E i \in Items : i.msg = m /\ inFlight[i] + resolving[i] > 0

\* Something will send m or settle it, whatever the first k jobs do.
Coming(m, k) ==
    \/ waiters > 0
    \/ \E l \in DOMAIN jobs : l > k /\ (jobs[l].op = "fetch" \/ Settles(jobs[l], m))
    \/ Handed(m)

\* What is pending, or becomes so by a queued job, will be sent or settled.
PendingIsServed ==
    connected =>
        \A m \in Msgs :
            /\ Pending(m) => Coming(m, 0)
            /\ \A k \in DOMAIN jobs :
                  jobs[k].op \in {"add", "resend"} /\ jobs[k].item.msg = m => Coming(m, k)

=============================================================================
