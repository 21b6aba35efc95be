---------------------------- MODULE FileTransfer ----------------------------
(***************************************************************************)
(* The transfers of the files of one message: an own message whose files   *)
(* are uploaded before it is sent, or a received one whose files are       *)
(* downloaded (FileSharingController, FileProgressCache, the file states   *)
(* of MessageDb and MessageController::sendPendingMessage()).              *)
(*                                                                         *)
(* The main thread queues jobs for the database thread, which runs them in *)
(* order; the continuations of the jobs are run in that order by the main  *)
(* thread.  What the user sees is the stored row.                          *)
(***************************************************************************)
EXTENDS Naturals, Sequences, FiniteSets, SequencesExt

CONSTANTS
    Files,                 \* the files of the message
    Directions,            \* the messages considered: own (TRUE) or received ones (FALSE)
    AutomaticDownloads,    \* RosterItem::automaticDownloadsEnabled()
    MaxCancels,            \* bound: transfers the user cancels
    MaxRepeats,            \* bound: transfers the user starts again
    MaxFailures,           \* bound: failed transfers and output files
    MaxConnections,        \* bound: connections
    MaxRestarts            \* bound: terminations of the application

ASSUME ConstantsAssumption ==
    /\ IsFiniteSet(Files)
    /\ Directions \subseteq BOOLEAN /\ AutomaticDownloads \in BOOLEAN
    /\ {MaxCancels, MaxRepeats, MaxFailures, MaxConnections, MaxRestarts} \subseteq Nat

TransferStates == {"Pending", "Transferring", "CanceledByUser", "Failed", "Done"}

VARIABLES
    row,        \* the message in the database
    jobs,       \* queue of the database thread
    results,    \* continuations queued for the main thread
    transfers,  \* running uploads and downloads of QXmpp
    started,    \* number of transfers started, by file: numbers the transfers
    cache,      \* FileProgressCache: the number of the transfer it knows (0: none), by file
    joins,      \* the futures sendPendingFiles() waits for
    connection, \* whether the client is connected and has discovered the upload service
    support,    \* m_uploadSupport
    uploaded,   \* history: files that were uploaded
    canceled,   \* history: files whose transfer the user canceled and did not start again
    sent,       \* history: the message was handed to the stream
    counts      \* the bounded events so far

vars == <<row, jobs, results, transfers, started, cache, joins, connection, support, uploaded,
          canceled, sent, counts>>

Rows == [stored : BOOLEAN, own : BOOLEAN, delivery : {"Pending", "Sent", "Error"},
         state : [Files -> TransferStates], local : [Files -> BOOLEAN]]

Transfers == [file : Files, n : Nat, stopped : BOOLEAN]

\* Every component has its type; the cache knows transfers that were started, and what is running
\* was started.
TypeOK ==
    /\ row \in Rows
    /\ transfers \subseteq Transfers
    /\ started \in [Files -> Nat]
    /\ cache \in [Files -> [n : Nat, byUser : BOOLEAN]]
    /\ \A f \in Files : cache[f].n <= started[f]
    /\ \A t \in transfers : t.n \in 1..started[t.file]
    /\ \A j \in joins : j.open # {} /\ j.open \subseteq Files \X Nat /\ j.ok \in BOOLEAN
    /\ connection \in {"Disconnected", "Connected", "Discovered"}
    /\ support \in {"Unknown", "Supported"}
    /\ uploaded \subseteq Files /\ canceled \subseteq Files
    /\ sent \in BOOLEAN

connected == connection # "Disconnected"

Uploaded(files) == \A f \in Files : files[f] = "Done"

\* Queueing updates of the state of several files.
StateJobs(S, state) == [i \in 1..Len(SetToSeq(S)) |->
                          [kind |-> "state", file |-> SetToSeq(S)[i], to |-> state]]

Init ==
    /\ \E own \in Directions :
          row = [stored |-> FALSE, own |-> own, delivery |-> "Pending",
                 state |-> [f \in Files |-> "Pending"], local |-> [f \in Files |-> own]]
    /\ jobs = <<>> /\ results = <<>>
    /\ transfers = {} /\ joins = {}
    /\ started = [f \in Files |-> 0]
    /\ cache = [f \in Files |-> [n |-> 0, byUser |-> FALSE]]
    /\ connection = "Disconnected"
    /\ support \in {"Unknown", "Supported"}   \* not initialized by the constructor
    /\ uploaded = {} /\ canceled = {}
    /\ sent = FALSE
    /\ counts = [composed |-> 0, cancels |-> 0, repeats |-> 0, failures |-> 0,
                 connections |-> 0, restarts |-> 0]

Counted(event) == counts' = [counts EXCEPT ![event] = @ + 1]

-----------------------------------------------------------------------------
(* What the handlers are built from.                                       *)

\* uploadFile() or downloadFile() of QXmpp for each of the files S, with its progress reported to
\* the cache.
Start(S) ==
    /\ started' = [f \in Files |-> IF f \in S THEN started[f] + 1 ELSE started[f]]
    /\ transfers' = transfers \cup {[file |-> f, n |-> started[f] + 1, stopped |-> FALSE] : f \in S}
    /\ cache' = [f \in Files |-> IF f \in S THEN [n |-> started[f] + 1, byUser |-> FALSE] ELSE cache[f]]

\* sendFileTask() for each of the files S, after the jobs queued in "earlier".
SendFileTasks(S, earlier) ==
    IF support = "Supported"
    THEN Start(S) /\ jobs' = jobs \o earlier \o StateJobs(S, "Transferring")
    ELSE UNCHANGED <<started, transfers, cache>> /\ jobs' = jobs \o earlier

\* sendPendingFiles(): the pending ones of the files are uploaded, and the message is sent if
\* all of them are done then.
SendPendingFiles(files, earlier) ==
    LET S == {f \in Files : files[f] = "Pending"}
    IN  /\ SendFileTasks(S, earlier)
        /\ joins' = IF S = {} \/ support # "Supported" THEN joins
                    ELSE joins \cup {[open |-> {<<f, started[f] + 1>> : f \in S},
                                      ok   |-> \A f \in Files \ S : files[f] = "Done"]}
        /\ UNCHANGED sent

\* sendPendingMessageWithUploadedFiles()
Transmit(earlier) ==
    /\ jobs' = jobs \o earlier \o <<[kind |-> "settle", to |-> IF connected THEN "Sent" ELSE "Error"]>>
    /\ sent' = (sent \/ connected)
    /\ UNCHANGED <<started, transfers, cache, joins>>

\* MessageController::sendPendingMessage()
SendPendingMessage(files, earlier) ==
    IF ~connected THEN jobs' = jobs \o earlier /\ UNCHANGED <<started, transfers, cache, joins, sent>>
    ELSE IF Uploaded(files) THEN Transmit(earlier)
    ELSE SendPendingFiles(files, earlier)

\* downloadFile() for each of the files S, of which those in "broken" cannot be opened for writing.
DownloadFiles(S, broken) ==
    IF connected
    THEN Start(S \ broken) /\ jobs' = jobs \o StateJobs(S \ broken, "Transferring")
    ELSE UNCHANGED <<started, transfers, cache>> /\ jobs' = jobs \o StateJobs(S, "Pending")

Breaking(S, broken) ==
    /\ broken \subseteq S
    /\ counts.failures + Len(SetToSeq(broken)) <= MaxFailures
    /\ counts' = [counts EXCEPT !.failures = @ + Len(SetToSeq(broken))]

-----------------------------------------------------------------------------
(* The user.                                                               *)

\* MessageComposition::send() of a message with files.
Compose ==
    /\ row.own /\ counts.composed = 0
    /\ Counted("composed")
    /\ SendPendingMessage(row.state, <<[kind |-> "add"]>>)
    /\ UNCHANGED <<row, results, connection, support, uploaded, canceled>>

\* A click on a pending or running transfer: cancelTransfer().
Cancel(f) ==
    /\ row.stored /\ row.state[f] \in {"Pending", "Transferring"}
    /\ counts.cancels < MaxCancels /\ Counted("cancels")
    /\ canceled' = canceled \cup {f}
    /\ IF cache[f].n # 0
       THEN /\ cache' = [cache EXCEPT ![f].byUser = TRUE]
            /\ transfers' = {[t EXCEPT !.stopped = @ \/ (t.file = f /\ t.n = cache[f].n)] : t \in transfers}
            /\ UNCHANGED jobs
       ELSE /\ jobs' = Append(jobs, [kind |-> "state", file |-> f, to |-> "CanceledByUser"])
            /\ UNCHANGED <<cache, transfers>>
    /\ UNCHANGED <<row, results, started, joins, connection, support, uploaded, sent>>

\* A click on a file that still has to be uploaded: sendFile().
UploadAgain(f) ==
    /\ row.own /\ row.stored
    /\ row.delivery = "Pending" /\ row.state[f] \in {"CanceledByUser", "Failed"}
    /\ counts.repeats < MaxRepeats /\ Counted("repeats")
    /\ canceled' = canceled \ {f}
    /\ SendFileTasks({f}, <<>>)
    /\ UNCHANGED <<row, results, joins, connection, support, uploaded, sent>>

\* A click on a file that is not locally available: downloadFile().
DownloadAgain(f) ==
    /\ ~row.own /\ row.stored
    /\ ~row.local[f] /\ row.state[f] \notin {"Pending", "Transferring"}
    /\ counts.repeats < MaxRepeats /\ Counted("repeats")
    /\ canceled' = canceled \ {f}
    /\ DownloadFiles({f}, {})
    /\ UNCHANGED <<row, results, joins, connection, support, uploaded, sent>>

-----------------------------------------------------------------------------
(* QXmpp.                                                                  *)

\* The message arrives from the stream or from MAM.
Receive ==
    /\ ~row.own /\ counts.composed = 0
    /\ connected
    /\ Counted("composed")
    /\ jobs' = Append(jobs, [kind |-> "add"])
    /\ UNCHANGED <<row, results, transfers, started, cache, joins, connection, support, uploaded, canceled, sent>>

\* Fault: the end of a transfer is not stored.
TransferFinishedUnstored(t) ==
    /\ transfers' = transfers \ {t}
    /\ cache' = [cache EXCEPT ![t.file] = [n |-> 0, byUser |-> FALSE]]
    /\ UNCHANGED <<row, jobs, results, started, joins, connection, support, uploaded, canceled, sent, counts>>

\* The handlers of QXmppFileUpload::finished and QXmppFileDownload::finished with
\* handleTransferError(), which reads canceledByUser from the cache.
TransferFinished(t) ==
    /\ transfers' = transfers \ {t}
    /\ cache' = [cache EXCEPT ![t.file] = [n |-> 0, byUser |-> FALSE]]
    /\ \E outcome \in {"Done", "Failed"} \cup (IF t.stopped THEN {"Pending"} ELSE {}) :
          /\ outcome = "Failed" => counts.failures < MaxFailures
          /\ counts' = [counts EXCEPT !.failures = @ + IF outcome = "Failed" THEN 1 ELSE 0]
          /\ uploaded' = IF outcome = "Done" THEN uploaded \cup {t.file} ELSE uploaded
          /\ jobs' = Append(jobs, [kind |-> "finished", file |-> t.file, n |-> t.n,
                                   to |-> IF outcome # "Done" /\ cache[t.file].byUser
                                          THEN "CanceledByUser" ELSE outcome])
    /\ UNCHANGED <<row, results, started, joins, connection, support, canceled, sent>>

\* The connection is established: downloadPendingFiles().  Transfers that were stopped at the
\* disconnection have ended by then.
Connect ==
    /\ ~connected /\ \A t \in transfers : ~t.stopped
    /\ counts.connections < MaxConnections
    /\ Counted("connections")
    /\ connection' = "Connected"
    /\ jobs' = Append(jobs, [kind |-> "fetchDownloads"])
    /\ UNCHANGED <<row, results, transfers, started, cache, joins, support, uploaded, canceled, sent>>

\* The services of the server are discovered: handleUploadSupportChanged() and sendPendingData().
ServicesDiscovered ==
    /\ connection = "Connected"
    /\ connection' = "Discovered"
    /\ support' = "Supported"
    /\ jobs' = Append(jobs, [kind |-> "fetchPending"])
    /\ UNCHANGED <<row, results, transfers, started, cache, joins, uploaded, canceled, sent, counts>>

\* The connection ends: cancelTransfers().  The transfers known to the cache are stopped.
Disconnect ==
    /\ connected /\ counts.connections < MaxConnections
    /\ connection' = "Disconnected"
    /\ support' = "Unknown"
    /\ transfers' = {[t EXCEPT !.stopped = @ \/ t.n = cache[t.file].n] : t \in transfers}
    /\ UNCHANGED <<row, jobs, results, started, cache, joins, uploaded, canceled, sent, counts>>

-----------------------------------------------------------------------------
(* The database thread.                                                    *)

RowAfter(job) ==
    CASE job.kind = "add" ->
           [row EXCEPT !.stored = TRUE]
      [] job.kind \in {"state", "finished"} /\ row.stored ->
           [row EXCEPT !.state[job.file] = job.to, !.local[job.file] = @ \/ job.to = "Done"]
      [] job.kind = "notDownloaded" ->
           [row EXCEPT !.state = [f \in Files |-> "Done"]]
      [] job.kind = "settle" /\ row.stored ->
           [row EXCEPT !.delivery = job.to]
      [] OTHER -> row

\* What the main thread is told after the job: the added message, the result of an upload, the
\* pending message, the files to be downloaded or the message to be sent.
ResultsOf(job) ==
    CASE job.kind = "add" /\ ~row.own      -> <<[kind |-> "added"]>>
      [] job.kind = "finished" /\ row.own  -> <<[kind |-> "uploaded", key |-> <<job.file, job.n>>,
                                                  ok |-> job.to = "Done"]>>
      [] job.kind = "fetchPending" /\ row.own /\ row.stored /\ row.delivery = "Pending" ->
           <<[kind |-> "pending", files |-> row.state]>>
      [] job.kind = "fetchDownloads" /\ ~row.own /\ row.stored ->
           <<[kind |-> "downloads",
              files |-> {f \in Files : row.state[f] = "Pending" /\ ~row.local[f]}]>>
      [] job.kind = "fetchMessage"          -> <<[kind |-> "message", files |-> row.state]>>
      [] OTHER                              -> <<>>

RunJob ==
    /\ jobs # <<>>
    /\ jobs' = Tail(jobs)
    /\ row' = RowAfter(Head(jobs))
    /\ results' = results \o ResultsOf(Head(jobs))
    /\ UNCHANGED <<transfers, started, cache, joins, connection, support, uploaded, canceled, sent, counts>>

-----------------------------------------------------------------------------
(* Continuations in the main thread.                                       *)

Handles(kind) ==
    /\ results # <<>> /\ Head(results).kind = kind
    /\ results' = Tail(results)

\* handleMessageAdded()
MessageAdded ==
    /\ Handles("added")
    /\ IF AutomaticDownloads
       THEN \E broken \in SUBSET Files : Breaking(Files, broken) /\ DownloadFiles(Files, broken)
       ELSE /\ jobs' = Append(jobs, [kind |-> "notDownloaded"])
            /\ UNCHANGED <<started, transfers, cache, counts>>
    /\ UNCHANGED <<row, joins, connection, support, uploaded, canceled, sent>>

\* The continuation of downloadPendingFiles().
PendingDownloads ==
    /\ Handles("downloads")
    /\ \E broken \in SUBSET Head(results).files :
          Breaking(Head(results).files, broken) /\ DownloadFiles(Head(results).files, broken)
    /\ UNCHANGED <<row, joins, connection, support, uploaded, canceled, sent>>

\* The continuation of sendPendingMessages().
PendingMessage ==
    /\ Handles("pending")
    /\ SendPendingMessage(Head(results).files, <<>>)
    /\ UNCHANGED <<row, connection, support, uploaded, canceled, counts>>

\* The continuations of sendPendingFiles() and sendFile(): maybeSendPendingMessage() after the last
\* upload of a group, or after the upload of a single file, if they were successful.
UploadStored ==
    LET key == Head(results).key
        ok  == Head(results).ok
        group == {j \in joins : key \in j.open}
        after == {[open |-> j.open \ {key}, ok |-> j.ok /\ ok] : j \in group}
    IN  /\ Handles("uploaded")
        /\ joins' = (joins \ group) \cup {j \in after : j.open # {}}
        /\ jobs' = IF (group = {} /\ ok) \/ \E j \in after : j.open = {} /\ j.ok
                   THEN Append(jobs, [kind |-> "fetchMessage"]) ELSE jobs
        /\ UNCHANGED <<row, transfers, started, cache, connection, support, uploaded, canceled, sent, counts>>

\* Fault: the message is sent once any group of its files is uploaded.
MaybeSendUnchecked ==
    /\ Handles("message")
    /\ Transmit(<<>>)
    /\ UNCHANGED <<row, connection, support, uploaded, canceled, counts>>

\* The continuation of maybeSendPendingMessage().
MaybeSend ==
    /\ Handles("message")
    /\ IF Uploaded(Head(results).files) THEN Transmit(<<>>)
       ELSE UNCHANGED <<jobs, sent, started, transfers, cache, joins>>
    /\ UNCHANGED <<row, connection, support, uploaded, canceled, counts>>

\* The application terminates and is started again: only the database is left.
Restart ==
    /\ counts.restarts < MaxRestarts /\ Counted("restarts")
    /\ jobs' = <<>> /\ results' = <<>>
    /\ transfers' = {} /\ joins' = {}
    /\ cache' = [f \in Files |-> [n |-> 0, byUser |-> FALSE]]
    /\ connection' = "Disconnected"
    /\ support' \in {"Unknown", "Supported"}
    /\ UNCHANGED <<row, started, uploaded, canceled, sent>>

-----------------------------------------------------------------------------
Next ==
    \/ Compose \/ Receive
    \/ \E f \in Files : Cancel(f) \/ UploadAgain(f) \/ DownloadAgain(f)
    \/ \E t \in transfers : TransferFinished(t)
    \/ Connect \/ ServicesDiscovered \/ Disconnect
    \/ RunJob
    \/ MessageAdded \/ PendingDownloads \/ PendingMessage \/ UploadStored \/ MaybeSend
    \/ Restart

Spec == Init /\ [][Next]_vars

Handled == MessageAdded \/ PendingDownloads \/ PendingMessage \/ UploadStored \/ MaybeSend

\* Fairness: both threads go on, transfers end, and the client connects and discovers the services
\* of the server.
FairSpec ==
    /\ Spec
    /\ WF_vars(RunJob) /\ WF_vars(Handled)
    /\ WF_vars(\E t \in transfers : TransferFinished(t))
    /\ WF_vars(Connect) /\ WF_vars(ServicesDiscovered)

-----------------------------------------------------------------------------
(* Properties.                                                             *)

\* A message is not sent before each of its files was uploaded, over cancellations, repetitions
\* and lost connections (maybeSendPendingMessage() and sendPendingFiles()).
SentWithFiles == sent => uploaded = Files

Settled == jobs = <<>> /\ results = <<>>

\* A file is not shown as being transferred when nothing transfers it anymore: such a file is
\* neither restarted after the next login nor offered for being transferred again.  A termination
\* of the application leaves such files.
TransferringIsRunning ==
    Settled /\ counts.restarts = 0 =>
        \A f \in Files : row.state[f] = "Transferring" => \E t \in transfers : t.file = f

\* Types, and the files shown as being transferred.
TransferInv == TypeOK /\ TransferringIsRunning

\* The progress of each running transfer is known, as the handlers of progressChanged and finished
\* assert (Q_ASSERT(progress)).
ProgressKnown == \A t \in transfers : cache[t.file].n # 0

\* A transfer that the user canceled is only started again by the user.
CanceledStaysCanceled ==
    [][\A f \in canceled \cap canceled' : started'[f] = started[f]]_vars

\* Once all files of a pending message are uploaded, it is sent without a new login.
UploadedIsSent ==
    Settled /\ row.stored /\ connected /\ Uploaded(row.state) /\ row.own => row.delivery # "Pending"

\* An own message with files is eventually sent, unless the sending or an upload failed or was
\* canceled by the user (sendPendingData() and sendPendingFiles()).
UploadsResolved ==
    row.stored /\ row.own
        ~> row.delivery # "Pending" \/ \E f \in Files : row.state[f] \in {"CanceledByUser", "Failed"}

\* A file of a received message does not stay pending or being transferred.
DownloadsResolved ==
    \A f \in Files :
        row.stored /\ ~row.own ~> row.state[f] \notin {"Pending", "Transferring"}

\* Although a disconnection stops all transfers, those of a message come to their end.
TransfersResolved == UploadsResolved /\ DownloadsResolved

=============================================================================
