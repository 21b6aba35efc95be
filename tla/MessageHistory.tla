--------------------------- MODULE MessageHistory ---------------------------
(***************************************************************************)
(* Retrieving the messages an account has missed while it was offline from *)
(* the archive of its server (MessageController::handleRosterReceived()).  *)
(*                                                                         *)
(* The archive is the numbers 1 .. archived: a message's number is its     *)
(* stanza ID and its timestamp.  The client remembers the ID of the latest *)
(* message it has received ("latest", in the accounts table) and stores    *)
(* the message itself with another job of the database thread.  After a    *)
(* login it reads the ID and requests what came after it, while new        *)
(* messages arrive live on the same stream.                                *)
(*                                                                         *)
(* The account has retrieved its initial messages.  The archives of group  *)
(* chats are retrieved the same way with the ID of the roster item.        *)
(***************************************************************************)
EXTENDS Naturals, Sequences

CONSTANTS
    MaxMessages, MaxDisconnections, MaxErrors, MaxCrashes,   \* bounds
    PageSize      \* the number of messages the server returns at most for one request

ASSUME HistoryAssumption ==
    /\ MaxMessages \in Nat \ {0} /\ PageSize \in Nat \ {0}
    /\ MaxDisconnections \in Nat /\ MaxErrors \in Nat /\ MaxCrashes \in Nat

VARIABLES
    archived,    \* the number of messages in the archive
    latest,      \* AccountSettings::Data::latestMessageStanzaId, 0 if it is empty
    stored,      \* the messages in the database
    session,     \* "offline", "loggedIn", "reading", "requested", "caughtUp"
    after,       \* the ID sent with the request
    stream,      \* what the server has sent and the client has not handled
    jobs,        \* queue of the database thread
    disturbed,   \* history: what may have hidden missed messages
    disconnections, errors, crashes   \* bounded counters

historyVars == <<archived, latest, stored, session, after, stream, jobs, disturbed, disconnections, errors, crashes>>
counters == <<disconnections, errors, crashes>>

Messages == 1..MaxMessages

HistoryInit ==
    /\ archived \in 0..1
    /\ latest = archived /\ stored = 1..archived
    /\ session = "offline" /\ after = 0
    /\ stream = <<>> /\ jobs = <<>>
    /\ disturbed = {}
    /\ disconnections = 0 /\ errors = 0 /\ crashes = 0

-----------------------------------------------------------------------------
(* The server.                                                             *)

MessageArrives ==
    /\ archived < MaxMessages
    /\ archived' = archived + 1
    /\ stream' = IF session = "offline" THEN stream
                 ELSE Append(stream, [kind |-> "message", messages |-> <<archived'>>])
    /\ disturbed' = IF session \in {"loggedIn", "reading", "requested"} THEN disturbed \cup {"early message"}
                    ELSE disturbed
    /\ UNCHANGED <<latest, stored, session, after, jobs, counters>>

\* The page of messages after an ID
Page(a) ==
    LET end == IF a + PageSize < archived THEN a + PageSize ELSE archived
    IN  [i \in 1..(end - a) |-> a + i]

Requested == session = "requested" /\ ~\E i \in DOMAIN stream : stream[i].kind = "page"

Answer ==
    /\ Requested
    /\ stream' = Append(stream, [kind |-> "page", messages |-> Page(after)])
    /\ disturbed' = IF after + PageSize < archived THEN disturbed \cup {"page"} ELSE disturbed
    /\ UNCHANGED <<archived, latest, stored, session, after, jobs, counters>>

-----------------------------------------------------------------------------
(* The main thread.                                                        *)

Login ==
    /\ session = "offline"
    /\ session' = "loggedIn"
    /\ UNCHANGED <<archived, latest, stored, after, disturbed, stream, jobs, counters>>

\* handleRosterReceived(), once the received roster is stored
RosterReceived ==
    /\ session = "loggedIn"
    /\ session' = "reading"
    /\ jobs' = Append(jobs, [kind |-> "read", message |-> 0])
    /\ UNCHANGED <<archived, latest, stored, after, disturbed, stream, counters>>

\* handleMessage(): updateLatestMessage() comes before the message is stored.
Handling(messages) ==
    [i \in 1..(2 * Len(messages)) |->
        [kind |-> IF i % 2 = 1 THEN "latest" ELSE "store", message |-> messages[(i + 1) \div 2]]]

\* A fault: the messages of a page are not handled.
ReceiveLive ==
    /\ stream # <<>>
    /\ stream' = Tail(stream)
    /\ IF Head(stream).kind = "page" THEN jobs' = jobs /\ session' = "caughtUp"
                                     ELSE jobs' = jobs \o Handling(Head(stream).messages) /\ UNCHANGED session
    /\ UNCHANGED <<archived, latest, stored, after, disturbed, counters>>

\* handleMessage() for a live message, retrieveCatchUpMessages() and retrieveAllMessages() for
\* a page: what the page leaves out is not requested.
Receive ==
    /\ stream # <<>>
    /\ stream' = Tail(stream)
    /\ jobs' = jobs \o Handling(Head(stream).messages)
    /\ session' = IF Head(stream).kind = "page" THEN "caughtUp" ELSE session
    /\ UNCHANGED <<archived, latest, stored, after, disturbed, counters>>

\* An error is only logged.
RetrievalFails ==
    /\ Requested
    /\ errors < MaxErrors /\ errors' = errors + 1
    /\ session' = "caughtUp"
    /\ disturbed' = disturbed \cup {"error"}
    /\ UNCHANGED <<archived, latest, stored, after, stream, jobs, disconnections, crashes>>

-----------------------------------------------------------------------------
(* The database thread.                                                    *)

RunsJob(kind) ==
    /\ jobs # <<>> /\ Head(jobs).kind = kind
    /\ jobs' = Tail(jobs)
    /\ UNCHANGED <<archived, stream, disturbed, counters>>

\* A fault: timestamps are not compared.
SetLatest ==
    /\ RunsJob("latest")
    /\ latest' = Head(jobs).message
    /\ UNCHANGED <<stored, session, after>>

\* updateLatestMessage()
UpdateLatest ==
    /\ RunsJob("latest")
    /\ latest' = IF latest <= Head(jobs).message THEN Head(jobs).message ELSE latest
    /\ UNCHANGED <<stored, session, after>>

\* MessageDb::addOrUpdateMessage()
Store ==
    /\ RunsJob("store")
    /\ stored' = stored \cup {Head(jobs).message}
    /\ UNCHANGED <<latest, session, after>>

\* A fault: the request skips a message.
ReadNext ==
    /\ RunsJob("read")
    /\ IF session = "reading" THEN session' = "requested" /\ after' = latest + 1
                              ELSE UNCHANGED <<session, after>>
    /\ UNCHANGED <<latest, stored>>

\* AccountDb::fetchLatestMessageStanzaId(); with an ID, retrieveCatchUpMessages(), otherwise
\* retrieveAllMessages().  The request for a connection that has been lost is left out: it is
\* sent again with the same ID after the next login.
ReadLatest ==
    /\ RunsJob("read")
    /\ IF session = "reading" THEN session' = "requested" /\ after' = latest
                              ELSE UNCHANGED <<session, after>>
    /\ UNCHANGED <<latest, stored>>

-----------------------------------------------------------------------------
(* Failures.                                                               *)

Disconnect ==
    /\ session # "offline" /\ disconnections < MaxDisconnections
    /\ disconnections' = disconnections + 1
    /\ session' = "offline" /\ stream' = <<>>
    /\ UNCHANGED <<archived, latest, stored, after, disturbed, jobs, errors, crashes>>

\* The process ends: jobs that have not run are lost.
Crash ==
    /\ crashes < MaxCrashes
    /\ crashes' = crashes + 1
    /\ session' = "offline" /\ stream' = <<>> /\ jobs' = <<>>
    /\ disturbed' = disturbed \cup {"crash"}
    /\ UNCHANGED <<archived, latest, stored, after, disconnections, errors>>

Threads == Receive \/ RosterReceived \/ UpdateLatest \/ Store \/ ReadLatest

HistoryNext == MessageArrives \/ Answer \/ Login \/ Threads \/ RetrievalFails \/ Disconnect \/ Crash

HistorySpec == HistoryInit /\ [][HistoryNext]_historyVars

\* Both threads run, the client logs in and the server answers.
HistoryFairSpec == HistorySpec /\ WF_historyVars(Threads) /\ WF_historyVars(Login) /\ WF_historyVars(Answer)

-----------------------------------------------------------------------------
(* Properties.                                                             *)

HistoryTypes ==
    /\ archived \in 0..MaxMessages
    /\ latest \in 0..archived /\ after \in 0..archived
    /\ stored \subseteq 1..archived
    /\ session \in {"offline", "loggedIn", "reading", "requested", "caughtUp"}
    /\ \A i \in DOMAIN jobs : jobs[i].kind = "read" \/ jobs[i].message \in 1..archived
    /\ disturbed \subseteq {"early message", "page", "error", "crash"}
    /\ disconnections \in 0..MaxDisconnections /\ errors \in 0..MaxErrors /\ crashes \in 0..MaxCrashes

\* The remembered ID never goes back, in whatever order messages arrive (updateLatestMessage()):
\* what has been received is not requested again.
LatestOnlyGrows == [][latest' >= latest]_historyVars

\* No message before the latest one is missing: the next request does not skip it ("request all
\* new messages from the server since then", handleRosterReceived()).
NothingSkipped == jobs = <<>> => 1..latest \subseteq stored

\* A message can only be skipped if a live message arrives before the missed ones are requested, if
\* the server returns them in pages, if the retrieval fails, or if the process ends between the
\* job that remembers the ID of a message and the one that stores it.
NoGap == disturbed = {} => NothingSkipped

\* The history is typed and has no gap that nothing explains.
HistoryInv == HistoryTypes /\ NoGap

\* Every archived message is eventually stored, over disconnections.
EventuallyComplete == \A m \in Messages : archived >= m ~> m \in stored \/ disturbed # {}

=============================================================================
