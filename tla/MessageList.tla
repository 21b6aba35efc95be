------------------------------ MODULE MessageList ------------------------------
(***************************************************************************)
(* The messages shown in an open chat (MessageModel): pages fetched from   *)
(* the database (MessageDb), then from the server's archive                *)
(* (MessageController, MAM), messages that are sent, received and removed  *)
(* meanwhile, and searches that load all messages up to the found one.     *)
(*                                                                         *)
(* A page is fetched by the number of messages loaded when it is asked     *)
(* for.  A message is known by its time; a new one is newer than all       *)
(* others.  What a job on the database thread emits is handled later by    *)
(* the main thread, in order.                                              *)
(***************************************************************************)
EXTENDS ClientPart

CONSTANTS
    StoredMessages,    \* messages stored at the beginning; the archive has ArchivedMessages more,
    ArchivedMessages,  \* which are older
    DbLimit,           \* DB_QUERY_LIMIT_MESSAGES
    MamLimit           \* MAM_BACKLOG_FETCH_COUNT

ASSUME ListAssumption ==
    StoredMessages \in Nat /\ ArchivedMessages \in Nat /\ DbLimit \in Nat \ {0} /\ MamLimit \in Nat \ {0}

VARIABLES
    storedMessages,            \* the messages in table "messages"
    removedMessages,   \* those marked as removed
    messageList,              \* m_messages
    fetched,           \* m_fetchedAllFromDb, m_fetchedAllFromMam, m_mamLoading
    archive,           \* messages in the archive of the server
    retrieval,         \* running MAM query: "no", "yes", or "lost" if the model is a new one; and
                       \* the oldest loaded message of which earlier ones are wanted, 0 without one
    mixed              \* history: a page was asked for while the list did not match the database

listVars == <<storedMessages, removedMessages, messageList, fetched, archive, retrieval, mixed>>

NotFetched == [db |-> FALSE, mam |-> FALSE, loading |-> FALSE]
NoRetrieval == [running |-> "no", before |-> 0]

ListInit ==
    /\ storedMessages = (ArchivedMessages + 1)..(ArchivedMessages + StoredMessages)
    /\ removedMessages = {}
    /\ messageList = <<>> /\ fetched = NotFetched
    /\ archive = 1..(ArchivedMessages + StoredMessages)
    /\ retrieval = NoRetrieval /\ mixed = FALSE

NewestFirst(S) ==
    [i \in 1..Cardinality(S) |-> CHOOSE t \in S : Cardinality({u \in S : u >= t}) = i]
ChatMessages == NewestFirst(storedMessages \ removedMessages)     \* view "chatMessages", ordered
PageOf(from, count) == SubSeq(ChatMessages, from + 1, Min({from + count, Len(ChatMessages)}))
NewestArchived == Max(archive \cup {0})

-----------------------------------------------------------------------------
(* The model.                                                              *)

\* Something of the list is under way.
ListOutstanding == ToSet(jobs) \cup ToSet(results) # {}

\* Queries enqueued by the model, with the number of loaded messages as offset
PageQuery(mode, target) ==
    [op |-> "fetch", mode |-> mode, from |-> Len(messageList), time |-> target]

\* fetchMore(): from the database or, once that has been read, from the archive
FetchMore(all, loaded) ==
    IF ~all
    THEN /\ jobs' = Append(jobs, PageQuery(IF loaded = <<>> THEN "unread" ELSE "page", 0))
         /\ UNCHANGED <<retrieval, fetched>>
    ELSE /\ IF fetched.mam \/ ~connected \/ fetched.loading
            THEN retrieval' = retrieval /\ fetched' = [fetched EXCEPT !.db = TRUE]
            ELSE /\ retrieval' = [running |-> "yes",
                                  before |-> IF loaded = <<>> THEN 0 ELSE Last(loaded)]
                 /\ fetched' = [fetched EXCEPT !.db = TRUE, !.loading = TRUE]
         /\ UNCHANGED jobs

\* The view asks for more messages: canFetchMore().
Scroll ==
    /\ ~fetched.db \/ (~fetched.mam /\ ~fetched.loading)
    /\ Step
    /\ FetchMore(fetched.db, messageList)
    /\ mixed' = (mixed \/ (~fetched.db /\ ListOutstanding))
    /\ UNCHANGED <<storedMessages, removedMessages, messageList, archive, results, connected,
                   failures>>

\* searchMessageById() and searchForMessageFromNewToOld() for a message that is not loaded.  A
\* query string that no other stored message has ends the reading of the database.
SearchMessage(mode, time) ==
    /\ time \notin ToSet(messageList) /\ messageList # <<>> /\ Step
    /\ jobs' = Append(jobs, PageQuery(mode, time))
    /\ mixed' = (mixed \/ ListOutstanding
                     \/ (mode = "string" /\ time \notin storedMessages \ removedMessages))
    /\ UNCHANGED <<storedMessages, removedMessages, messageList, fetched, archive, retrieval,
                   results, connected, failures>>

\* A fault: a full page is taken for the last one.
AppendLastPage(page) ==
    /\ messageList' = messageList \o page
    /\ fetched' = [fetched EXCEPT !.db = @ \/ Len(page) <= DbLimit]
    /\ UNCHANGED <<retrieval, jobs>>

\* handleMessagesFetched()
AppendPage(page) ==
    LET all == fetched.db \/ Len(page) < DbLimit
    IN  IF page = <<>> /\ all
        THEN FetchMore(TRUE, messageList) /\ UNCHANGED messageList
        ELSE /\ messageList' = messageList \o page
             /\ fetched' = [fetched EXCEPT !.db = all]
             /\ UNCHANGED <<retrieval, jobs>>

\* addMessage(): above the first older message
Inserted(time) ==
    LET older == {i \in DOMAIN messageList : messageList[i] < time}
    IN  InsertAt(messageList, Min(older \cup {Len(messageList) + 1}), time)

\* Remove a message: removeMessage()
RemoveMessage(time) ==
    /\ Step
    /\ \E i \in DOMAIN messageList :
          /\ messageList[i] = time /\ \A k \in 1..(i - 1) : messageList[k] # time
          /\ messageList' = RemoveAt(messageList, i)
    /\ jobs' = Append(jobs, [op |-> "remove", time |-> time])
    /\ UNCHANGED <<storedMessages, removedMessages, fetched, archive, retrieval, mixed, results,
                   connected, failures>>

\* Another chat is opened and this one again: resetPreviousChat() and a new model, which gets
\* nothing of what was asked for or emitted before.
Reopen ==
    /\ Step
    /\ messageList' = <<>> /\ fetched' = NotFetched
    /\ jobs' = AllBut(jobs, "fetch") /\ results' = <<>>
    /\ retrieval' = IF retrieval.running = "no" THEN retrieval
                    ELSE [retrieval EXCEPT !.running = "lost"]
    /\ mixed' = (mixed \/ jobs' # <<>> \/ retrieval.running # "no")
    /\ UNCHANGED <<storedMessages, removedMessages, archive, connected, failures>>

-----------------------------------------------------------------------------
(* Database, connection and server.                                        *)

\* A message is sent or received.
NewMessage ==
    /\ connected /\ Step
    /\ archive' = archive \cup {NewestArchived + 1}
    /\ jobs' = Append(jobs, [op |-> "add", time |-> NewestArchived + 1])
    /\ UNCHANGED <<storedMessages, removedMessages, messageList, fetched, retrieval, mixed, results,
                   connected, failures>>

\* How many messages are at least as new as the one looked for among those at the offset or after
Reach(job) ==
    LET found == {t \in storedMessages \ removedMessages : t = job.time}
        count == Cardinality({t \in storedMessages \ removedMessages : t >= job.time})
    IN  IF found = {} \/ count <= job.from THEN 0 ELSE count - job.from

\* fetchMessages(), fetchMessagesUntilFirstContactMessage(), fetchMessagesUntilId() and
\* fetchMessagesUntilQueryString().  With unread messages the first page has any number of further
\* ones, which depends on the last read message or the first contact message that is stored.
FetchedPages(job) ==
    CASE job.mode = "page" -> {PageOf(job.from, DbLimit)}
      [] job.mode = "unread" -> {PageOf(0, DbLimit + n) : n \in 0..Cardinality(storedMessages)}
      [] OTHER -> {IF Reach(job) = 0 THEN <<>>
                   ELSE PageOf(job.from, Reach(job) + (IF job.mode = "id" THEN 2 ELSE 1) * DbLimit)}

RunListJob ==
    LET job == Head(jobs)
    IN  /\ jobs # <<>>
        /\ jobs' = Tail(jobs)
        /\ CASE job.op = "fetch" ->
                  /\ \E page \in FetchedPages(job) :
                        results' = Append(results, [op |-> job.mode, page |-> page])
                  /\ UNCHANGED <<storedMessages, removedMessages>>
             [] job.op = "add" ->
                  /\ storedMessages' = storedMessages \cup {job.time}
                  /\ results' = IF job.time \in storedMessages THEN results
                                ELSE Append(results, [op |-> "added", time |-> job.time])
                  /\ UNCHANGED removedMessages
             [] job.op = "remove" ->
                  /\ removedMessages' = removedMessages \cup ({job.time} \cap storedMessages)
                  /\ UNCHANGED <<storedMessages, results>>
        /\ UNCHANGED <<messageList, fetched, archive, retrieval, mixed, connected, steps, failures>>

\* handleMessage(), or a page: searchMessageById() does not handle an empty one.
HandleResult ==
    LET result == Head(results)
    IN  /\ results # <<>>
        /\ results' = Tail(results)
        /\ IF result.op = "added"
           THEN messageList' = Inserted(result.time) /\ UNCHANGED <<fetched, retrieval, jobs>>
           ELSE IF result.op = "id" /\ result.page = <<>>
           THEN UNCHANGED <<messageList, fetched, retrieval, jobs>>
           ELSE AppendPage(result.page)
        /\ UNCHANGED <<storedMessages, removedMessages, archive, mixed, connected, steps, failures>>

Earlier == IF retrieval.before = 0 THEN archive ELSE {t \in archive : t < retrieval.before}
Excess(S) == {t \in S : Cardinality({u \in S : u > t}) >= MamLimit}

\* retrieveBacklogMessages(): the newest page of the earlier messages is stored; loading ends
\* before they are in the list.
BacklogRetrieved ==
    /\ connected /\ retrieval.running # "no"
    /\ retrieval' = NoRetrieval
    /\ \/ /\ Fail
          /\ fetched' = IF retrieval.running = "yes" THEN [fetched EXCEPT !.loading = FALSE]
                        ELSE fetched
          /\ UNCHANGED jobs
       \/ /\ jobs' = jobs \o [i \in 1..Cardinality(Earlier \ Excess(Earlier)) |->
                                [op |-> "add",
                                 time |-> Reverse(NewestFirst(Earlier \ Excess(Earlier)))[i]]]
          /\ fetched' = IF retrieval.running = "yes"
                        THEN [fetched EXCEPT !.loading = FALSE, !.mam = @ \/ Excess(Earlier) = {}]
                        ELSE fetched
          /\ UNCHANGED failures
    /\ UNCHANGED <<storedMessages, removedMessages, messageList, archive, mixed, results, connected,
                   steps>>

\* A query fails if its connection is lost.
ChangeConnection ==
    /\ Step
    /\ connected' = ~connected
    /\ IF connected
       THEN /\ retrieval' = NoRetrieval
            /\ fetched' = IF retrieval.running = "yes" THEN [fetched EXCEPT !.loading = FALSE]
                          ELSE fetched
       ELSE UNCHANGED <<retrieval, fetched>>
    /\ UNCHANGED <<storedMessages, removedMessages, messageList, archive, mixed, jobs, results,
                   failures>>

ListNext ==
    \/ Scroll \/ Reopen \/ NewMessage
    \/ \E mode \in {"id", "string"}, time \in storedMessages \cup {0} : SearchMessage(mode, time)
    \/ \E time \in archive : RemoveMessage(time)
    \/ RunListJob \/ HandleResult \/ BacklogRetrieved \/ ChangeConnection

-----------------------------------------------------------------------------
(* Properties.                                                             *)

\* The list shows the latest messages without a gap or a message shown twice, all that are stored
\* once the database is read, and all of the archive once that is read too; nothing is loading
\* without a query.
ListContinuous ==
    /\ ~mixed /\ ~ListOutstanding =>
          /\ IsPrefix(messageList, ChatMessages)
          /\ fetched.db => messageList = ChatMessages
          /\ fetched.mam => archive \subseteq storedMessages
    /\ fetched.loading <=> retrieval.running = "yes"

=============================================================================
