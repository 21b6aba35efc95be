------------------------------- MODULE Blocklist -------------------------------
(***************************************************************************)
(* Blocking: the list of blocked addresses in the database (BlockingDb),   *)
(* the list BlockingController keeps, the page that shows it               *)
(* (BlockingModel) and the state of a single address (BlockingWatcher).    *)
(*                                                                         *)
(* The server answers requests in their order and tells the client about   *)
(* each change after it fetched the list over the current stream.  QXmpp's *)
(* manager is subscribed once it has received the list.  A connection that *)
(* is lost may be resumed, with all stanzas, or replaced by a new one.     *)
(***************************************************************************)
EXTENDS ClientPart

CONSTANTS
    BlockableJids,
    NoJid

VARIABLES
    blockServer,         \* the list on the server, whether this client is told about its
                    \* changes and whether its stream may be resumed
    isSubscribed,   \* of QXmppBlockingManager
    blocklist,      \* m_blocklist, source "None" if it has no value
    subscribed,     \* m_subscribed
    running,        \* m_runningActionCount
    page,           \* the registered BlockingModel: how often it lists each address
    watcher,        \* m_jid of BlockingWatcher and whether it is shown as blocked
    blocked         \* table "blocked"

blockVars == <<blockServer, isSubscribed, blocklist, subscribed, running, page,
               watcher, blocked>>
netVars == <<blockServer, requests, stream, isSubscribed>>
shownVars == <<blocklist, page, watcher>>

NoBlocklist == [source |-> "None", jids |-> {}]
NoPage == [open |-> FALSE, entries |-> [j \in BlockableJids |-> 0]]
Entries(J) == [j \in BlockableJids |-> IF j \in J THEN 1 ELSE 0]

BlockInit ==
    /\ blockServer = [jids |-> {}, tells |-> FALSE, resumes |-> FALSE]
    /\ isSubscribed = FALSE
    /\ blocklist = NoBlocklist /\ subscribed = FALSE /\ running = 0
    /\ page = NoPage /\ watcher = [jid |-> NoJid, blocked |-> FALSE]
    /\ blocked = {}

-----------------------------------------------------------------------------
(* BlockingController.                                                     *)

\* blocklistChanged(): refreshState()
Refreshed(w, J) == [w EXCEPT !.blocked = w.jid \in J]

FetchBlocklist == [op |-> "fetch", jid |-> NoJid]

\* subscribeToBlocklist(): the stored list is loaded and the server's list is fetched.
Subscribed ==
    /\ subscribed' = TRUE
    /\ jobs' = IF subscribed THEN jobs ELSE Append(jobs, [op |-> "load", jids |-> {}])
    /\ requests' = IF ~subscribed /\ connected THEN Append(requests, FetchBlocklist) ELSE requests

\* updateDbBlocklist()
StoredBlocklist(J) ==
    IF blocklist.source = "Db" /\ blocklist.jids = J THEN jobs
    ELSE Append(jobs, [op |-> "reset", jids |-> J])

\* A fault: the stored list replaces the one of the server.
HandleAnyBlocklist(source, J) ==
    /\ blocklist' = [source |-> source, jids |-> J]
    /\ page' = IF page.open THEN [page EXCEPT !.entries = Entries(J)] ELSE page
    /\ watcher' = Refreshed(watcher, J)
    /\ jobs' = IF source = "Xmpp" THEN StoredBlocklist(J) ELSE jobs

\* handleBlocklist()
HandleBlocklist(source, J) ==
    IF blocklist.source = "Xmpp" /\ source = "Db" THEN UNCHANGED <<shownVars, jobs>>
    ELSE /\ blocklist' = [source |-> source, jids |-> J]
         /\ page' = IF page.open /\ (blocklist.source = "None" \/ blocklist.jids # J)
                    THEN [page EXCEPT !.entries = Entries(J)] ELSE page
         /\ watcher' = Refreshed(watcher, J)
         /\ jobs' = IF source = "Xmpp" THEN StoredBlocklist(J) ELSE jobs

\* handleXmppBlocklistResult(): a server that does not know such lists has no blocked addresses.
HandleXmppBlocklistResult(stanza) ==
    HandleBlocklist("Xmpp", IF stanza.kind = "list" THEN stanza.jids ELSE {})

\* onJidsBlocked()
OnJidBlocked(j) ==
    IF j \in blocklist.jids THEN UNCHANGED <<shownVars, jobs>>
    ELSE /\ blocklist' = [blocklist EXCEPT !.jids = @ \cup {j}]
         /\ page' = IF page.open THEN [page EXCEPT !.entries[j] = @ + 1] ELSE page
         /\ watcher' = Refreshed(watcher, blocklist.jids \cup {j})
         /\ jobs' = Append(jobs, [op |-> "add", jids |-> {j}])

\* onJidsUnblocked(), with handleUnblocked() of a model that lists the address
OnJidUnblocked(j) ==
    /\ blocklist' = [blocklist EXCEPT !.jids = @ \ {j}]
    /\ page' = IF page.open THEN [page EXCEPT !.entries[j] = @ - 1] ELSE page
    /\ watcher' = Refreshed(watcher, blocklist.jids \ {j})
    /\ jobs' = Append(jobs, [op |-> "remove", jids |-> {j}])

-----------------------------------------------------------------------------
(* The user.                                                               *)

\* registerModel()
OpenPage ==
    /\ ~page.open /\ Step
    /\ page' = [open |-> TRUE, entries |-> Entries(blocklist.jids)]
    /\ Subscribed
    /\ UNCHANGED <<blockServer, stream, isSubscribed, blocklist, running, watcher, blocked, results,
                   connected, failures>>

\* unregisterModel()
ClosePage ==
    /\ page.open /\ Step
    /\ page' = NoPage
    /\ UNCHANGED <<netVars, blocklist, subscribed, running, watcher, blocked, jobs, results,
                   connected, failures>>

\* BlockingWatcher::setJid()
Watch(j) ==
    /\ watcher.jid # j /\ Step
    /\ watcher' = [jid |-> j, blocked |-> j \in blocklist.jids]
    /\ Subscribed
    /\ UNCHANGED <<blockServer, stream, isSubscribed, blocklist, running, page, blocked, results,
                   connected, failures>>

\* block(), blockAndReport() and unblock(): without a connection they fail at once.
RequestBlocking(op, j) ==
    /\ connected /\ Step
    /\ requests' = Append(requests, [op |-> op, jid |-> j])
    /\ running' = running + 1
    /\ UNCHANGED <<blockServer, stream, isSubscribed, shownVars, subscribed, blocked, jobs, results,
                   connected, failures>>

-----------------------------------------------------------------------------
(* The server and the network.                                             *)

Changes(op, j, J) == IF op = "block" THEN J \cup {j} ELSE J \ {j}
Pushed(op, j) ==
    IF blockServer.tells /\ (op = "block" \/ j \in blockServer.jids)
    THEN <<[kind |-> op, jid |-> j]>> ELSE <<>>

\* The server handles a request, or refuses it.
ServeBlocking ==
    LET request == Head(requests)
    IN  /\ connected /\ requests # <<>>
        /\ requests' = Tail(requests)
        /\ \/ /\ Fail
              /\ stream' = Append(stream, [kind |-> IF request.op = "fetch" THEN "refused"
                                                    ELSE "result"])
              /\ UNCHANGED blockServer
           \/ /\ request.op = "fetch"
              /\ blockServer' = [blockServer EXCEPT !.tells = TRUE]
              /\ stream' = Append(stream, [kind |-> "list", jids |-> blockServer.jids])
              /\ UNCHANGED failures
           \/ /\ request.op # "fetch"
              /\ blockServer' = [blockServer EXCEPT !.jids = Changes(request.op, request.jid, @)]
              /\ stream' = stream \o Pushed(request.op, request.jid) \o <<[kind |-> "result"]>>
              /\ UNCHANGED failures
    /\ UNCHANGED <<isSubscribed, shownVars, subscribed, running, blocked, jobs, results, connected,
                   steps>>

\* Another client of the account changes the list.
ChangedByOtherClient(op, j) ==
    /\ Step
    /\ blockServer' = [blockServer EXCEPT !.jids = Changes(op, j, @)]
    /\ stream' = stream \o Pushed(op, j)
    /\ UNCHANGED <<requests, isSubscribed, shownVars, subscribed, running, blocked, jobs, results,
                   connected, failures>>

ReceiveBlockStanza ==
    LET stanza == Head(stream)
    IN  /\ connected /\ stream # <<>>
        /\ stream' = Tail(stream)
        /\ isSubscribed' = (isSubscribed \/ stanza.kind = "list")
        /\ running' = IF stanza.kind = "result" THEN running - 1 ELSE running
        /\ CASE stanza.kind \in {"list", "refused"} -> HandleXmppBlocklistResult(stanza)
             [] stanza.kind = "block" -> OnJidBlocked(stanza.jid)
             [] stanza.kind = "unblock" -> OnJidUnblocked(stanza.jid)
             [] stanza.kind = "result" -> UNCHANGED <<shownVars, jobs>>
    /\ UNCHANGED <<blockServer, requests, subscribed, blocked, results, connected, steps, failures>>

DisconnectBlocking ==
    /\ connected /\ Step
    /\ connected' = FALSE
    /\ UNCHANGED <<blockVars, requests, stream, jobs, results, failures>>

Fetching == FetchBlocklist \in ToSet(requests) \/ \E i \in DOMAIN stream : stream[i].kind = "list"

\* The connection is resumed, or a new stream is opened and all requests fail.  The list is fetched
\* if it is used and the manager is not subscribed; QXmpp fetches it once at a time.
ConnectBlocking(resumed) ==
    /\ ~connected /\ Step
    /\ connected' = TRUE
    /\ IF resumed
       THEN /\ blockServer.resumes
            /\ requests' = IF subscribed /\ ~isSubscribed /\ ~Fetching
                           THEN Append(requests, FetchBlocklist) ELSE requests
            /\ UNCHANGED <<blockServer, stream, isSubscribed, running>>
       ELSE /\ blockServer' = [blockServer EXCEPT !.tells = FALSE, !.resumes = TRUE]
            /\ stream' = <<>> /\ isSubscribed' = FALSE /\ running' = 0
            /\ requests' = IF subscribed THEN <<FetchBlocklist>> ELSE <<>>
    /\ UNCHANGED <<shownVars, subscribed, blocked, jobs, results, failures>>

-----------------------------------------------------------------------------
(* The database.                                                           *)

BlockedAfter(job) ==
    CASE job.op = "load" -> blocked
      [] job.op = "reset" -> job.jids
      [] job.op = "add" -> blocked \cup job.jids
      [] job.op = "remove" -> blocked \ job.jids

RunBlockJob ==
    /\ jobs # <<>>
    /\ jobs' = Tail(jobs)
    /\ blocked' = BlockedAfter(Head(jobs))
    /\ results' = IF Head(jobs).op = "load" THEN Append(results, blocked) ELSE results
    /\ UNCHANGED <<netVars, shownVars, subscribed, running, connected, steps, failures>>

BlocklistLoaded ==
    /\ results # <<>>
    /\ results' = Tail(results)
    /\ HandleBlocklist("Db", Head(results))
    /\ UNCHANGED <<netVars, subscribed, running, blocked, connected, steps, failures>>

\* The process ends and is started again.  The statements of resetBlockedJids() are no transaction.
RestartBlocking ==
    /\ Step
    /\ blocked' \in {blocked} \cup IF jobs # <<>> /\ Head(jobs).op = "reset"
                                   THEN SUBSET Head(jobs).jids ELSE {}
    /\ blockServer' = [blockServer EXCEPT !.tells = FALSE, !.resumes = FALSE]
    /\ requests' = <<>> /\ stream' = <<>> /\ isSubscribed' = FALSE
    /\ blocklist' = NoBlocklist /\ subscribed' = FALSE /\ running' = 0
    /\ page' = NoPage /\ watcher' = [jid |-> NoJid, blocked |-> FALSE]
    /\ jobs' = <<>> /\ results' = <<>> /\ connected' = FALSE
    /\ UNCHANGED failures

BlockNext ==
    \/ OpenPage \/ ClosePage
    \/ \E j \in BlockableJids : Watch(j)
    \/ \E op \in {"block", "unblock"}, j \in BlockableJids :
          RequestBlocking(op, j) \/ ChangedByOtherClient(op, j)
    \/ ServeBlocking \/ ReceiveBlockStanza \/ DisconnectBlocking
    \/ \E resumed \in BOOLEAN : ConnectBlocking(resumed)
    \/ RunBlockJob \/ BlocklistLoaded \/ RestartBlocking

-----------------------------------------------------------------------------
(* Properties.                                                             *)

\* Page and watcher show the controller's list, each address once.
BlocklistShown ==
    blocklist.source # "None" =>
        /\ page.open => page.entries = Entries(blocklist.jids)
        /\ watcher.blocked = (watcher.jid \in blocklist.jids)

\* The stored list is the one of the controller.
BlocklistStored == Settled /\ blocklist.source # "None" => blocked = blocklist.jids

\* The list that is used becomes the one of the server, and no action stays shown as running.
BlocklistFetched ==
    Quiet /\ connected =>
        /\ subscribed => isSubscribed \/ failures > 0
        /\ isSubscribed => blocklist = [source |-> "Xmpp", jids |-> blockServer.jids]
        /\ running = 0

=============================================================================
