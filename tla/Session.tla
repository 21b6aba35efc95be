------------------------------ MODULE Session ------------------------------
(***************************************************************************)
(* The connection of one account to its server: logging in and out,        *)
(* reconnecting, and deleting the account from the client or from client   *)
(* and server (ClientController, Connection, RegistrationController and    *)
(* the OMEMO data of OmemoController that is loaded and unloaded with it). *)
(*                                                                         *)
(* All of it runs in the main thread; what interleaves are the user's      *)
(* operations, the stream's signals and the continuations of the OMEMO     *)
(* manager's asynchronous operations.                                      *)
(***************************************************************************)
EXTENDS Naturals

CONSTANTS
    MaxRequests,  \* bound: operations of the user
    MaxFailures   \* bound: failed attempts to connect and lost connections

ASSUME ConstantsAssumption == MaxRequests \in Nat /\ MaxFailures \in Nat

\* Asynchronous operations of the OMEMO manager, each with a continuation of this component.
Operations == {"load", "setUp", "unload", "reset", "resetLocally"}

\* The combinations of the flags DeletionState that m_deletionStates takes.
DeletionStates ==
    {{}, {"ToBeDeletedFromClient"}, {"ToBeDeletedFromClient", "ToBeDeletedFromServer"},
     {"ToBeDeletedFromClient", "ToBeDeletedFromServer", "ClientDisconnectedBeforeDeletionFromServer"},
     {"DeletedFromServer"}}

VARIABLES
    c,           \* ClientController, QXmppClient and OmemoController, a record (see Clients)
    deletion,    \* m_deletionStates
    request,     \* the account deletion request sent in this connection
    timers,      \* single-shot timers of ACCOUNT_DELETION_TIMEOUT running
    registered,  \* the account exists on the server
    removed,     \* removeLocalAccountData() ran
    enabled,     \* AccountSettings::enabled(), what the user asked for last
    asked,       \* history: the deletion the user asked for that was not refused since
    requests,    \* operations of the user so far
    failures     \* failed attempts and lost connections so far

vars == <<c, deletion, request, timers, registered, removed, enabled, asked, requests, failures>>

\* state, closing, retrying and autoReconnect belong to QXmppClient: its state, whether
\* disconnectFromServer() was called, whether its reconnection timer runs and whether the timer
\* is started when a connection is lost.  isStored and supported stand for the OMEMO data in the
\* database and for AccountSettings::inBandRegistrationFeaturesSupported().  logOutDuringAttempt is history: logOut() was called
\* since the current attempt to connect began.
Clients ==
    [state : {"Disconnected", "Connecting", "Connected"},
     closing : BOOLEAN, retrying : BOOLEAN, autoReconnect : BOOLEAN,
     isDisconnecting : BOOLEAN, isReconnecting : BOOLEAN,
     isLoaded : BOOLEAN, isStored : BOOLEAN, supported : BOOLEAN,
     running : [Operations -> Nat],
     logOutDuringAttempt : BOOLEAN]

\* Every component has its type; the flags of a deletion are only combined as above.
TypeOK ==
    /\ c \in Clients
    /\ deletion \in DeletionStates
    /\ request \in {"none", "sent", "done", "refused"}
    /\ timers \in Nat
    /\ registered \in BOOLEAN
    /\ removed \in BOOLEAN
    /\ enabled \in BOOLEAN
    /\ asked \in {"nothing", "client", "clientAndServer"}
    /\ requests \in Nat
    /\ failures \in Nat

-----------------------------------------------------------------------------
(* Operations of the client, as functions of its record.                   *)

Started(k, op) == [k EXCEPT !.running[op] = @ + 1]

Finished(k, op) == [k EXCEPT !.running[op] = @ - 1]

\* QXmppClient::disconnectFromServer(): the disconnection is reported later.
DisconnectFromServer(k) == [k EXCEPT !.closing = k.state # "Disconnected", !.retrying = FALSE]

\* ClientController::logOut() while the application is not being closed.
LogOut(k) ==
    CASE k.state = "Disconnected" -> k
      [] k.state = "Connecting"   -> [k EXCEPT !.isDisconnecting = TRUE, !.logOutDuringAttempt = TRUE]
      [] k.state = "Connected"    -> IF k.isLoaded THEN Started(k, "unload") ELSE DisconnectFromServer(k)

AttemptBegun(k) == [k EXCEPT !.state = "Connecting", !.retrying = FALSE, !.logOutDuringAttempt = FALSE]

\* ClientController::connectToServer()
ConnectToServer(k) ==
    CASE k.state = "Connecting"   -> k
      [] k.state = "Connected"    -> LogOut([k EXCEPT !.isReconnecting = TRUE])
      [] k.state = "Disconnected" -> [AttemptBegun(k) EXCEPT !.autoReconnect = FALSE, !.supported = FALSE]

\* ClientController::logIn(): OMEMO data is loaded first unless it already is.
LogIn(k) == IF k.isLoaded THEN ConnectToServer(k) ELSE Started(k, "load")

\* Account::restoreState() of an enabled account, with or without stored OMEMO data.
Init ==
    /\ \E stored \in BOOLEAN :
          c = LogIn([state |-> "Disconnected", closing |-> FALSE, retrying |-> FALSE,
                     autoReconnect |-> FALSE, isDisconnecting |-> FALSE,
                     isReconnecting |-> FALSE, isLoaded |-> FALSE, isStored |-> stored, supported |-> FALSE,
                     running |-> [op \in Operations |-> 0], logOutDuringAttempt |-> FALSE])
    /\ deletion = {}
    /\ request = "none"
    /\ timers = 0
    /\ registered = TRUE
    /\ removed = FALSE
    /\ enabled = TRUE
    /\ asked = "nothing"
    /\ requests = 0
    /\ failures = 0

-----------------------------------------------------------------------------
(* The user's operations, while the account is not removed.                *)

UserAsks ==
    /\ ~removed
    /\ requests < MaxRequests
    /\ requests' = requests + 1

\* Account::enable() and Account::disable(), the two positions of a switch.
Enable ==
    /\ UserAsks
    /\ ~enabled
    /\ enabled' = TRUE
    /\ c' = LogIn(c)
    /\ UNCHANGED <<deletion, request, timers, registered, removed, asked, failures>>

Disable ==
    /\ UserAsks
    /\ enabled
    /\ enabled' = FALSE
    /\ c' = LogOut(c)
    /\ UNCHANGED <<deletion, request, timers, registered, removed, asked, failures>>

\* Connection::logIn() by a confirmed password or changed connection settings, offered while the
\* account is disconnected.
LogInAgain ==
    /\ UserAsks
    /\ enabled /\ c.state = "Disconnected"
    /\ c' = LogIn(c)
    /\ UNCHANGED <<deletion, request, timers, registered, removed, enabled, asked, failures>>

\* deleteAccountFromClient(), from the state k of the client.
DeletedFromClient(k) ==
    /\ deletion' = {"ToBeDeletedFromClient"}
    /\ c' = IF k.state = "Connected" THEN Started(k, "reset") ELSE LogIn(k)
    /\ UNCHANGED <<request, timers>>

\* deleteAccountFromClientAndServer(), from the state k of the client.
DeletedFromClientAndServer(k) ==
    IF k.state = "Connected"
    THEN /\ deletion' = {"ToBeDeletedFromClient", "ToBeDeletedFromServer"}
         /\ request' = "sent"
         /\ timers' = timers + 1
         /\ c' = k
    ELSE /\ deletion' = {"ToBeDeletedFromClient", "ToBeDeletedFromServer",
                         "ClientDisconnectedBeforeDeletionFromServer"}
         /\ c' = LogIn(k)
         /\ UNCHANGED <<request, timers>>

\* Offered for enabled accounts; a deletion from the server only if the server announced the
\* support since the last login.  The page is busy until the deletion is done or refused.
Delete(kind) ==
    /\ UserAsks
    /\ enabled /\ asked = "nothing"
    /\ kind = "clientAndServer" => c.supported
    /\ asked' = kind
    /\ IF kind = "client" THEN DeletedFromClient(c) ELSE DeletedFromClientAndServer(c)
    /\ UNCHANGED <<registered, removed, enabled, failures>>

-----------------------------------------------------------------------------
(* Continuations of the OMEMO manager.                                     *)

Running(op) == ~removed /\ c.running[op] > 0

LoadFinished ==
    /\ Running("load")
    /\ c' = ConnectToServer([Finished(c, "load") EXCEPT !.isLoaded = c.isStored])
    /\ UNCHANGED <<deletion, request, timers, registered, removed, enabled, asked, requests, failures>>

\* The set-up succeeds only while the account is connected.
SetUpFinished ==
    /\ Running("setUp")
    /\ \/ /\ c.state = "Connected"
          /\ c' = [Finished(c, "setUp") EXCEPT !.isLoaded = TRUE, !.isStored = TRUE]
       \/ c' = Finished(c, "setUp")
    /\ UNCHANGED <<deletion, request, timers, registered, removed, enabled, asked, requests, failures>>

\* Fault: the connection outlives the OMEMO data.
UnloadFinishedOnly ==
    /\ Running("unload")
    /\ c' = [Finished(c, "unload") EXCEPT !.isLoaded = FALSE]
    /\ UNCHANGED <<deletion, request, timers, registered, removed, enabled, asked, requests, failures>>

UnloadFinished ==
    /\ Running("unload")
    /\ c' = DisconnectFromServer([Finished(c, "unload") EXCEPT !.isLoaded = FALSE])
    /\ UNCHANGED <<deletion, request, timers, registered, removed, enabled, asked, requests, failures>>

ResetFinished ==
    /\ Running("reset")
    /\ c' = LogOut([Finished(c, "reset") EXCEPT !.isLoaded = FALSE, !.isStored = FALSE])
    /\ UNCHANGED <<deletion, request, timers, registered, removed, enabled, asked, requests, failures>>

ResetLocallyFinished ==
    /\ Running("resetLocally")
    /\ c' = [Finished(c, "resetLocally") EXCEPT !.isLoaded = FALSE, !.isStored = FALSE]
    /\ removed' = TRUE
    /\ UNCHANGED <<deletion, request, timers, registered, enabled, asked, requests, failures>>

-----------------------------------------------------------------------------
(* The stream's signals.                                                   *)

\* ClientController::onConnected() with RegistrationController::handleConnected(): an account to
\* be deleted is deleted now, a requested logout is made up for, and OMEMO is set up otherwise.
Connected ==
    LET k == [c EXCEPT !.state = "Connected", !.supported = TRUE] IN
    /\ ~removed
    /\ c.state = "Connecting" /\ ~c.closing /\ registered
    /\ IF {"ToBeDeletedFromClient", "ToBeDeletedFromServer"} \subseteq deletion
       THEN DeletedFromClientAndServer(k)
       ELSE IF "ToBeDeletedFromClient" \in deletion
       THEN DeletedFromClient(k)
       ELSE /\ c' = IF c.isDisconnecting THEN LogOut([k EXCEPT !.isDisconnecting = FALSE])
                    ELSE IF c.isLoaded THEN [k EXCEPT !.autoReconnect = TRUE]
                    ELSE Started([k EXCEPT !.autoReconnect = TRUE], "setUp")
            /\ UNCHANGED <<deletion, request, timers>>
    /\ UNCHANGED <<registered, removed, enabled, asked, requests, failures>>

\* Fault: m_isReconnecting stays set.
HandleDisconnectedStillReconnecting(k, flags) ==
    /\ c' = IF k.isReconnecting THEN ConnectToServer(k) ELSE k
    /\ UNCHANGED <<deletion, removed>>

\* Fault: the deletion states are reset before a reconnection, too.
HandleDisconnectedForgetting(k, flags) ==
    /\ deletion' = {}
    /\ IF k.isReconnecting
       THEN c' = ConnectToServer([k EXCEPT !.isReconnecting = FALSE]) /\ UNCHANGED removed
       ELSE /\ c' = IF "DeletedFromServer" \in flags THEN Started(k, "resetLocally") ELSE k
            /\ removed' = ("ToBeDeletedFromClient" \in flags)

\* ClientController::onDisconnected() with RegistrationController::handleDisconnected(), from the
\* state k of the client and the deletion states "flags".
HandleDisconnected(k, flags) ==
    IF k.isReconnecting
    THEN /\ c' = ConnectToServer([k EXCEPT !.isReconnecting = FALSE])
         /\ deletion' = flags
         /\ UNCHANGED removed
    ELSE /\ deletion' = {}
         /\ c' = IF "DeletedFromServer" \in flags THEN Started(k, "resetLocally") ELSE k
         /\ removed' = ("ToBeDeletedFromClient" \in flags)

\* A disconnection with an unanswered deletion request may make QXmppRegistrationManager take the
\* account for deleted (comment of deleteAccountFromClientAndServer()).
Disconnected ==
    LET k == [c EXCEPT !.state = "Disconnected", !.closing = FALSE,
                       !.retrying = c.autoReconnect /\ ~c.closing] IN
    /\ ~removed
    /\ \/ c.closing /\ UNCHANGED failures
       \/ c.state = "Connected" /\ ~c.closing /\ failures < MaxFailures /\ failures' = failures + 1
    /\ request' = "none"
    /\ \E flags \in {deletion} \cup (IF request = "none" THEN {} ELSE {{"DeletedFromServer"}}) :
          HandleDisconnected(k, flags)
    /\ UNCHANGED <<timers, registered, enabled, asked, requests>>

\* An attempt fails: before a stream is opened, which only changes the state, or by a stream that
\* is closed again, as for a wrong password or an unknown account.
ConnectingFailed ==
    LET k == [c EXCEPT !.state = "Disconnected", !.retrying = c.autoReconnect] IN
    /\ ~removed
    /\ c.state = "Connecting" /\ ~c.closing
    /\ \/ failures < MaxFailures /\ failures' = failures + 1
       \/ ~registered /\ UNCHANGED failures
    /\ \/ registered /\ c' = k /\ UNCHANGED <<deletion, removed>>
       \/ HandleDisconnected(k, deletion)
    /\ UNCHANGED <<request, timers, registered, enabled, asked, requests>>

\* QXmpp's reconnection timer.
Reconnect ==
    /\ ~removed
    /\ c.retrying /\ c.state = "Disconnected"
    /\ c' = AttemptBegun(c)
    /\ UNCHANGED <<deletion, request, timers, registered, removed, enabled, asked, requests, failures>>

-----------------------------------------------------------------------------
(* Deletion from the server.                                               *)

ServerHandlesRequest ==
    /\ ~removed
    /\ request = "sent"
    /\ \/ request' = "done" /\ registered' = FALSE
       \/ request' = "refused" /\ UNCHANGED registered
    /\ UNCHANGED <<c, deletion, timers, removed, enabled, asked, requests, failures>>

\* handleAccountDeletedFromServer(); the stream is closed afterwards.
AccountDeleted ==
    /\ ~removed
    /\ request = "done" /\ c.state = "Connected"
    /\ request' = "none"
    /\ deletion' = {"DeletedFromServer"}
    /\ c' = DisconnectFromServer(c)
    /\ UNCHANGED <<timers, registered, removed, enabled, asked, requests, failures>>

\* handleAccountDeletionFromServerFailed()
AccountDeletionFailed ==
    /\ ~removed
    /\ request = "refused" /\ c.state = "Connected"
    /\ request' = "none"
    /\ deletion' = {}
    /\ asked' = "nothing"
    /\ c' = IF "ClientDisconnectedBeforeDeletionFromServer" \in deletion THEN LogOut(c) ELSE c
    /\ UNCHANGED <<timers, registered, removed, enabled, requests, failures>>

\* Fault: the client waits for an answer as long as it takes.
DeletionTimeoutIgnored ==
    /\ ~removed
    /\ timers > 0
    /\ timers' = timers - 1
    /\ UNCHANGED <<c, deletion, request, registered, removed, enabled, asked, requests, failures>>

DeletionTimeout ==
    /\ ~removed
    /\ timers > 0
    /\ timers' = timers - 1
    /\ c' = DisconnectFromServer(c)
    /\ UNCHANGED <<deletion, request, registered, removed, enabled, asked, requests, failures>>

-----------------------------------------------------------------------------
Next ==
    \/ Enable \/ Disable \/ LogInAgain
    \/ \E kind \in {"client", "clientAndServer"} : Delete(kind)
    \/ LoadFinished \/ SetUpFinished \/ UnloadFinished \/ ResetFinished \/ ResetLocallyFinished
    \/ Connected \/ Disconnected \/ ConnectingFailed \/ Reconnect
    \/ ServerHandlesRequest \/ AccountDeleted \/ AccountDeletionFailed \/ DeletionTimeout

Spec == Init /\ [][Next]_vars

\* Fairness: asynchronous operations finish, an attempt to connect ends, a closed stream is
\* reported, and timers fire.  A server need not answer a deletion request.
Fairness ==
    /\ WF_vars(LoadFinished) /\ WF_vars(SetUpFinished) /\ WF_vars(UnloadFinished)
    /\ WF_vars(ResetFinished) /\ WF_vars(ResetLocallyFinished)
    /\ WF_vars(Connected \/ ConnectingFailed)
    /\ WF_vars(c.closing /\ Disconnected)
    /\ WF_vars(Reconnect)
    /\ WF_vars(DeletionTimeout)

FairSpec == Spec /\ Fairness

-----------------------------------------------------------------------------
(* Properties.                                                             *)

\* Local data is only removed on a request of the user that the server did not refuse: neither
\* the timeout of a refused request nor a later logout removes it (handleDisconnected()).
RemovedOnlyOnRequest == removed => asked # "nothing"

\* A requested deletion is remembered until it is done or refused, over failed attempts, lost
\* connections and the disconnection of a reconnection (m_deletionStates).
DeletionRemembered ==
    asked # "nothing" /\ ~removed => deletion # {} \/ c.running["resetLocally"] > 0

\* m_isReconnecting is only set during the connection it is to replace: no later disconnection
\* is taken for the first half of a reconnection.
ReconnectingOnlyWhileConnected == c.isReconnecting => c.state = "Connected"

\* The state of the client, and what it knows of a deletion of its account.
SessionInv == TypeOK /\ ReconnectingOnlyWhileConnected
DeletionInv == RemovedOnlyOnRequest /\ DeletionRemembered

\* A logout that has to wait for an attempt to connect is made up for after that attempt, and one
\* that began ends the connection, whatever is asked for meanwhile (ClientController::logOut()).
LogOutCompletes ==
    /\ c.isDisconnecting /\ c.state = "Connecting"
         ~> c.closing \/ c.running["unload"] > 0 \/ c.state = "Disconnected" \/ removed
    /\ c.running["unload"] > 0 ~> c.state # "Connected" \/ removed

\* An account that the server deleted is removed from the client, although the server may never
\* answer (ACCOUNT_DELETION_TIMEOUT) and the connection may be lost before the answer.
DeletionCompletes == ~registered ~> removed

\* A disabled account starts no attempt to connect, unless it is to be deleted.  It does: logOut()
\* does nothing while the client is disconnected, and neither stops a login whose OMEMO data is
\* being loaded nor QXmpp's reconnection timer.
DisabledStaysOffline ==
    [][c.state = "Disconnected" /\ c'.state = "Connecting" => enabled \/ deletion # {}]_vars

\* An attempt to connect is only followed by a logout that was asked for during that attempt.
\* It is not: m_isDisconnecting outlives an attempt that fails.
LogOutOnlyIfAskedFor ==
    c.isDisconnecting /\ c.state = "Connecting" => c.logOutDuringAttempt

\* An account to be deleted from client and server is not removed from the client before it was
\* deleted from the server.  It is if the connection for the deletion cannot be established or
\* is lost: handleDisconnected() only looks at ToBeDeletedFromClient.
RemovedAfterServer == removed /\ asked = "clientAndServer" => ~registered

=============================================================================
