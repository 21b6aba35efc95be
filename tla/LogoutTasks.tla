----------------------------- MODULE LogoutTasks -----------------------------
(***************************************************************************)
(* What a logout waits for: the tasks that calls (CallController, Call)    *)
(* and the opened chat (ChatStateController) have registered with the      *)
(* connection of their account (Connection::logOut()).                     *)
(*                                                                         *)
(* All of it runs in the main thread.  A task is a promise.  Starting the  *)
(* promise posts an event; the event runs the task; the task or something  *)
(* later finishes the promise.  When all promises of a logout are          *)
(* finished, its continuation forgets all tasks and logs the client out,   *)
(* which is the module Session.                                            *)
(*                                                                         *)
(* A promise is named by its number.  The object of a call is deleted in   *)
(* the step that removes it from the list of calls.  Each contact calls or *)
(* is called once.                                                         *)
(***************************************************************************)
EXTENDS Naturals, Sequences, FiniteSets, SequencesExt

CONSTANTS
    Contacts,          \* the contacts the account has a call with
    NoCall,            \* the value of MainController::m_activeCall without a call
    MaxRequests,       \* bound: logouts, calls and opened chats together
    MaxConnections,    \* bound: connections
    MaxFailures        \* bound: calls that cannot be proposed

ASSUME ConstantsAssumption ==
    /\ IsFiniteSet(Contacts) /\ NoCall \notin Contacts
    /\ {MaxRequests, MaxConnections, MaxFailures} \subseteq Nat

VARIABLES
    connected,   \* the client is connected
    closing,     \* the client has been told to log out
    promises,    \* the state of each promise: "added", "started" or "finished"
    wrappers,    \* m_logoutTaskWrappers: the promises a logout starts
    posted,      \* the started promises whose tasks have not been run
    logouts,     \* the logouts that wait: their promises and the calls there were
    calls,       \* m_callWrappers and the state of each call
    active,      \* MainController::m_activeCall
    chat,        \* the opened chat and ChatStateController::m_chatStateResetPromise (0: null)
    forgotten,   \* history: promises that were removed without being finished
    crashed,     \* history: a task used the promise of a chat that is gone
    counts       \* the bounded events so far

vars == <<connected, closing, promises, wrappers, posted, logouts, calls, active, chat,
          forgotten, crashed, counts>>
tasks == <<promises, wrappers, posted, logouts, forgotten>>

\* listed: the call is in m_callWrappers.  proposing: the result of propose() is not known.  jmi and
\* call: m_jmi and m_call are set.  outgoing: proceeding creates the call.  ending: what was asked to
\* end, m_call or m_jmi.
Calls ==
    [listed : BOOLEAN, promise : 0..Len(promises), proposing : BOOLEAN, outgoing : BOOLEAN,
     jmi : BOOLEAN, call : BOOLEAN, ending : {"nothing", "call", "jmi"}]

NotCalled ==
    [listed |-> FALSE, promise |-> 0, proposing |-> FALSE, outgoing |-> FALSE,
     jmi |-> FALSE, call |-> FALSE, ending |-> "nothing"]

Init ==
    /\ connected = TRUE /\ closing = FALSE
    /\ promises = <<>> /\ wrappers = {} /\ posted = <<>> /\ logouts = <<>>
    /\ calls = [k \in Contacts |-> NotCalled]
    /\ active = NoCall
    /\ chat = [open |-> FALSE, promise |-> 0]
    /\ forgotten = {} /\ crashed = FALSE
    /\ counts = [requests |-> 0, connections |-> 1, failures |-> 0]

\* A call that is not in m_callWrappers anymore, remembered by its promise.
Removed(call) == [NotCalled EXCEPT !.promise = call.promise]

Listed == {k \in Contacts : calls[k].listed}

\* One of the bounded requests.
Request ==
    /\ counts.requests < MaxRequests
    /\ counts' = [counts EXCEPT !.requests = @ + 1]

-----------------------------------------------------------------------------
(* Connection                                                              *)

NextPromise == Len(promises) + 1

\* addLogoutTask(), called for the promise NextPromise.
AddTask(states, tasksBefore) ==
    /\ promises' = Append(states, "added")
    /\ wrappers' = tasksBefore \cup {NextPromise}

\* The promise p has been finished, or its task removed if it was not started, by the component it
\* belongs to.
Released(p) ==
    IF promises[p] = "added"
    THEN [states |-> promises, wrappers |-> wrappers \ {p}]
    ELSE [states |-> [promises EXCEPT ![p] = "finished"], wrappers |-> wrappers]

Release(p) == promises' = Released(p).states /\ wrappers' = Released(p).wrappers

\* What the continuation of a logout does.
ClearAndLogOut(remaining) ==
    /\ wrappers' = {}
    /\ forgotten' = forgotten \cup {p \in wrappers : promises[p] # "finished"}
    /\ logouts' = remaining
    /\ closing' = (connected \/ closing)

\* The sequences in which the promises S are started: in the order they were added.
StartOrders(S) == {q \in SetToSeqs(S) : \A i, j \in DOMAIN q : i < j => q[i] < q[j]}

\* logOut(): starting a promise again does nothing.
LogOut ==
    /\ Request
    /\ LET unstarted == {p \in wrappers : promises[p] = "added"}
       IN IF wrappers = {}
          THEN ClearAndLogOut(logouts) /\ UNCHANGED <<promises, posted>>
          ELSE /\ promises' = [p \in DOMAIN promises |->
                                  IF p \in unstarted THEN "started" ELSE promises[p]]
               /\ \E order \in StartOrders(unstarted) : posted' = posted \o order
               /\ logouts' = Append(logouts, [promises |-> wrappers,
                                 calls |-> {k \in Listed : calls[k].promise \in wrappers}])
               /\ UNCHANGED <<closing, wrappers, forgotten>>
    /\ UNCHANGED <<connected, calls, active, chat, crashed>>

\* The continuation of logOut().
TasksFinished ==
    /\ \E i \in DOMAIN logouts :
          /\ \A p \in logouts[i].promises : promises[p] = "finished"
          /\ ClearAndLogOut(RemoveAt(logouts, i))
    /\ UNCHANGED <<connected, promises, posted, calls, active, chat, crashed, counts>>

\* The client is disconnected by the logout or loses its connection.  Losing the last connection of
\* the model is not considered.
Disconnected ==
    /\ connected
    /\ closing \/ counts.connections < MaxConnections
    /\ connected' = FALSE /\ closing' = FALSE
    /\ UNCHANGED <<tasks, calls, active, chat, crashed, counts>>

ConnectedOnly ==
    /\ ~connected /\ counts.connections < MaxConnections
    /\ connected' = TRUE
    /\ counts' = [counts EXCEPT !.connections = @ + 1]
    /\ UNCHANGED <<closing, tasks, calls, active, chat, crashed>>

\* Connection::connected() and ChatStateController::addChatStateResetLogoutTaskOnConnected().
Connected ==
    /\ ~connected /\ counts.connections < MaxConnections
    /\ connected' = TRUE
    /\ counts' = [counts EXCEPT !.connections = @ + 1]
    /\ IF chat.open /\ chat.promise = 0
       THEN AddTask(promises, wrappers) /\ chat' = [chat EXCEPT !.promise = NextPromise]
       ELSE UNCHANGED <<promises, wrappers, chat>>
    /\ UNCHANGED <<closing, posted, logouts, calls, active, forgotten, crashed>>

-----------------------------------------------------------------------------
(* ChatStateController                                                     *)

\* resetPreviousChat() with the construction of the next chat's controller (ChatController).
OpenChat ==
    /\ Request
    /\ IF chat.promise = 0
       THEN AddTask(promises, wrappers)
       ELSE AddTask(Released(chat.promise).states, Released(chat.promise).wrappers)
    /\ chat' = [open |-> TRUE, promise |-> NextPromise]
    /\ UNCHANGED <<connected, closing, posted, logouts, calls, active, forgotten, crashed>>

\* ~ChatController()
CloseChat ==
    /\ chat.open
    /\ IF chat.promise = 0 THEN UNCHANGED <<promises, wrappers>> ELSE Release(chat.promise)
    /\ chat' = [open |-> FALSE, promise |-> 0]
    /\ UNCHANGED <<connected, closing, posted, logouts, calls, active, forgotten, crashed, counts>>

-----------------------------------------------------------------------------
(* Call and CallController                                                 *)

\* addCall()
AddCall(k, call) ==
    /\ calls[k] = NotCalled
    /\ Request
    /\ calls' = [calls EXCEPT ![k] = [call EXCEPT !.listed = TRUE, !.promise = NextPromise]]
    /\ AddTask(promises, wrappers)

\* startAudioCall(), startVideoCall(): the button opens the active call if there is one.
StartCall(k) ==
    /\ connected /\ active = NoCall
    /\ AddCall(k, [NotCalled EXCEPT !.proposing = TRUE, !.outgoing = TRUE])
    /\ active' = k
    /\ UNCHANGED <<connected, closing, posted, logouts, chat, forgotten, crashed>>

\* CallController::handleCallProposed()
CallProposed(k) ==
    /\ connected
    /\ AddCall(k, [NotCalled EXCEPT !.jmi = TRUE])
    /\ UNCHANGED <<connected, closing, posted, logouts, active, chat, forgotten, crashed>>

\* CallController::handleCallReceived(): the call of the contact is used if there is one.
CallReceived(k) ==
    /\ connected
    /\ \/ AddCall(k, [NotCalled EXCEPT !.call = TRUE])
       \/ /\ calls[k].listed /\ ~calls[k].call
          /\ calls' = [calls EXCEPT ![k].call = TRUE]
          /\ UNCHANGED <<promises, wrappers, counts>>
    /\ UNCHANGED <<connected, closing, posted, logouts, active, chat, forgotten, crashed>>

\* The continuation of propose() in Call::startCall(): the call stays if it cannot be proposed.
Proposed(k) ==
    /\ calls[k].listed /\ calls[k].proposing
    /\ \/ calls' = [calls EXCEPT ![k].proposing = FALSE, ![k].jmi = TRUE] /\ UNCHANGED counts
       \/ /\ counts.failures < MaxFailures
          /\ calls' = [calls EXCEPT ![k].proposing = FALSE]
          /\ counts' = [counts EXCEPT !.failures = @ + 1]
    /\ UNCHANGED <<connected, closing, tasks, active, chat, crashed>>

\* The signal proceeded of an outgoing call's proposal.
Proceeded(k) ==
    /\ connected /\ calls[k].listed /\ calls[k].jmi /\ calls[k].outgoing /\ ~calls[k].call
    /\ calls' = [calls EXCEPT ![k].call = TRUE]
    /\ UNCHANGED <<connected, closing, tasks, active, chat, crashed, counts>>

\* accept() by the notification of an incoming call
Accept(k) ==
    /\ calls[k].listed /\ ~calls[k].outgoing /\ active # k
    /\ active' = k
    /\ UNCHANGED <<connected, closing, tasks, calls, chat, crashed, counts>>

\* hangUp() and reject(): m_call is ended if there is one, otherwise m_jmi, otherwise nothing is done.
Ended(call) ==
    IF call.ending # "nothing" THEN call
    ELSE [call EXCEPT !.ending = IF call.call THEN "call" ELSE IF call.jmi THEN "jmi" ELSE "nothing"]

\* The user hangs up the active call, or rejects another one by its notification.
HangUpOrReject(k) ==
    /\ calls[k].listed /\ (active = k \/ ~calls[k].outgoing)
    /\ Ended(calls[k]) # calls[k]
    /\ calls' = [calls EXCEPT ![k] = Ended(@)]
    /\ UNCHANGED <<connected, closing, tasks, active, chat, crashed, counts>>

RemoveQuitCallKeepingTask(k) ==
    /\ active' = IF active = k THEN NoCall ELSE active
    /\ wrappers' = wrappers \ {calls[k].promise} /\ UNCHANGED promises
    /\ calls' = [calls EXCEPT ![k] = Removed(@)]

\* CallController::removeQuitCall()
RemoveQuitCall(k) ==
    /\ active' = IF active = k THEN NoCall ELSE active
    /\ Release(calls[k].promise)
    /\ calls' = [calls EXCEPT ![k] = Removed(@)]

\* The signal finished of m_call (setCall()), caused by either side.
CallFinished(k) ==
    /\ calls[k].listed /\ calls[k].call /\ calls[k].ending # "jmi"
    /\ IF calls[k].jmi
       THEN calls' = [calls EXCEPT ![k].ending = "jmi"] /\ UNCHANGED <<promises, wrappers, active>>
       ELSE RemoveQuitCall(k)
    /\ UNCHANGED <<connected, closing, posted, logouts, chat, forgotten, crashed, counts>>

\* The signal closed of m_jmi (setUpHandlingJmiClosed()), caused by either side.
JmiClosed(k) ==
    /\ calls[k].listed /\ calls[k].jmi
    /\ RemoveQuitCall(k)
    /\ UNCHANGED <<connected, closing, posted, logouts, chat, forgotten, crashed, counts>>

-----------------------------------------------------------------------------
(* The tasks                                                               *)

Finish(p) == promises' = [promises EXCEPT ![p] = "finished"]

\* A fault: a logout does not wait for the end of a call.
RemoveCallOnLogoutAtOnce(k) ==
    /\ calls' = [calls EXCEPT ![k] = IF active = k THEN Ended(@) ELSE Removed(@)]
    /\ IF calls[k].listed THEN Finish(calls[k].promise) ELSE UNCHANGED promises
    /\ UNCHANGED <<active, chat, crashed>>

\* CallController::removeCallOnLogout(), also run for a call that has quit meanwhile.
RemoveCallOnLogout(k) ==
    /\ IF active = k
       THEN calls' = [calls EXCEPT ![k] = Ended(@)] /\ UNCHANGED promises
       ELSE /\ calls' = [calls EXCEPT ![k] = Removed(@)]
            /\ IF calls[k].listed THEN Finish(calls[k].promise) ELSE UNCHANGED promises
    /\ UNCHANGED <<active, chat, crashed>>

\* The task of addChatStateResetLogoutTask(); the controller is deleted later.  It does not look
\* whether m_chatStateResetPromise was reset meanwhile.
ResetChatState(p) ==
    /\ IF chat.promise = p
       THEN Finish(p) /\ chat' = [chat EXCEPT !.promise = 0] /\ UNCHANGED crashed
       ELSE crashed' = TRUE /\ UNCHANGED <<promises, chat>>
    /\ UNCHANGED <<calls, active>>

\* The event of a started promise; it is not delivered once the task was forgotten.
RunTask ==
    /\ posted # <<>>
    /\ posted' = Tail(posted)
    /\ IF Head(posted) \in wrappers
       THEN IF \E k \in Contacts : calls[k].promise = Head(posted)
            THEN RemoveCallOnLogout(CHOOSE k \in Contacts : calls[k].promise = Head(posted))
            ELSE ResetChatState(Head(posted))
       ELSE UNCHANGED <<promises, calls, active, chat, crashed>>
    /\ UNCHANGED <<connected, closing, wrappers, logouts, forgotten, counts>>

-----------------------------------------------------------------------------

Next ==
    \/ LogOut \/ TasksFinished \/ RunTask
    \/ Connected \/ Disconnected
    \/ OpenChat \/ CloseChat
    \/ \E k \in Contacts :
          \/ StartCall(k) \/ CallProposed(k) \/ CallReceived(k)
          \/ Proposed(k) \/ Proceeded(k) \/ Accept(k) \/ HangUpOrReject(k)
          \/ CallFinished(k) \/ JmiClosed(k)

Spec == Init /\ [][Next]_vars

\* Fairness: the event loop runs, propose() has a result, and what is asked to end ends.
FairSpec ==
    /\ Spec
    /\ WF_vars(RunTask) /\ WF_vars(TasksFinished)
    /\ \A k \in Contacts :
          /\ WF_vars(Proposed(k))
          /\ WF_vars(calls[k].ending = "call" /\ CallFinished(k))
          /\ WF_vars(calls[k].ending = "jmi" /\ JmiClosed(k))

-----------------------------------------------------------------------------
(* Properties.                                                             *)

TypeOK ==
    /\ connected \in BOOLEAN /\ closing \in BOOLEAN /\ crashed \in BOOLEAN
    /\ promises \in Seq({"added", "started", "finished"})
    /\ wrappers \subseteq DOMAIN promises /\ forgotten \subseteq DOMAIN promises
    /\ ToSet(posted) \subseteq DOMAIN promises
    /\ \A i \in DOMAIN logouts :
          logouts[i].promises \subseteq DOMAIN promises /\ logouts[i].calls \subseteq Contacts
    /\ calls \in [Contacts -> Calls]
    /\ active \in Contacts \cup {NoCall}
    /\ chat.open \in BOOLEAN /\ chat.promise \in 0..Len(promises)

\* The client is not logged out before each call that existed when the logout began has ended
\* (Connection::logOut() and CallController::removeCallOnLogout()), whatever ends it.
CallsEndBeforeLogout ==
    [][\A i \in DOMAIN logouts :
          Len(logouts') < Len(logouts) /\ (\A j \in DOMAIN logouts' : logouts'[j] # logouts[i])
              => logouts[i].calls \cap Listed = {}]_vars

\* MainController::activeCall() is a call that still exists, in whatever order calls end, are accepted
\* and are removed by a logout.
ActiveCallExists == active # NoCall => calls[active].listed

\* While an account is connected, its next logout resets the chat state of the opened chat, over
\* changes of the chat, logouts and new connections (addChatStateResetLogoutTaskOnConnected()).
ChatTaskReady ==
    connected /\ ~closing /\ logouts = <<>> /\ chat.open /\ forgotten = {}
        => chat.promise \in wrappers /\ promises[chat.promise] = "added"

\* Types, the active call and the task of the chat.
TasksInv == TypeOK /\ ActiveCallExists /\ ChatTaskReady

\* A call that nothing ends although its task was run: it had neither m_call nor m_jmi.
Unended(k) ==
    /\ calls[k].listed /\ calls[k].ending = "nothing"
    /\ promises[calls[k].promise] = "started" /\ calls[k].promise \notin ToSet(posted)

\* A logout comes to its end, unless a call is not proposed yet or could not be proposed, or a task was
\* forgotten.
LogoutFinishes ==
    logouts # <<>> ~> logouts = <<>> \/ forgotten # {} \/ \E k \in Contacts : Unended(k)

\* A logout comes to its end.  It does not: hangUp() does nothing for a call without m_call and m_jmi.
LogoutAlwaysFinishes == forgotten = {} /\ logouts # <<>> ~> logouts = <<>>

\* No task is forgotten without having been run.  A task that is added while a logout waits is.
NothingForgotten == forgotten = {}

\* The task of a chat finds its promise.  It does not if the chat is changed between the start of the
\* promise and the event that runs the task.
NoCrash == ~crashed

=============================================================================
