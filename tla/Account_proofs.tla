--------------------------- MODULE Account_proofs ---------------------------
(***************************************************************************)
(* Proofs about an account for every number of operations and failures.    *)
(*                                                                         *)
(* Session: its local data is only removed on request, and a reconnection  *)
(* is only pending during the connection it replaces.                      *)
(*                                                                         *)
(* MessageHistory, for any number of messages and any size of a page: the  *)
(* remembered ID never goes back, and only the four named events hide      *)
(* messages.                                                               *)
(***************************************************************************)
EXTENDS Session, MessageHistory, TLAPS

-----------------------------------------------------------------------------
(* The session and its deletion (Session).                                 *)

\* What the operations of the client leave alone: removals of local data that are under way, and
\* a pending reconnection while the client is not connected.
Reconnects(k) == k.isReconnecting => k.state = "Connected"

LEMMA StartedFacts ==
    ASSUME NEW k \in Clients, NEW op \in Operations
    PROVE  /\ Started(k, op) \in Clients
           /\ Reconnects(k) => Reconnects(Started(k, op))
           /\ op # "resetLocally" => Started(k, op).running["resetLocally"] = k.running["resetLocally"]
  BY DEF Started, Clients, Reconnects, Operations

LEMMA FinishedFacts ==
    ASSUME NEW k \in Clients, NEW op \in Operations, k.running[op] > 0
    PROVE  /\ Finished(k, op) \in Clients
           /\ Reconnects(k) => Reconnects(Finished(k, op))
           /\ op # "resetLocally" => Finished(k, op).running["resetLocally"] = k.running["resetLocally"]
  BY DEF Finished, Clients, Reconnects, Operations

LEMMA DisconnectFacts ==
    ASSUME NEW k \in Clients
    PROVE  /\ DisconnectFromServer(k) \in Clients
           /\ Reconnects(k) => Reconnects(DisconnectFromServer(k))
           /\ DisconnectFromServer(k).running = k.running
  BY DEF DisconnectFromServer, Clients, Reconnects

LEMMA LogOutFacts ==
    ASSUME NEW k \in Clients
    PROVE  /\ LogOut(k) \in Clients
           /\ Reconnects(k) => Reconnects(LogOut(k))
           /\ LogOut(k).running["resetLocally"] = k.running["resetLocally"]
  <1>1. CASE k.state = "Disconnected"
    BY <1>1 DEF LogOut
  <1>2. CASE k.state = "Connecting"
    BY <1>2 DEF LogOut, Clients, Reconnects
  <1>3. CASE k.state = "Connected"
    <2>1. "unload" \in Operations /\ "unload" # "resetLocally"
      BY DEF Operations
    <2>2. LogOut(k) = IF k.isLoaded THEN Started(k, "unload") ELSE DisconnectFromServer(k)
      BY <1>3 DEF LogOut
    <2> QED
      BY <2>1, <2>2, StartedFacts, DisconnectFacts
  <1> QED
    BY <1>1, <1>2, <1>3 DEF Clients

LEMMA ConnectFacts ==
    ASSUME NEW k \in Clients
    PROVE  /\ ConnectToServer(k) \in Clients
           /\ Reconnects(k) => Reconnects(ConnectToServer(k))
           /\ ConnectToServer(k).running["resetLocally"] = k.running["resetLocally"]
  <1>1. CASE k.state = "Connecting"
    BY <1>1 DEF ConnectToServer
  <1>2. CASE k.state = "Connected"
    <2> DEFINE r == [k EXCEPT !.isReconnecting = TRUE]
    <2>1. r \in Clients /\ Reconnects(r) /\ r.running = k.running
      BY <1>2 DEF Clients, Reconnects
    <2>2. ConnectToServer(k) = LogOut(r)
      BY <1>2 DEF ConnectToServer
    <2> HIDE DEF r
    <2> QED
      BY <2>1, <2>2, LogOutFacts
  <1>3. CASE k.state = "Disconnected"
    BY <1>3 DEF ConnectToServer, AttemptBegun, Clients, Reconnects
  <1> QED
    BY <1>1, <1>2, <1>3 DEF Clients

LEMMA LogInFacts ==
    ASSUME NEW k \in Clients
    PROVE  /\ LogIn(k) \in Clients
           /\ Reconnects(k) => Reconnects(LogIn(k))
           /\ LogIn(k).running["resetLocally"] = k.running["resetLocally"]
  <1>1. "load" \in Operations /\ "load" # "resetLocally"
    BY DEF Operations
  <1> QED
    BY <1>1, StartedFacts, ConnectFacts DEF LogIn

-----------------------------------------------------------------------------
(* The inductive invariant.                                                *)

\* Whatever leads to the removal of local data was asked for; a removal that is under way is not
\* joined by another deletion.
RemovalRequested ==
    /\ removed => asked # "nothing"
    /\ deletion # {} => asked # "nothing"
    /\ request # "none" => asked # "nothing"
    /\ deletion = {"DeletedFromServer"} => request = "none"
    /\ c.running["resetLocally"] > 0 => asked # "nothing" /\ request = "none" /\ deletion = {}

IInv == TypeOK /\ Reconnects(c) /\ RemovalRequested /\ DeletionRemembered

LEMMA InitIInv == Init => IInv
  <1> SUFFICES ASSUME Init PROVE IInv
    OBVIOUS
  <1>1. PICK wasStored \in BOOLEAN :
          c = LogIn([state |-> "Disconnected", closing |-> FALSE, retrying |-> FALSE,
                     autoReconnect |-> FALSE, isDisconnecting |-> FALSE,
                     isReconnecting |-> FALSE, isLoaded |-> FALSE, isStored |-> wasStored,
                     supported |-> FALSE,
                     running |-> [op \in Operations |-> 0], logOutDuringAttempt |-> FALSE])
    BY DEF Init
  <1> DEFINE k == [state |-> "Disconnected", closing |-> FALSE, retrying |-> FALSE,
                   autoReconnect |-> FALSE, isDisconnecting |-> FALSE,
                   isReconnecting |-> FALSE, isLoaded |-> FALSE, isStored |-> wasStored,
                   supported |-> FALSE,
                   running |-> [op \in Operations |-> 0], logOutDuringAttempt |-> FALSE]
  <1>2. k \in Clients /\ Reconnects(k) /\ k.running["resetLocally"] = 0
    BY DEF Clients, Reconnects, Operations
  <1>3. c = LogIn(k)
    BY <1>1
  <1> HIDE DEF k
  <1>4. c \in Clients /\ Reconnects(c) /\ c.running["resetLocally"] = 0
    BY <1>2, <1>3, LogInFacts
  <1>5. /\ deletion = {} /\ request = "none" /\ ~removed /\ asked = "nothing"
        /\ timers \in Nat /\ requests \in Nat /\ failures \in Nat
        /\ {registered, removed, enabled} \subseteq BOOLEAN
    BY DEF Init
  <1>6. {} \in DeletionStates
    BY DEF DeletionStates
  <1> QED
    BY <1>4, <1>5, <1>6 DEF IInv, TypeOK, RemovalRequested, DeletionRemembered

\* A step that only changes the client keeps the invariant if it keeps the client's part of it.
LEMMA ClientStep ==
    ASSUME IInv, c' \in Clients, Reconnects(c)',
           c'.running["resetLocally"] = c.running["resetLocally"],
           UNCHANGED <<deletion, request, registered, removed, asked>>,
           timers' \in Nat, enabled' \in BOOLEAN, requests' \in Nat, failures' \in Nat
    PROVE  IInv'
  BY DEF IInv, TypeOK, RemovalRequested, DeletionRemembered

\* Starting a deletion that was asked for.
LEMMA DeletionStep ==
    ASSUME IInv, NEW k \in Clients, Reconnects(k), k.running["resetLocally"] = 0,
           DeletedFromClient(k) \/ DeletedFromClientAndServer(k),
           asked' # "nothing", asked' \in {"nothing", "client", "clientAndServer"},
           UNCHANGED <<registered, removed>>,
           enabled' \in BOOLEAN, requests' \in Nat, failures' \in Nat
    PROVE  IInv'
  <1>1. "reset" \in Operations /\ "reset" # "resetLocally"
    BY DEF Operations
  <1>2. CASE DeletedFromClient(k)
    <2>1. c' \in Clients /\ Reconnects(c') /\ c'.running["resetLocally"] = 0
      BY <1>1, <1>2, StartedFacts, LogInFacts DEF DeletedFromClient
    <2> QED
      BY <1>2, <2>1 DEF DeletedFromClient, IInv, TypeOK, RemovalRequested, DeletionRemembered, DeletionStates, Reconnects
  <1>3. CASE DeletedFromClientAndServer(k)
    <2>1. c' \in Clients /\ Reconnects(c') /\ c'.running["resetLocally"] = 0
      BY <1>3, LogInFacts DEF DeletedFromClientAndServer
    <2>2. /\ deletion' \in DeletionStates \ {{}, {"DeletedFromServer"}}
          /\ request' \in {request, "sent"} /\ timers' \in Nat
      BY <1>3 DEF DeletedFromClientAndServer, DeletionStates, IInv, TypeOK
    <2> QED
      BY <2>1, <2>2 DEF IInv, TypeOK, RemovalRequested, DeletionRemembered, Reconnects
  <1> QED
    BY <1>2, <1>3

\* The end of a connection or attempt, with the deletion requested so far.
LEMMA DisconnectedStep ==
    ASSUME IInv, ~removed, NEW k \in Clients, k.state = "Disconnected",
           k.running["resetLocally"] = c.running["resetLocally"],
           NEW flags \in DeletionStates,
           flags # {} => asked # "nothing" /\ k.running["resetLocally"] = 0,
           flags = {} => deletion = {},
           HandleDisconnected(k, flags), request' \in {"none", request},
           flags = {"DeletedFromServer"} => request' = "none",
           UNCHANGED <<timers, registered, enabled, asked, requests>>, failures' \in Nat
    PROVE  IInv'
  <1> DEFINE r == [k EXCEPT !.isReconnecting = FALSE]
  <1>1. r \in Clients /\ Reconnects(r) /\ r.running = k.running
    BY DEF Clients, Reconnects
  <1>2. CASE k.isReconnecting
    <2>1. c' = ConnectToServer(r) /\ deletion' = flags /\ removed' = removed
      BY <1>2 DEF HandleDisconnected
    <2> HIDE DEF r
    <2>2. c' \in Clients /\ Reconnects(c') /\ c'.running["resetLocally"] = c.running["resetLocally"]
      BY <1>1, <2>1, ConnectFacts
    <2> QED
      BY <2>1, <2>2 DEF IInv, TypeOK, RemovalRequested, DeletionRemembered, Reconnects
  <1>3. CASE ~k.isReconnecting
    <2>1. /\ deletion' = {}
          /\ c' = IF "DeletedFromServer" \in flags THEN Started(k, "resetLocally") ELSE k
          /\ removed' = ("ToBeDeletedFromClient" \in flags)
      BY <1>3 DEF HandleDisconnected
    <2>2. {} \in DeletionStates
      BY DEF DeletionStates
    <2>3. Reconnects(k)
      BY <1>3 DEF Reconnects
    <2>4. CASE "DeletedFromServer" \in flags
      <3>1. flags = {"DeletedFromServer"}
        BY <2>4 DEF DeletionStates
      <3>2. c' \in Clients /\ Reconnects(c')
        BY <2>1, <2>3, <2>4, StartedFacts DEF Operations
      <3>3. c'.running["resetLocally"] > 0
        BY <2>1, <2>4 DEF Started, Clients, Operations
      <3> QED
        BY <2>1, <2>2, <3>1, <3>2, <3>3 DEF IInv, TypeOK, RemovalRequested, DeletionRemembered, Reconnects
    <2>5. CASE "DeletedFromServer" \notin flags
      <3>1. "ToBeDeletedFromClient" \in flags \/ flags = {}
        BY <2>5 DEF DeletionStates
      <3>2. c' = k /\ removed' \in BOOLEAN
        BY <2>1, <2>5
      <3> QED
        BY <2>1, <2>2, <2>3, <3>1, <3>2 DEF IInv, TypeOK, RemovalRequested, DeletionRemembered, Reconnects
    <2> QED
      BY <2>4, <2>5
  <1> QED
    BY <1>2, <1>3

-----------------------------------------------------------------------------
LEMMA NextIInv == IInv /\ [Next]_vars => IInv'
  <1> SUFFICES ASSUME IInv, [Next]_vars PROVE IInv'
    OBVIOUS
  <1> USE DEF IInv
  <1>0. c \in Clients /\ Reconnects(c) /\ c.running \in [Operations -> Nat]
    BY DEF TypeOK, Clients
  <1>1. /\ {"load", "setUp", "unload", "reset", "resetLocally"} \subseteq Operations
        /\ requests + 1 \in Nat /\ failures + 1 \in Nat /\ requests \in Nat /\ failures \in Nat
        /\ timers \in Nat /\ enabled \in BOOLEAN /\ removed \in BOOLEAN
        /\ deletion \in DeletionStates
    BY DEF Operations, TypeOK
  <1>2. CASE Enable
    BY <1>0, <1>1, <1>2, LogInFacts, ClientStep DEF Enable, UserAsks
  <1>3. CASE Disable
    BY <1>0, <1>1, <1>3, LogOutFacts, ClientStep DEF Disable, UserAsks
  <1>4. CASE LogInAgain
    BY <1>0, <1>1, <1>4, LogInFacts, ClientStep DEF LogInAgain, UserAsks
  <1>5. ASSUME NEW kind \in {"client", "clientAndServer"}, Delete(kind)
        PROVE IInv'
    <2>1. DeletedFromClient(c) \/ DeletedFromClientAndServer(c)
      BY <1>5 DEF Delete
    <2>2. c.running["resetLocally"] = 0
      BY <1>0, <1>1, <1>5 DEF Delete, RemovalRequested
    <2>3. /\ asked' = kind /\ requests' \in Nat /\ UNCHANGED <<registered, removed, enabled, failures>>
      BY <1>1, <1>5 DEF Delete, UserAsks
    <2>4. asked' # "nothing" /\ asked' \in {"nothing", "client", "clientAndServer"}
      BY <2>3
    <2> QED
      BY <1>0, <1>1, <2>1, <2>2, <2>3, <2>4, DeletionStep
  <1>6. CASE LoadFinished
    <2> DEFINE k == [Finished(c, "load") EXCEPT !.isLoaded = c.isStored]
    <2>1. /\ Finished(c, "load") \in Clients /\ Reconnects(Finished(c, "load"))
          /\ Finished(c, "load").running["resetLocally"] = c.running["resetLocally"]
      BY <1>0, <1>1, <1>6, FinishedFacts DEF LoadFinished, Running
    <2>2. k \in Clients /\ Reconnects(k) /\ k.running["resetLocally"] = c.running["resetLocally"]
      BY <1>0, <2>1 DEF Clients, Reconnects
    <2>3. c' = ConnectToServer(k)
      BY <1>6 DEF LoadFinished
    <2> HIDE DEF k
    <2> QED
      BY <1>1, <1>6, <2>2, <2>3, ConnectFacts, ClientStep DEF LoadFinished
  <1>7. CASE SetUpFinished
    <2>1. /\ Finished(c, "setUp") \in Clients /\ Reconnects(Finished(c, "setUp"))
          /\ Finished(c, "setUp").running["resetLocally"] = c.running["resetLocally"]
      BY <1>0, <1>1, <1>7, FinishedFacts DEF SetUpFinished, Running
    <2>2. c' \in Clients /\ Reconnects(c') /\ c'.running["resetLocally"] = c.running["resetLocally"]
      BY <1>7, <2>1 DEF SetUpFinished, Clients, Reconnects
    <2> QED
      BY <1>1, <1>7, <2>2, ClientStep DEF SetUpFinished
  <1>8. CASE UnloadFinished
    <2> DEFINE k == [Finished(c, "unload") EXCEPT !.isLoaded = FALSE]
    <2>1. /\ Finished(c, "unload") \in Clients /\ Reconnects(Finished(c, "unload"))
          /\ Finished(c, "unload").running["resetLocally"] = c.running["resetLocally"]
      BY <1>0, <1>1, <1>8, FinishedFacts DEF UnloadFinished, Running
    <2>2. k \in Clients /\ Reconnects(k) /\ k.running["resetLocally"] = c.running["resetLocally"]
      BY <1>0, <2>1 DEF Clients, Reconnects
    <2>3. c' = DisconnectFromServer(k)
      BY <1>8 DEF UnloadFinished
    <2> HIDE DEF k
    <2> QED
      BY <1>1, <1>8, <2>2, <2>3, DisconnectFacts, ClientStep DEF UnloadFinished
  <1>9. CASE ResetFinished
    <2> DEFINE k == [Finished(c, "reset") EXCEPT !.isLoaded = FALSE, !.isStored = FALSE]
    <2>1. /\ Finished(c, "reset") \in Clients /\ Reconnects(Finished(c, "reset"))
          /\ Finished(c, "reset").running["resetLocally"] = c.running["resetLocally"]
      BY <1>0, <1>1, <1>9, FinishedFacts DEF ResetFinished, Running
    <2>2. k \in Clients /\ Reconnects(k) /\ k.running["resetLocally"] = c.running["resetLocally"]
      BY <1>0, <2>1 DEF Clients, Reconnects
    <2>3. c' = LogOut(k)
      BY <1>9 DEF ResetFinished
    <2> HIDE DEF k
    <2> QED
      BY <1>1, <1>9, <2>2, <2>3, LogOutFacts, ClientStep DEF ResetFinished
  <1>10. CASE ResetLocallyFinished
    <2> DEFINE f == Finished(c, "resetLocally")
    <2>1. f \in Clients /\ Reconnects(f)
      BY <1>0, <1>1, <1>10, FinishedFacts DEF ResetLocallyFinished, Running
    <2>2. c' \in Clients /\ Reconnects(c')
      <3>1. c' = [f EXCEPT !.isLoaded = FALSE, !.isStored = FALSE]
        BY <1>10 DEF ResetLocallyFinished
      <3> HIDE DEF f
      <3> QED
        BY <2>1, <3>1 DEF Clients, Reconnects
    <2>3. asked # "nothing" /\ request = "none" /\ deletion = {}
      BY <1>10 DEF ResetLocallyFinished, Running, RemovalRequested
    <2>4. removed' = TRUE /\ UNCHANGED <<deletion, request, timers, registered, enabled, asked, requests, failures>>
      BY <1>10 DEF ResetLocallyFinished
    <2> QED
      BY <2>2, <2>3, <2>4 DEF TypeOK, RemovalRequested, DeletionRemembered, Reconnects
  <1>11. CASE Connected
    <2> DEFINE k == [c EXCEPT !.state = "Connected", !.supported = TRUE]
    <2>1. k \in Clients /\ Reconnects(k) /\ k.running = c.running
      BY <1>0 DEF Clients, Reconnects
    <2>2. UNCHANGED <<registered, removed, enabled, asked, requests, failures>>
      BY <1>11 DEF Connected
    <2>3. CASE "ToBeDeletedFromClient" \in deletion
      <3>1. deletion # {} /\ asked # "nothing" /\ c.running["resetLocally"] = 0
        BY <1>0, <1>1, <2>3 DEF RemovalRequested
      <3>2. DeletedFromClient(k) \/ DeletedFromClientAndServer(k)
        BY <1>11, <2>3 DEF Connected
      <3>3. asked' # "nothing" /\ asked' \in {"nothing", "client", "clientAndServer"}
        BY <2>2, <3>1 DEF TypeOK
      <3> HIDE DEF k
      <3> QED
        BY <1>1, <2>1, <2>2, <3>1, <3>2, <3>3, DeletionStep
    <2>4. CASE "ToBeDeletedFromClient" \notin deletion
      <3>1. /\ c' = IF c.isDisconnecting THEN LogOut([k EXCEPT !.isDisconnecting = FALSE])
                    ELSE IF c.isLoaded THEN [k EXCEPT !.autoReconnect = TRUE]
                    ELSE Started([k EXCEPT !.autoReconnect = TRUE], "setUp")
            /\ UNCHANGED <<deletion, request, timers>>
        BY <1>11, <2>4 DEF Connected
      <3> DEFINE k1 == [k EXCEPT !.isDisconnecting = FALSE]
                 k2 == [k EXCEPT !.autoReconnect = TRUE]
      <3> HIDE DEF k
      <3>2. /\ k1 \in Clients /\ Reconnects(k1) /\ k1.running = c.running
            /\ k2 \in Clients /\ Reconnects(k2) /\ k2.running = c.running
        BY <2>1 DEF Clients, Reconnects
      <3> HIDE DEF k1, k2
      <3>3. c' = LogOut(k1) \/ c' = k2 \/ c' = Started(k2, "setUp")
        BY <3>1 DEF k1, k2
      <3>4. c' \in Clients /\ Reconnects(c') /\ c'.running["resetLocally"] = c.running["resetLocally"]
        <4>1. CASE c' = LogOut(k1)
          BY <3>2, <4>1, LogOutFacts
        <4>2. CASE c' = Started(k2, "setUp")
          BY <1>1, <3>2, <4>2, StartedFacts
        <4> QED
          BY <3>2, <3>3, <4>1, <4>2
      <3> QED
        BY <1>1, <2>2, <3>1, <3>4, ClientStep
    <2> QED
      BY <2>3, <2>4
  <1>12. CASE Disconnected
    <2> DEFINE k == [c EXCEPT !.state = "Disconnected", !.closing = FALSE,
                              !.retrying = c.autoReconnect /\ ~c.closing]
    <2>1. k \in Clients /\ k.state = "Disconnected" /\ k.running = c.running
      BY <1>0 DEF Clients
    <2>2. /\ ~removed /\ request' = "none" /\ failures' \in Nat
          /\ UNCHANGED <<timers, registered, enabled, asked, requests>>
      BY <1>1, <1>12 DEF Disconnected
    <2>3. PICK flags \in {deletion} \cup (IF request = "none" THEN {} ELSE {{"DeletedFromServer"}}) :
            HandleDisconnected(k, flags)
      BY <1>12 DEF Disconnected
    <2>4. /\ flags \in DeletionStates /\ (flags = {} => deletion = {})
          /\ flags # {} => asked # "nothing" /\ c.running["resetLocally"] = 0
      BY <1>0, <1>1, <2>3 DEF DeletionStates, RemovalRequested
    <2> HIDE DEF k
    <2> QED
      BY <2>1, <2>2, <2>3, <2>4, DisconnectedStep
  <1>13. CASE ConnectingFailed
    <2> DEFINE k == [c EXCEPT !.state = "Disconnected", !.retrying = c.autoReconnect]
    <2>1. /\ k \in Clients /\ k.state = "Disconnected" /\ k.running = c.running
          /\ (c.state = "Connecting" => Reconnects(k))
      BY <1>0 DEF Clients, Reconnects
    <2>2. /\ ~removed /\ c.state = "Connecting" /\ request' = request /\ failures' \in Nat
          /\ UNCHANGED <<timers, registered, enabled, asked, requests>>
      BY <1>1, <1>13 DEF ConnectingFailed
    <2>3. CASE c' = k /\ UNCHANGED <<deletion, removed>>
      <3> HIDE DEF k
      <3> QED
        BY <1>1, <2>1, <2>2, <2>3, ClientStep
    <2>4. CASE HandleDisconnected(k, deletion)
      <3>1. /\ deletion = {"DeletedFromServer"} => request' = "none"
            /\ deletion # {} => asked # "nothing" /\ c.running["resetLocally"] = 0
        BY <1>0, <1>1, <2>2 DEF RemovalRequested
      <3> HIDE DEF k
      <3> QED
        BY <1>1, <2>1, <2>2, <2>4, <3>1, DisconnectedStep
    <2> QED
      BY <1>13, <2>3, <2>4 DEF ConnectingFailed
  <1>14. CASE Reconnect
    <2>1. c' \in Clients /\ Reconnects(c') /\ c'.running = c.running
      BY <1>0, <1>14 DEF Reconnect, AttemptBegun, Clients, Reconnects
    <2> QED
      BY <1>1, <1>14, <2>1, ClientStep DEF Reconnect
  <1>15. CASE ServerHandlesRequest
    BY <1>15 DEF ServerHandlesRequest, TypeOK, RemovalRequested, DeletionRemembered
  <1>16. CASE AccountDeleted
    <2>1. c' \in Clients /\ Reconnects(c') /\ c'.running = c.running
      BY <1>0, <1>16, DisconnectFacts DEF AccountDeleted
    <2>2. asked # "nothing" /\ c.running["resetLocally"] = 0
      BY <1>0, <1>1, <1>16 DEF AccountDeleted, RemovalRequested
    <2>3. deletion' \in DeletionStates \ {{}}
      BY <1>16 DEF AccountDeleted, DeletionStates
    <2>4. request' = "none" /\ UNCHANGED <<timers, registered, removed, enabled, asked, requests, failures>>
      BY <1>16 DEF AccountDeleted
    <2> QED
      BY <2>1, <2>2, <2>3, <2>4 DEF TypeOK, RemovalRequested, DeletionRemembered, Reconnects
  <1>17. CASE AccountDeletionFailed
    <2>1. /\ c' \in Clients /\ Reconnects(c')
          /\ c'.running["resetLocally"] = c.running["resetLocally"]
      BY <1>0, <1>17, LogOutFacts DEF AccountDeletionFailed
    <2>2. c.running["resetLocally"] = 0
      BY <1>0, <1>1, <1>17 DEF AccountDeletionFailed, RemovalRequested
    <2>3. /\ ~removed /\ request' = "none" /\ deletion' = {} /\ asked' = "nothing"
          /\ UNCHANGED <<timers, registered, removed, enabled, requests, failures>>
      BY <1>17 DEF AccountDeletionFailed
    <2>4. deletion' \in DeletionStates
      BY <2>3 DEF DeletionStates
    <2> QED
      BY <2>1, <2>2, <2>3, <2>4 DEF TypeOK, RemovalRequested, DeletionRemembered, Reconnects
  <1>18. CASE DeletionTimeout
    <2>1. timers' \in Nat
      BY <1>1, <1>18 DEF DeletionTimeout
    <2> QED
      BY <1>0, <1>1, <1>18, <2>1, DisconnectFacts, ClientStep DEF DeletionTimeout
  <1>19. CASE UNCHANGED vars
    BY <1>19 DEF vars, TypeOK, RemovalRequested, DeletionRemembered, Reconnects
  <1> QED
    BY <1>2, <1>3, <1>4, <1>5, <1>6, <1>7, <1>8, <1>9, <1>10, <1>11, <1>12, <1>13, <1>14, <1>15,
       <1>16, <1>17, <1>18, <1>19 DEF Next

-----------------------------------------------------------------------------
(* Theorems.                                                               *)

\* Every reachable state is typed and combines the flags of a deletion only as
\* RegistrationController does, for any number of operations and failures.
THEOREM TypeCorrect == Spec => []TypeOK
  <1>1. IInv => TypeOK
    BY DEF IInv
  <1> QED
    BY <1>1, InitIInv, NextIInv, PTL DEF Spec

\* The account data is only removed on a request of the user that the server did not refuse
\* (removeLocalAccountData() and the paths of handleDisconnected() that lead to it).
THEOREM RemovalCorrect == Spec => []RemovedOnlyOnRequest
  <1>1. IInv => RemovedOnlyOnRequest
    BY DEF IInv, RemovalRequested, RemovedOnlyOnRequest
  <1> QED
    BY <1>1, InitIInv, NextIInv, PTL DEF Spec

\* A requested deletion is remembered in m_deletionStates, or carried out, until it is refused:
\* failed attempts, lost connections and reconnections do not lose it.
THEOREM RememberedCorrect == Spec => []DeletionRemembered
  <1>1. IInv => DeletionRemembered
    BY DEF IInv
  <1> QED
    BY <1>1, InitIInv, NextIInv, PTL DEF Spec

\* No disconnection after the one that a reconnection asked for is taken for its first half
\* (m_isReconnecting of connectToServer() and onDisconnected()).
THEOREM ReconnectingCorrect == Spec => []ReconnectingOnlyWhileConnected
  <1>1. IInv => ReconnectingOnlyWhileConnected
    BY DEF IInv, Reconnects, ReconnectingOnlyWhileConnected
  <1> QED
    BY <1>1, InitIInv, NextIInv, PTL DEF Spec

\* The client's state is typed and knows of no reconnection without a connection.
THEOREM SessionCorrect == Spec => []SessionInv
  <1>1. TypeOK /\ ReconnectingOnlyWhileConnected => SessionInv
    BY DEF SessionInv
  <1> QED
    BY <1>1, TypeCorrect, ReconnectingCorrect, PTL

\* A deletion is carried out only if it was asked for, and is never forgotten.
THEOREM DeletionCorrect == Spec => []DeletionInv
  <1>1. RemovedOnlyOnRequest /\ DeletionRemembered => DeletionInv
    BY DEF DeletionInv
  <1> QED
    BY <1>1, RemovalCorrect, RememberedCorrect, PTL

-----------------------------------------------------------------------------
(* The history of messages (MessageHistory).                               *)

Jobs == [kind : {"read", "latest", "store"}, message : Nat]
Stanzas == [kind : {"message", "page"}, messages : Seq(Nat)]

\* Types of the queues, whose messages are archived.
QueuesOK ==
    /\ jobs \in Seq(Jobs)
    /\ \A i \in 1..Len(jobs) : jobs[i].kind # "read" => jobs[i].message \in 1..archived
    /\ stream \in Seq(Stanzas)
    /\ \A i \in 1..Len(stream) : \A k \in 1..Len(stream[i].messages) :
          stream[i].messages[k] \in 1..archived

Stores(q) == {q[i].message : i \in {k \in 1..Len(q) : q[k].kind = "store"}}

\* While nothing has disturbed the history, the messages that are stored or about to be are the
\* first h ones; the remembered ID is one of them, and what the client still receives over the
\* current stream follows them.
Following(h) ==
    /\ stored \cup Stores(jobs) = 1..h
    /\ latest <= h
    /\ \A i \in 1..Len(jobs) : jobs[i].kind = "latest" => jobs[i].message <= h
    /\ session \in {"offline", "loggedIn", "reading"} => stream = <<>>
    /\ session = "requested" =>
          \/ stream = <<>>
          \/ stream = <<[kind |-> "page", messages |-> [i \in 1..(archived - after) |-> after + i]]>>
    /\ session = "caughtUp" =>
          /\ archived = h + Len(stream)
          /\ \A i \in 1..Len(stream) : stream[i] = [kind |-> "message", messages |-> <<h + i>>]

HistoryIInv ==
    /\ HistoryTypes
    /\ QueuesOK
    /\ after <= latest
    /\ disturbed = {} => \E h \in 0..archived : Following(h)

\* The bounds and the archive are numbers.
LEMMA Numbers ==
    /\ MaxMessages \in Nat \ {0} /\ MaxDisconnections \in Nat /\ MaxErrors \in Nat /\ MaxCrashes \in Nat
    /\ PageSize \in Nat \ {0}
    /\ HistoryTypes => /\ archived \in Nat /\ latest \in Nat /\ after \in Nat
                 /\ disconnections \in Nat /\ errors \in Nat /\ crashes \in Nat
  <1>1. /\ MaxMessages \in Nat \ {0} /\ MaxDisconnections \in Nat /\ MaxErrors \in Nat /\ MaxCrashes \in Nat
        /\ PageSize \in Nat \ {0}
    BY HistoryAssumption
  <1>2. ASSUME HistoryTypes
        PROVE  /\ archived \in 0..MaxMessages /\ latest \in 0..archived /\ after \in 0..archived
               /\ disconnections \in 0..MaxDisconnections /\ errors \in 0..MaxErrors
               /\ crashes \in 0..MaxCrashes
    BY <1>2 DEF HistoryTypes
  <1>3. ASSUME HistoryTypes
        PROVE  /\ archived \in Nat /\ latest \in Nat /\ after \in Nat
               /\ disconnections \in Nat /\ errors \in Nat /\ crashes \in Nat
    BY <1>1, <1>2, <1>3
  <1> QED
    BY <1>1, <1>3

-----------------------------------------------------------------------------
(* The queue of the database thread.                                       *)

\* Handling messages enqueues two jobs for each, one of which stores it.
LEMMA HandlingFacts ==
    ASSUME NEW messages \in Seq(Nat)
    PROVE  /\ Handling(messages) \in Seq(Jobs)
           /\ \A i \in 1..Len(Handling(messages)) :
                 \E k \in 1..Len(messages) : Handling(messages)[i].message = messages[k]
           /\ Stores(Handling(messages)) = {messages[k] : k \in 1..Len(messages)}
  <1> DEFINE n == Len(messages)
             q == Handling(messages)
  <1>1. n \in Nat /\ \A k \in 1..n : messages[k] \in Nat
    OBVIOUS
  <1>2. \A i \in 1..(2 * n) : (i + 1) \div 2 \in 1..n
    BY <1>1
  <1>3. q = [i \in 1..(2 * n) |->
               [kind |-> IF i % 2 = 1 THEN "latest" ELSE "store", message |-> messages[(i + 1) \div 2]]]
    BY DEF Handling
  <1>4. \A i \in 1..(2 * n) : q[i] \in Jobs
    BY <1>1, <1>2, <1>3 DEF Jobs
  <1>5. q \in Seq(Jobs) /\ Len(q) = 2 * n
    BY <1>1, <1>3, <1>4
  <1>6. \A i \in 1..Len(q) : \E k \in 1..n : q[i].message = messages[k]
    BY <1>2, <1>3, <1>5
  <1>7. ASSUME NEW k \in 1..n PROVE messages[k] \in Stores(q)
    <2>1. 2 * k \in 1..(2 * n) /\ (2 * k) % 2 = 0 /\ (2 * k + 1) \div 2 = k
      BY <1>1
    <2>2. q[2 * k] = [kind |-> "store", message |-> messages[k]]
      BY <2>1, <1>3
    <2> QED
      BY <2>1, <2>2, <1>5 DEF Stores
  <1>8. Stores(q) \subseteq {messages[k] : k \in 1..n}
    BY <1>6 DEF Stores
  <1> QED
    BY <1>5, <1>6, <1>7, <1>8

\* Enqueued jobs store their messages as well.
LEMMA StoresConcat ==
    ASSUME NEW p \in Seq(Jobs), NEW q \in Seq(Jobs)
    PROVE  Stores(p \o q) = Stores(p) \cup Stores(q)
  <1> DEFINE r == p \o q
  <1>1. /\ Len(r) = Len(p) + Len(q) /\ Len(p) \in Nat /\ Len(q) \in Nat
        /\ \A i \in 1..Len(p) : r[i] = p[i]
        /\ \A i \in 1..Len(q) : r[Len(p) + i] = q[i]
    OBVIOUS
  <1>2. \A i \in 1..Len(r) : i \in 1..Len(p) \/ (i - Len(p) \in 1..Len(q) /\ r[i] = q[i - Len(p)])
    BY <1>1
  <1>4. \A i \in 1..Len(p) : i \in 1..Len(r)
    BY <1>1
  <1>5. \A i \in 1..Len(q) : Len(p) + i \in 1..Len(r)
    BY <1>1
  <1> HIDE DEF r
  <1>3. Stores(r) \subseteq Stores(p) \cup Stores(q)
    <2> SUFFICES ASSUME NEW m \in Stores(r) PROVE m \in Stores(p) \cup Stores(q)
      OBVIOUS
    <2>1. PICK i \in 1..Len(r) : r[i].kind = "store" /\ m = r[i].message
      BY DEF Stores
    <2>2. CASE i \in 1..Len(p)
      <3>1. p[i].kind = "store" /\ m = p[i].message
        BY <1>1, <2>1, <2>2
      <3> QED
        BY <2>2, <3>1 DEF Stores
    <2>3. CASE i \notin 1..Len(p)
      <3>1. i - Len(p) \in 1..Len(q) /\ q[i - Len(p)].kind = "store" /\ m = q[i - Len(p)].message
        BY <1>2, <2>1, <2>3
      <3> QED
        BY <3>1 DEF Stores
    <2> QED
      BY <2>2, <2>3
  <1>6. Stores(p) \subseteq Stores(r)
    BY <1>1, <1>4 DEF Stores
  <1>7. Stores(q) \subseteq Stores(r)
    BY <1>1, <1>5 DEF Stores
  <1> QED
    BY <1>3, <1>6, <1>7 DEF r

\* A job that is run leaves what the others store.
LEMMA StoresTail ==
    ASSUME NEW q \in Seq(Jobs), q # <<>>
    PROVE  /\ Head(q) \in Jobs /\ Tail(q) \in Seq(Jobs)
           /\ \A i \in 1..Len(Tail(q)) : i + 1 \in 1..Len(q) /\ Tail(q)[i] = q[i + 1]
           /\ Stores(q) = Stores(Tail(q)) \cup
                             (IF Head(q).kind = "store" THEN {Head(q).message} ELSE {})
  <1>1. /\ Len(q) \in Nat \ {0} /\ Len(Tail(q)) = Len(q) - 1 /\ Head(q) = q[1]
        /\ \A i \in 1..Len(Tail(q)) : i + 1 \in 1..Len(q) /\ Tail(q)[i] = q[i + 1]
    OBVIOUS
  <1>2. \A i \in 1..Len(q) : i = 1 \/ (i - 1 \in 1..Len(Tail(q)) /\ q[i] = Tail(q)[i - 1])
    BY <1>1
  <1>3. Stores(q) \subseteq Stores(Tail(q)) \cup (IF Head(q).kind = "store" THEN {Head(q).message} ELSE {})
    BY <1>1, <1>2 DEF Stores
  <1>4. Stores(Tail(q)) \subseteq Stores(q)
    BY <1>1 DEF Stores
  <1>5. Head(q).kind = "store" => Head(q).message \in Stores(q)
    BY <1>1 DEF Stores
  <1>6. Head(q) \in Jobs /\ Tail(q) \in Seq(Jobs)
    OBVIOUS
  <1> QED
    BY <1>1, <1>3, <1>4, <1>5, <1>6

\* What is on the stream or read from the database is a sequence of archived messages.
LEMMA PageFacts ==
    ASSUME archived \in Nat, NEW a \in 0..archived
    PROVE  /\ Page(a) \in Seq(Nat)
           /\ \A k \in 1..Len(Page(a)) : Page(a)[k] \in 1..archived
           /\ ~(a + PageSize < archived) => Page(a) = [i \in 1..(archived - a) |-> a + i]
  <1> DEFINE end == IF a + PageSize < archived THEN a + PageSize ELSE archived
  <1>1. end - a \in Nat /\ end \in a..archived
    BY HistoryAssumption
  <1>2. Page(a) = [i \in 1..(end - a) |-> a + i]
    BY DEF Page
  <1>3. \A i \in 1..(end - a) : a + i \in 1..archived
    BY <1>1
  <1> QED
    BY <1>1, <1>2, <1>3

-----------------------------------------------------------------------------
(* The server, the connection and the process.                             *)

LEMMA HistoryInitCorrect == HistoryInit => HistoryIInv
  <1> SUFFICES ASSUME HistoryInit PROVE HistoryIInv
    OBVIOUS
  <1>1. Stores(jobs) = {}
    BY DEF HistoryInit, Stores
  <1>2. Following(archived)
    BY <1>1 DEF HistoryInit, Following
  <1>3. HistoryTypes
    <2>1. archived \in Nat /\ archived \in 0..1 /\ latest = archived /\ after = 0
      BY DEF HistoryInit
    <2>2. archived \in 0..MaxMessages
      BY <2>1, Numbers
    <2> QED
      BY <2>1, <2>2, Numbers DEF HistoryInit, HistoryTypes
  <1>4. QueuesOK
    BY DEF HistoryInit, QueuesOK
  <1> QED
    BY <1>2, <1>3, <1>4 DEF HistoryInit, HistoryIInv, HistoryTypes

LEMMA MessageArrivesCorrect == HistoryIInv /\ MessageArrives => HistoryIInv'
  <1> SUFFICES ASSUME HistoryIInv, MessageArrives PROVE HistoryIInv'
    OBVIOUS
  <1>1. HistoryTypes /\ QueuesOK
    BY DEF HistoryIInv
  <1>2. HistoryTypes'
    <2>1. /\ archived \in Nat /\ archived' = archived + 1 /\ archived' <= MaxMessages
          /\ latest \in 0..archived /\ after \in 0..archived /\ stored \subseteq 1..archived
      <3>1. /\ archived \in 0..MaxMessages /\ latest \in 0..archived /\ after \in 0..archived
            /\ stored \subseteq 1..archived
        BY <1>1 DEF HistoryTypes
      <3>2. archived < MaxMessages /\ archived' = archived + 1
        BY DEF MessageArrives
      <3> QED
        BY <3>1, <3>2, Numbers
    <2>2. /\ archived' \in 0..MaxMessages /\ latest \in 0..archived' /\ after \in 0..archived'
          /\ stored \subseteq 1..archived'
      BY <2>1, Numbers
    <2>3. \A i \in DOMAIN jobs : jobs[i].kind = "read" \/ jobs[i].message \in 1..archived'
      BY <1>1, <2>1 DEF QueuesOK
    <2> QED
      BY <1>1, <2>2, <2>3 DEF HistoryTypes, MessageArrives, counters
  <1>3. QueuesOK'
    <2>1. archived \in Nat /\ archived' = archived + 1
      BY <1>1, Numbers DEF MessageArrives
    <2>2. \A i \in 1..Len(jobs) : jobs[i].kind # "read" => jobs[i].message \in 1..archived'
      BY <1>1, <2>1 DEF QueuesOK
    <2>3. CASE session = "offline"
      BY <1>1, <2>1, <2>2, <2>3 DEF QueuesOK, MessageArrives
    <2>4. CASE session # "offline"
      <3> DEFINE stanza == [kind |-> "message", messages |-> <<archived'>>]
      <3>1. stanza \in Stanzas /\ \A k \in 1..Len(stanza.messages) : stanza.messages[k] \in 1..archived'
        BY <2>1 DEF Stanzas
      <3>2. stream' = Append(stream, stanza) /\ jobs' = jobs
        BY <2>4 DEF MessageArrives
      <3> HIDE DEF stanza
      <3>3. stream' \in Seq(Stanzas) /\ Len(stream') = Len(stream) + 1 /\ Len(stream) \in Nat
        BY <1>1, <3>1, <3>2 DEF QueuesOK
      <3>4. \A i \in 1..Len(stream') :
               (i \in 1..Len(stream) /\ stream'[i] = stream[i]) \/ stream'[i] = stanza
        BY <1>1, <3>1, <3>2, <3>3 DEF QueuesOK
      <3>5. \A i \in 1..Len(stream) : \A k \in 1..Len(stream[i].messages) :
               stream[i].messages[k] \in 1..archived'
        BY <1>1, <2>1 DEF QueuesOK
      <3> QED
        BY <1>1, <2>2, <3>1, <3>2, <3>3, <3>4, <3>5 DEF QueuesOK
    <2> QED
      BY <2>3, <2>4
  <1>4. ASSUME disturbed' = {} PROVE \E h \in 0..archived' : Following(h)'
    <2>1. disturbed = {} /\ session \in {"offline", "caughtUp"}
      BY <1>1, <1>4 DEF MessageArrives, HistoryTypes
    <2>2. PICK h \in 0..archived : Following(h)
      BY <2>1 DEF HistoryIInv
    <2>3. archived \in Nat /\ archived' = archived + 1
      BY <1>1, Numbers DEF HistoryTypes, MessageArrives
    <2>4. CASE session = "offline"
      BY <2>2, <2>3, <2>4 DEF Following, MessageArrives
    <2>5. CASE session = "caughtUp"
      <3>1. /\ stream' = Append(stream, [kind |-> "message", messages |-> <<archived'>>])
            /\ stream \in Seq(Stanzas) /\ Len(stream) \in Nat
        BY <1>1, <2>5 DEF MessageArrives, QueuesOK
      <3>2. archived = h + Len(stream)
        BY <2>2, <2>5 DEF Following
      <3>3. Len(stream') = Len(stream) + 1 /\ archived' = h + Len(stream')
        BY <2>3, <3>1, <3>2
      <3>4. \A i \in 1..Len(stream') :
               stream'[i] = [kind |-> "message", messages |-> <<h + i>>]
        <4> SUFFICES ASSUME NEW i \in 1..Len(stream')
                     PROVE  stream'[i] = [kind |-> "message", messages |-> <<h + i>>]
          OBVIOUS
        <4>1. CASE i \in 1..Len(stream)
          BY <2>2, <2>5, <3>1, <4>1 DEF Following
        <4>2. CASE i = Len(stream')
          BY <3>1, <3>3, <4>2
        <4> QED
          BY <3>1, <3>3, <4>1, <4>2
      <3> QED
        BY <2>2, <2>3, <2>5, <3>3, <3>4 DEF Following, MessageArrives
    <2> QED
      BY <2>1, <2>3, <2>4, <2>5
  <1> QED
    BY <1>2, <1>3, <1>4 DEF HistoryIInv, MessageArrives

LEMMA AnswerCorrect == HistoryIInv /\ Answer => HistoryIInv'
  <1> SUFFICES ASSUME HistoryIInv, Answer PROVE HistoryIInv'
    OBVIOUS
  <1> DEFINE page == [kind |-> "page", messages |-> Page(after)]
  <1>1. HistoryTypes /\ QueuesOK
    BY DEF HistoryIInv
  <1>2. HistoryTypes'
    BY <1>1 DEF HistoryTypes, Answer, counters
  <1>3. archived \in Nat /\ after \in 0..archived /\ stream' = Append(stream, page)
    BY <1>1, Numbers DEF HistoryTypes, Answer
  <1>4. page \in Stanzas /\ \A k \in 1..Len(page.messages) : page.messages[k] \in 1..archived
    BY <1>3, PageFacts DEF Stanzas
  <1>5. QueuesOK'
    <2> HIDE DEF page
    <2> QED
      BY <1>1, <1>3, <1>4 DEF QueuesOK, Answer
  <1>6. ASSUME disturbed' = {} PROVE \E h \in 0..archived' : Following(h)'
    <2>1. disturbed = {} /\ ~(after + PageSize < archived)
      BY <1>1, <1>6 DEF Answer, HistoryTypes
    <2>2. PICK h \in 0..archived : Following(h)
      BY <2>1 DEF HistoryIInv
    <2>3. page.messages = [i \in 1..(archived - after) |-> after + i]
      BY <1>3, <2>1, PageFacts
    <2>4. stream = <<>>
      <3>1. session = "requested" /\ ~\E i \in DOMAIN stream : stream[i].kind = "page"
        BY DEF Answer, Requested
      <3> QED
        BY <2>2, <3>1 DEF Following
    <2>5. stream' = <<[kind |-> "page", messages |-> [i \in 1..(archived - after) |-> after + i]]>>
      BY <1>3, <2>3, <2>4
    <2>6. Following(h)'
      BY <2>2, <2>5 DEF Following, Answer, Requested
    <2> QED
      BY <2>6 DEF Answer
  <1> QED
    BY <1>2, <1>5, <1>6 DEF HistoryIInv, Answer

LEMMA LoginCorrect == HistoryIInv /\ Login => HistoryIInv'
  <1> SUFFICES ASSUME HistoryIInv, Login PROVE HistoryIInv'
    OBVIOUS
  <1>1. HistoryTypes' /\ QueuesOK' /\ after' <= latest'
    BY DEF HistoryIInv, HistoryTypes, QueuesOK, Login, counters
  <1>2. \A h : Following(h) => Following(h)'
    BY DEF Following, Login
  <1> QED
    BY <1>1, <1>2 DEF HistoryIInv, Login

LEMMA HistoryDisconnectCorrect == HistoryIInv /\ Disconnect => HistoryIInv'
  <1> SUFFICES ASSUME HistoryIInv, Disconnect PROVE HistoryIInv'
    OBVIOUS
  <1>1. HistoryTypes' /\ after' <= latest'
    <2>1. disconnections' \in 0..MaxDisconnections
      BY Numbers DEF HistoryIInv, Disconnect
    <2> QED
      BY <2>1 DEF HistoryIInv, HistoryTypes, Disconnect
  <1>3. QueuesOK'
    BY DEF HistoryIInv, QueuesOK, Disconnect
  <1>2. \A h : Following(h) => Following(h)'
    BY DEF Following, Disconnect
  <1> QED
    BY <1>1, <1>2, <1>3 DEF HistoryIInv, Disconnect

LEMMA FailureCorrect == HistoryIInv /\ (RetrievalFails \/ Crash) => HistoryIInv'
  <1> SUFFICES ASSUME HistoryIInv, RetrievalFails \/ Crash PROVE HistoryIInv'
    OBVIOUS
  <1>1. HistoryTypes' /\ after' <= latest'
    <2>1. errors' \in 0..MaxErrors /\ crashes' \in 0..MaxCrashes
      <3>1. errors \in 0..MaxErrors /\ crashes \in 0..MaxCrashes
        BY DEF HistoryIInv, HistoryTypes
      <3> QED
        BY <3>1, Numbers DEF RetrievalFails, Crash
    <2>2. \A i \in DOMAIN jobs' : jobs'[i].kind = "read" \/ jobs'[i].message \in 1..archived
      <3>1. jobs' = jobs \/ DOMAIN jobs' = {}
        BY DEF RetrievalFails, Crash
      <3> QED
        BY <3>1 DEF HistoryIInv, HistoryTypes
    <2> QED
      BY <2>1, <2>2 DEF HistoryIInv, HistoryTypes, RetrievalFails, Crash
  <1>3. QueuesOK'
    <2>1. <<>> \in Seq(Jobs) /\ <<>> \in Seq(Stanzas) /\ Len(<<>>) = 0
      OBVIOUS
    <2> QED
      <3>1. jobs' \in {jobs, <<>>} /\ stream' \in {stream, <<>>} /\ archived' = archived
        BY DEF RetrievalFails, Crash
      <3>2. 1..0 = {}
        OBVIOUS
      <3> QED
        BY <2>1, <3>1, <3>2 DEF HistoryIInv, QueuesOK
  <1>2. disturbed' # {}
    BY DEF RetrievalFails, Crash
  <1> QED
    BY <1>1, <1>2, <1>3 DEF HistoryIInv

-----------------------------------------------------------------------------
(* The threads of the client.                                              *)

LEMMA RosterReceivedCorrect == HistoryIInv /\ RosterReceived => HistoryIInv'
  <1> SUFFICES ASSUME HistoryIInv, RosterReceived PROVE HistoryIInv'
    OBVIOUS
  <1> DEFINE job == [kind |-> "read", message |-> 0]
  <1>1. HistoryTypes /\ QueuesOK /\ jobs' = Append(jobs, job) /\ job \in Jobs /\ jobs \in Seq(Jobs)
    BY DEF HistoryIInv, RosterReceived, Jobs, QueuesOK
  <1>2. /\ jobs' \in Seq(Jobs) /\ Len(jobs') = Len(jobs) + 1 /\ Len(jobs) \in Nat
        /\ \A i \in 1..Len(jobs') : jobs'[i].kind # "read" => i \in 1..Len(jobs) /\ jobs'[i] = jobs[i]
        /\ \A i \in 1..Len(jobs) : i \in 1..Len(jobs') /\ jobs'[i] = jobs[i]
    BY <1>1
  <1>3. HistoryTypes'
    <2>1. \A i \in DOMAIN jobs' : jobs'[i].kind = "read" \/ jobs'[i].message \in 1..archived
      BY <1>1, <1>2 DEF QueuesOK
    <2> QED
      BY <1>1, <2>1 DEF HistoryTypes, RosterReceived, counters
  <1>4. QueuesOK'
    BY <1>1, <1>2 DEF QueuesOK, RosterReceived
  <1>5. Stores(jobs') = Stores(jobs)
    BY <1>2 DEF Stores
  <1>6. \A h : Following(h) => Following(h)'
    BY <1>2, <1>5 DEF Following, RosterReceived
  <1> QED
    BY <1>3, <1>4, <1>6 DEF HistoryIInv, RosterReceived

LEMMA HistoryReceiveCorrect == HistoryIInv /\ Receive => HistoryIInv'
  <1> SUFFICES ASSUME HistoryIInv, Receive PROVE HistoryIInv'
    OBVIOUS
  <1> DEFINE new == Head(stream).messages
  <1>1. HistoryTypes /\ QueuesOK
    BY DEF HistoryIInv
  <1>2. /\ stream \in Seq(Stanzas) /\ stream # <<>> /\ Head(stream) = stream[1]
        /\ Len(stream) \in Nat \ {0} /\ Len(stream') = Len(stream) - 1 /\ stream' \in Seq(Stanzas)
        /\ \A i \in 1..Len(stream') : i + 1 \in 1..Len(stream) /\ stream'[i] = stream[i + 1]
    BY <1>1 DEF QueuesOK, Receive
  <1>3. new \in Seq(Nat) /\ \A k \in 1..Len(new) : new[k] \in 1..archived
    <2>1. Head(stream) \in Stanzas /\ 1 \in 1..Len(stream)
      BY <1>2
    <2> QED
      BY <1>1, <1>2, <2>1 DEF QueuesOK, Stanzas
  <1>4. /\ jobs \in Seq(Jobs) /\ Handling(new) \in Seq(Jobs)
        /\ jobs' = jobs \o Handling(new)
        /\ \A i \in 1..Len(Handling(new)) : Handling(new)[i].message \in 1..archived
        /\ Stores(Handling(new)) = {new[k] : k \in 1..Len(new)}
    BY <1>1, <1>3, HandlingFacts DEF QueuesOK, Receive
  <1> HIDE DEF new
  <1>5. /\ jobs' \in Seq(Jobs)
        /\ \A i \in 1..Len(jobs') :
              \/ i \in 1..Len(jobs) /\ jobs'[i] = jobs[i]
              \/ \E k \in 1..Len(Handling(new)) : jobs'[i] = Handling(new)[k]
    <2> DEFINE q == Handling(new)
    <2> HIDE DEF q
    <2>1. /\ Len(jobs) \in Nat /\ Len(q) \in Nat
          /\ jobs' \in Seq(Jobs) /\ Len(jobs') = Len(jobs) + Len(q)
          /\ \A i \in 1..Len(jobs) : jobs'[i] = jobs[i]
          /\ \A i \in 1..Len(q) : jobs'[Len(jobs) + i] = q[i]
      BY <1>4 DEF q
    <2>2. \A i \in 1..Len(jobs') : i \in 1..Len(jobs) \/ i - Len(jobs) \in 1..Len(q)
      BY <2>1
    <2>3. \A i \in 1..Len(q) : Len(jobs) + i - Len(jobs) = i
      BY <2>1
    <2>4. ASSUME NEW i \in 1..Len(jobs'), i - Len(jobs) \in 1..Len(q)
          PROVE  jobs'[i] = q[i - Len(jobs)]
      BY <2>1, <2>4
    <2> QED
      BY <2>1, <2>2, <2>4 DEF q
  <1>6. \A i \in 1..Len(jobs') : jobs'[i].kind # "read" => jobs'[i].message \in 1..archived
    BY <1>1, <1>4, <1>5 DEF QueuesOK
  <1>7. QueuesOK'
    <2>1. \A i \in 1..Len(stream') : \A k \in 1..Len(stream'[i].messages) :
             stream'[i].messages[k] \in 1..archived
      BY <1>1, <1>2 DEF QueuesOK
    <2> QED
      BY <1>2, <1>5, <1>6, <2>1 DEF QueuesOK, Receive
  <1>8. HistoryTypes'
    <2>1. \A i \in DOMAIN jobs' : jobs'[i].kind = "read" \/ jobs'[i].message \in 1..archived
      BY <1>5, <1>6
    <2> QED
      BY <1>1, <2>1 DEF HistoryTypes, Receive, counters
  <1>9. ASSUME disturbed' = {} PROVE \E h \in 0..archived' : Following(h)'
    <2>1. PICK h \in 0..archived : Following(h)
      BY <1>9 DEF HistoryIInv, Receive
    <2> archived \in Nat /\ latest \in Nat /\ after \in Nat
      BY <1>1, Numbers
    <2> after <= latest /\ latest <= h
      BY <2>1 DEF HistoryIInv, Following
    <2>2. archived \in Nat /\ h \in Nat /\ after \in 0..h /\ latest \in 0..h
      OBVIOUS
    <2>3. Stores(jobs') = Stores(jobs) \cup {new[k] : k \in 1..Len(new)}
      BY <1>4, StoresConcat
    <2>4. CASE session = "requested"
      <3> DEFINE page == [kind |-> "page", messages |-> [i \in 1..(archived - after) |-> after + i]]
      <3>0. stream = <<page>>
        BY <1>2, <2>1, <2>4 DEF Following
      <3>1. Head(stream) = page /\ session' = "caughtUp" /\ stream' = <<>>
        <4>1. Head(stream) = page /\ Tail(stream) = <<>> /\ page.kind = "page"
          BY <3>0
        <4> QED
          BY <4>1 DEF Receive
      <3>2. new = [i \in 1..(archived - after) |-> after + i] /\ Len(new) = archived - after
        BY <2>2, <3>1 DEF new
      <3>3. {new[k] : k \in 1..Len(new)} = (after + 1)..archived
        <4>1. \A m \in (after + 1)..archived : m - after \in 1..Len(new) /\ new[m - after] = m
          BY <2>2, <3>2
        <4> QED
          BY <2>2, <3>2, <4>1
      <3>4. stored' \cup Stores(jobs') = 1..archived
        BY <2>1, <2>2, <2>3, <3>3 DEF Following, Receive
      <3>6. \A i \in 1..Len(jobs') : jobs'[i].kind = "latest" => jobs'[i].message <= archived
        BY <1>6, <2>2
      <3>7. archived = archived + Len(stream') /\ 1..Len(stream') = {}
        BY <2>2, <3>1
      <3>5. Following(archived)'
        BY <1>1, <2>2, <3>1, <3>4, <3>6, <3>7 DEF Following, Receive
      <3> QED
        BY <2>2, <3>5 DEF Receive
    <2>5. CASE session = "caughtUp"
      <3>1. /\ stream[1] = [kind |-> "message", messages |-> <<h + 1>>]
            /\ session' = "caughtUp" /\ archived = h + Len(stream)
        BY <1>2, <2>1, <2>5 DEF Following, Receive
      <3>2. new = <<h + 1>>
        BY <1>2, <3>1 DEF new
      <3>3. Stores(jobs') = Stores(jobs) \cup {h + 1}
        BY <2>3, <3>2
      <3>4. stored' \cup Stores(jobs') = 1..(h + 1)
        BY <2>1, <2>2, <3>3 DEF Following, Receive
      <3>5. /\ archived = h + 1 + Len(stream') /\ h + 1 \in 0..archived
            /\ \A i \in 1..Len(stream') :
                  stream'[i] = [kind |-> "message", messages |-> <<h + 1 + i>>]
        <4>1. \A i \in 1..Len(stream') : h + (i + 1) = h + 1 + i
          BY <1>2, <2>2
        <4> QED
          BY <1>2, <2>1, <2>2, <2>5, <3>1, <4>1 DEF Following
      <3>6. \A i \in 1..Len(jobs') : jobs'[i].kind = "latest" => jobs'[i].message <= h + 1
        <4>1. \A i \in 1..Len(Handling(new)) : Handling(new)[i].message = h + 1
          <5>1. \A k \in 1..Len(new) : new[k] = h + 1
            BY <2>2, <3>2
          <5> QED
            BY <1>3, <5>1, HandlingFacts
        <4> QED
          <5>1. \A i \in 1..Len(jobs) : jobs[i].kind = "latest" => jobs[i].message <= h + 1
            <6>1. \A i \in 1..Len(jobs) : jobs[i] \in Jobs
              BY <1>4
            <6> QED
              BY <2>1, <2>2, <6>1 DEF Following, Jobs
          <5> QED
            BY <1>5, <2>2, <4>1, <5>1
      <3>7. Following(h + 1)'
        <4>1. latest' <= h + 1 /\ session' = "caughtUp"
          BY <2>2, <3>1 DEF Receive
        <4>2. archived' = h + 1 + Len(stream')
          BY <3>5 DEF Receive
        <4> QED
          BY <3>4, <3>5, <3>6, <4>1, <4>2 DEF Following
      <3> QED
        BY <3>5, <3>7 DEF Receive
    <2>6. session \in {"requested", "caughtUp"}
      BY <1>1, <1>2, <2>1 DEF Following, HistoryTypes
    <2> QED
      BY <2>4, <2>5, <2>6
  <1> QED
    BY <1>7, <1>8, <1>9 DEF HistoryIInv, Receive

\* What running a job leaves of the queue.
LEMMA RunsJobFacts ==
    ASSUME HistoryIInv, NEW kind, RunsJob(kind)
    PROVE  /\ QueuesOK' /\ Head(jobs) \in Jobs
           /\ kind # "read" => Head(jobs).message \in 1..archived
           /\ \A i \in DOMAIN jobs' : jobs'[i].kind = "read" \/ jobs'[i].message \in 1..archived
           /\ \A i \in 1..Len(jobs') : i + 1 \in 1..Len(jobs) /\ jobs'[i] = jobs[i + 1]
           /\ kind = "store" => Stores(jobs) = Stores(jobs') \cup {Head(jobs).message}
           /\ kind # "store" => Stores(jobs) = Stores(jobs')
  <1>1. /\ jobs \in Seq(Jobs) /\ jobs # <<>> /\ Head(jobs).kind = kind /\ jobs' = Tail(jobs)
        /\ \A i \in 1..Len(jobs) : jobs[i].kind # "read" => jobs[i].message \in 1..archived
        /\ archived' = archived /\ stream' = stream
    BY DEF HistoryIInv, QueuesOK, RunsJob
  <1>2. Head(jobs) = jobs[1] /\ 1 \in 1..Len(jobs)
    BY <1>1
  <1>3. /\ Head(jobs) \in Jobs /\ jobs' \in Seq(Jobs)
        /\ \A i \in 1..Len(jobs') : i + 1 \in 1..Len(jobs) /\ jobs'[i] = jobs[i + 1]
        /\ Stores(jobs) = Stores(jobs') \cup (IF kind = "store" THEN {Head(jobs).message} ELSE {})
    BY <1>1, StoresTail
  <1>4. \A i \in 1..Len(jobs') : jobs'[i].kind # "read" => jobs'[i].message \in 1..archived
    BY <1>1, <1>3
  <1>5. DOMAIN jobs' = 1..Len(jobs')
    BY <1>3
  <1>6. QueuesOK'
    BY <1>1, <1>3, <1>4 DEF HistoryIInv, QueuesOK
  <1> QED
    BY <1>1, <1>2, <1>3, <1>4, <1>5, <1>6

LEMMA UpdateLatestCorrect == HistoryIInv /\ UpdateLatest => HistoryIInv' /\ latest' >= latest
  <1> SUFFICES ASSUME HistoryIInv, UpdateLatest PROVE HistoryIInv' /\ latest' >= latest
    OBVIOUS
  <1> DEFINE m == Head(jobs).message
  <1>1. HistoryTypes /\ RunsJob("latest")
    BY DEF HistoryIInv, UpdateLatest
  <1>2. /\ QueuesOK' /\ m \in 1..archived
        /\ \A i \in DOMAIN jobs' : jobs'[i].kind = "read" \/ jobs'[i].message \in 1..archived
        /\ \A i \in 1..Len(jobs') : i + 1 \in 1..Len(jobs) /\ jobs'[i] = jobs[i + 1]
        /\ Stores(jobs) = Stores(jobs')
    BY <1>1, RunsJobFacts
  <1>3. latest' \in {latest, m} /\ latest' = IF latest <= m THEN m ELSE latest
    BY DEF UpdateLatest
  <1> HIDE DEF m
  <1>4. /\ archived \in Nat /\ latest \in Nat /\ m \in Nat
        /\ latest \in 0..archived /\ after \in Nat /\ after <= latest
    <2>1. latest \in 0..archived /\ after <= latest
      BY <1>1 DEF HistoryIInv, HistoryTypes
    <2>2. m \in Nat
      BY <1>2
    <2> QED
      BY <1>1, <2>1, <2>2, Numbers
  <1>5. latest' \in 0..archived /\ latest' >= latest /\ after <= latest'
    BY <1>2, <1>3, <1>4
  <1>6. HistoryTypes'
    BY <1>1, <1>2, <1>5 DEF HistoryTypes, UpdateLatest, RunsJob, counters
  <1>7. ASSUME NEW h \in 0..archived, Following(h) PROVE Following(h)'
    <2>1. m <= h
      <3>1. Head(jobs) = jobs[1] /\ 1 \in 1..Len(jobs) /\ Head(jobs).kind = "latest"
        BY <1>1 DEF RunsJob, HistoryIInv, QueuesOK
      <3> QED
        BY <1>7, <3>1 DEF Following, m
    <2>2. latest' <= h
      BY <1>3, <1>7, <2>1 DEF Following
    <2>3. /\ archived' = archived /\ stream' = stream /\ session' = session /\ after' = after
          /\ stored' = stored
      BY <1>1 DEF UpdateLatest, RunsJob
    <2> QED
      BY <1>2, <1>7, <2>2, <2>3 DEF Following
  <1> QED
    BY <1>1, <1>2, <1>5, <1>6, <1>7 DEF HistoryIInv, UpdateLatest, RunsJob

LEMMA StoreCorrect == HistoryIInv /\ Store => HistoryIInv'
  <1> SUFFICES ASSUME HistoryIInv, Store PROVE HistoryIInv'
    OBVIOUS
  <1> DEFINE m == Head(jobs).message
  <1>1. HistoryTypes /\ RunsJob("store") /\ stored' = stored \cup {m}
    BY DEF HistoryIInv, Store
  <1>2. /\ QueuesOK' /\ m \in 1..archived
        /\ \A i \in DOMAIN jobs' : jobs'[i].kind = "read" \/ jobs'[i].message \in 1..archived
        /\ \A i \in 1..Len(jobs') : i + 1 \in 1..Len(jobs) /\ jobs'[i] = jobs[i + 1]
        /\ Stores(jobs) = Stores(jobs') \cup {m}
    BY <1>1, RunsJobFacts
  <1> HIDE DEF m
  <1>3. HistoryTypes'
    BY <1>1, <1>2 DEF HistoryTypes, Store, RunsJob, counters
  <1>4. stored' \cup Stores(jobs') = stored \cup Stores(jobs)
    BY <1>1, <1>2
  <1>5. \A h : Following(h) => Following(h)'
    BY <1>1, <1>2, <1>4 DEF Following, Store, RunsJob
  <1> QED
    BY <1>1, <1>2, <1>3, <1>5 DEF HistoryIInv, Store, RunsJob

LEMMA ReadLatestCorrect == HistoryIInv /\ ReadLatest => HistoryIInv'
  <1> SUFFICES ASSUME HistoryIInv, ReadLatest PROVE HistoryIInv'
    OBVIOUS
  <1>1. HistoryTypes /\ RunsJob("read")
    BY DEF HistoryIInv, ReadLatest
  <1>2. /\ QueuesOK'
        /\ \A i \in DOMAIN jobs' : jobs'[i].kind = "read" \/ jobs'[i].message \in 1..archived
        /\ \A i \in 1..Len(jobs') : i + 1 \in 1..Len(jobs) /\ jobs'[i] = jobs[i + 1]
        /\ Stores(jobs) = Stores(jobs')
    BY <1>1, RunsJobFacts
  <1>3. latest \in Nat /\ after \in Nat /\ archived \in Nat
    BY <1>1, Numbers
  <1>4. /\ session' \in {session, "requested"} /\ after' \in 0..archived /\ after' <= latest
        /\ session' = session \/ session = "reading"
        /\ session' = session => after' = after
    <2>1. latest \in 0..archived /\ after \in 0..archived /\ after <= latest
      BY <1>1 DEF HistoryIInv, HistoryTypes
    <2> QED
      BY <1>3, <2>1 DEF ReadLatest
  <1>5. HistoryTypes'
    BY <1>1, <1>2, <1>4 DEF HistoryTypes, ReadLatest, RunsJob, counters
  <1>6. \A h : Following(h) => Following(h)'
    BY <1>1, <1>2, <1>4 DEF Following, ReadLatest, RunsJob
  <1> QED
    BY <1>1, <1>2, <1>4, <1>5, <1>6 DEF HistoryIInv, ReadLatest, RunsJob

-----------------------------------------------------------------------------
(* Theorems.                                                               *)

LEMMA HistoryNextCorrect == HistoryIInv /\ [HistoryNext]_historyVars => HistoryIInv'
  <1> SUFFICES ASSUME HistoryIInv, [HistoryNext]_historyVars PROVE HistoryIInv'
    OBVIOUS
  <1>1. CASE HistoryNext
    BY <1>1, MessageArrivesCorrect, AnswerCorrect, LoginCorrect, HistoryDisconnectCorrect, FailureCorrect,
       RosterReceivedCorrect, HistoryReceiveCorrect, UpdateLatestCorrect, StoreCorrect, ReadLatestCorrect
       DEF HistoryNext, Threads
  <1>2. CASE UNCHANGED historyVars
    <2>1. HistoryTypes' /\ QueuesOK' /\ after' <= latest' /\ \A h : Following(h) => Following(h)'
      BY <1>2 DEF HistoryIInv, HistoryTypes, QueuesOK, Following, historyVars, counters
    <2> QED
      BY <1>2, <2>1 DEF HistoryIInv, historyVars
  <1> QED
    BY <1>1, <1>2

\* Once the jobs are done, what they were to store is stored.
LEMMA FollowingHasNoGap ==
    ASSUME NEW h \in Nat, latest \in Nat, Following(h), jobs = <<>>
    PROVE  1..latest \subseteq stored
  <1>1. Stores(jobs) = {}
    BY DEF Stores
  <1> QED
    BY <1>1 DEF Following

\* For any number of messages, disconnections, failures and crashes, all variables have their types
\* and a message before the remembered one is missing only after one of the four named events
\* (MessageController::handleRosterReceived(), updateLatestMessage()).
THEOREM HistoryCorrect == HistorySpec => []HistoryInv
  <1>1. HistoryIInv => HistoryInv
    <2> SUFFICES ASSUME HistoryIInv PROVE HistoryTypes /\ NoGap
      BY DEF HistoryInv
    <2>1. HistoryTypes /\ archived \in Nat /\ latest \in Nat
      BY Numbers DEF HistoryIInv
    <2>2. ASSUME disturbed = {}, jobs = <<>> PROVE 1..latest \subseteq stored
      <3>1. PICK h \in 0..archived : Following(h)
        BY <2>2 DEF HistoryIInv
      <3>2. h \in Nat
        BY <2>1
      <3> QED
        BY <2>1, <2>2, <3>1, <3>2, FollowingHasNoGap
    <2> QED
      BY <2>1, <2>2 DEF NoGap, NothingSkipped
  <1> QED
    BY HistoryInitCorrect, HistoryNextCorrect, <1>1, PTL DEF HistorySpec

\* The remembered ID never goes back, whatever messages are received again or in another order
\* (MessageController::updateLatestMessage()).
THEOREM LatestCorrect == HistorySpec => LatestOnlyGrows
  <1>1. HistoryIInv /\ [HistoryNext]_historyVars => [latest' >= latest]_historyVars
    <2> SUFFICES ASSUME HistoryIInv, HistoryNext PROVE latest' >= latest
      OBVIOUS
    <2>1. CASE UpdateLatest
      BY <2>1, UpdateLatestCorrect
    <2>2. CASE ~UpdateLatest
      <3>1. latest' = latest
        BY <2>2 DEF HistoryNext, Threads, MessageArrives, Answer, Login, RosterReceived, Receive, Store,
           ReadLatest, RetrievalFails, Disconnect, Crash
      <3>2. latest \in Nat
        BY Numbers DEF HistoryIInv
      <3> QED
        BY <3>1, <3>2
    <2> QED
      BY <2>1, <2>2
  <1> QED
    BY HistoryInitCorrect, HistoryNextCorrect, <1>1, PTL DEF HistorySpec, LatestOnlyGrows

=============================================================================
