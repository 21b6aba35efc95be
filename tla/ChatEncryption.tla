---------------------------- MODULE ChatEncryption ----------------------------
(***************************************************************************)
(* The encryption of the open chat: the data of OMEMO and of the trust     *)
(* management in the database (OmemoDb, TrustDb), the users of a group     *)
(* chat (GroupUsers), the chat the UI shows (ChatController) and the views *)
(* that are computed from the devices and keys of its users.               *)
(*                                                                         *)
(* All database calls are jobs of one thread, run in their order; results  *)
(* and signals return to the main thread in their order.  The main thread  *)
(* waits for the jobs here: it reads no table, so what a job does and      *)
(* returns depends on the jobs before it only, and its results may still   *)
(* be handled late.  The process may end between any two jobs.             *)
(*                                                                         *)
(* QXmpp's managers are modelled as far as they use the storages and are   *)
(* used by Kaidan: the devices they keep in memory, the signals they emit. *)
(*                                                                         *)
(* A device has one key, which is also its ID.  The queries that several   *)
(* views start for the same signal are one job: no job is queued between   *)
(* them and the main thread changes no table.                              *)
(***************************************************************************)
EXTENDS TrustDb, OmemoDb, GroupUsers, Sequences, SequencesExt, FiniteSetsExt

CONSTANTS
    Me,              \* the account
    Group,           \* a group chat; the other chats are those with users and oneself
    Contact,         \* the user whose keys are shown by the views of a direct chat
    NoChat,
    MaxSteps,        \* bound on opened chats, connections, restarts, changes of users, devices, keys
    MaxPending       \* bound on results that wait while the user, server or managers act

\* The protocol, the policy and the levels are those that Kaidan and QXmpp name.
ASSUME ChatAssumption ==
    /\ Me \in Accounts \cap Owners /\ Contact \in Owners \ {Me}
    /\ Group \notin Owners /\ NoChat \notin Owners \cup {Group} /\ NoJid \notin Owners
    /\ Encryptions # {} /\ Keys # {} /\ "Toakafa" \in Policies
    /\ {"AutomaticallyDistrusted", "ManuallyDistrusted", "AutomaticallyTrusted", "ManuallyTrusted",
        "Authenticated"} \subseteq Levels
    /\ MaxSteps \in Nat /\ MaxPending \in Nat

VARIABLES
    jobs, events,    \* queues of the database thread and of the main thread
    memory,          \* the manager's copy of the tables of OMEMO
    isLoaded,        \* m_isLoaded of OmemoController
    isReset,         \* reset() or resetLocally() was called: the account is being removed
    open,            \* m_jid of ChatController
    groupJids,       \* m_groupChatUserJids
    watched,         \* m_jids of the chat's EncryptionWatcher
    onConnected,     \* such calls that wait for the connection: sets of JIDs
    requests,        \* calls of initializeChat() and initializeAccount() that are not finished
    prepared,        \* users whose missing sessions were built since the chat was opened
    detailed,        \* whether the views of the chat's details are shown
    shown,           \* what each view shows
    connected,
    steps            \* number of such steps

chatVars == <<open, groupJids, watched, onConnected, requests, prepared>>
viewVars == <<detailed, shown>>
managerVars == <<memory, isLoaded, isReset>>
vars == <<tables, omemoTables, userRows, listed, jobs, events, managerVars, chatVars, viewVars,
          connected, steps>>

Others == Owners \ {Me}
Chats == Owners \cup {Group}
store == [account |-> Me, encryption |-> CHOOSE e \in Encryptions : TRUE]
Devices == Owners \X Keys

Watchers == {"account watcher", "chat watcher"}
Generators == {"account URI", "contact URI"}
Details == Generators \cup {"authenticated keys", "authenticatable keys", "key filter"}
Views == Watchers \cup Details

-----------------------------------------------------------------------------
(* What the views ask for and when.                                        *)

Jids(v) ==
    CASE v \in {"account watcher", "account URI", "authenticated keys"} -> {Me}
      [] v \in {"contact URI", "authenticatable keys"} -> {Contact}
      [] v = "chat watcher" -> watched
      [] v = "key filter" -> ListedJids

Shown(v) == IF v \in Watchers THEN open # NoChat ELSE detailed

OnKeys == Generators \cup {"authenticated keys"}
OnDevices == Views \ Generators

\* A fault: the views of devices are not updated if only the trust in a key changes.
OnDevicesOnly(keyJids, deviceJids) ==
    {v \in Views : Shown(v) /\ v \in OnDevices \ {"key filter"} /\ Jids(v) \cap deviceJids # {}}
    \cup {v \in Views : Shown(v) /\ v \in OnKeys /\ Jids(v) \cap keyJids # {}}

\* The views that are updated for keysChanged() and devicesChanged().
Notified(keyJids, deviceJids) ==
    {v \in Views : /\ Shown(v)
                   /\ \/ v \in OnKeys /\ Jids(v) \cap keyJids # {}
                      \/ v \in OnDevices /\ Jids(v) \cap deviceJids # {}}

\* update(), updateKeys() and updateJids(): the account's URI needs the own key first.
Query(jids) == IF DOMAIN jids = {} THEN <<>> ELSE <<[op |-> "query", jids |-> jids]>>
Queries(V) ==
    Query([v \in {w \in V : Jids(w) # {}} \ {"account URI"} |-> Jids(v)])
    \o IF "account URI" \in V THEN <<[op |-> "ownKey"]>> ELSE <<>>

Queued(s) == jobs' = jobs \o s

\* keys(): the levels of the keys of some users
KeysOfUsers(U) == [k \in KeysOf(store, U, {}) |-> keys[<<store, k>>]]

\* devices(): those of the devices D of some users with the levels a query returned
WithLevels(D, U, levels) ==
    [d \in {e \in D : e[1] \in U} |-> IF d \in DOMAIN levels THEN levels[d] ELSE Undecided]

Authenticatable == {"AutomaticallyDistrusted", "ManuallyDistrusted", "AutomaticallyTrusted",
                    "ManuallyTrusted"}
Usable == {"AutomaticallyTrusted", "ManuallyTrusted", "Authenticated"}
Distrusted == {"AutomaticallyDistrusted", "ManuallyDistrusted"}

With(devices, L) == {d \in DOMAIN devices : devices[d] \in L}

\* hasDistrustedDevices, hasUsableDevices, hasAuthenticatableDevices,
\* hasAuthenticatableDistrustedDevices
Flags(devices) ==
    <<With(devices, Distrusted) # {}, With(devices, Usable) # {},
      With(devices, Authenticatable) # {},
      Cardinality(With(devices, Authenticatable)) = Cardinality(With(devices, Distrusted))>>

\* The URI of a user contains the keys that were decided about.
UriKeys(levels) ==
    [k \in {d \in DOMAIN levels : levels[d] \in {"Authenticated", "ManuallyDistrusted"}} |->
        levels[k]]

AuthenticatedKeys(levels) == {k \in DOMAIN levels : levels[k] = "Authenticated"}

AuthenticatableKeys(devices) == With(devices, Levels \ {"Authenticated", Undecided})

\* Group chat users with keys that can be authenticated
FilteredJids(devices) == {d[1] : d \in With(devices, Authenticatable)}

\* What a view shows for the result of its query and the devices in memory.
ViewOf(v, D, U, levels) ==
    CASE v \in Watchers -> Flags(WithLevels(D, U, levels))
      [] v \in Generators -> UriKeys(levels)
      [] v = "authenticated keys" -> AuthenticatedKeys(levels)
      [] v = "authenticatable keys" -> AuthenticatableKeys(WithLevels(D, U, levels))
      [] v = "key filter" -> FilteredJids(WithLevels(D, U, levels))

\* Before its first update; the members of a watcher are not initialized.
Unset(flag) == [v \in Views |-> IF v \in Watchers THEN <<flag, flag, flag, flag>> ELSE {}]

-----------------------------------------------------------------------------
(* The database thread.                                                    *)

Answer(s) == events' = events \o s

\* The keys whose levels were changed are reported to the managers.
Modified(K) == <<[kind |-> "levels", keys |-> K]>>

TrustWork(job) ==
    /\ UNCHANGED <<omemoTables, userRows>>
    /\ \/ job.op = "addKeys" /\ AddKeys(job.store, job.owner, job.keys, job.level) /\ Answer(<<>>)
       \/ job.op = "removeKeys" /\ RemoveKeys(job.store, job.owners, job.keys) /\ Answer(<<>>)
       \/ /\ job.op = "setTrustLevel"
          /\ SetTrustLevel(job.store, job.keys, job.level)
          /\ Answer(Modified(Changed(job.store, job.keys, job.level)))
       \/ /\ job.op = "setTrustLevels"
          /\ SetTrustLevels(job.store, job.owners, job.old, job.new)
          /\ Answer(Modified(ChangedFrom(job.store, job.owners, job.old)))
       \/ /\ job.op = "addPostponed"
          /\ AddPostponed(job.store, job.sender, job.trusted, job.distrusted)
          /\ Answer(<<>>)
       \/ job.op = "removeMade" /\ RemoveMade(job.store, job.trusted, job.distrusted) /\ Answer(<<>>)
       \/ job.op = "setSecurityPolicy" /\ SetSecurityPolicy(job.store, job.policy) /\ Answer(<<>>)
       \/ job.op = "setOwnKey" /\ SetOwnKey(job.store, job.key) /\ Answer(<<>>)
       \/ job.op = "resetTrust" /\ ResetAll({job.store}) /\ Answer(<<>>)
       \/ job.op = "resetAccount" /\ ResetAll(StoresOf(job.account)) /\ Answer(<<>>)

OmemoWork(job) ==
    /\ UNCHANGED <<tables, userRows>>
    /\ Answer(<<>>)
    /\ \/ job.op = "setOwnDevice" /\ SetOwnDevice(Me, job.device)
       \/ job.op = "addSignedPreKeyPair" /\ AddSignedPreKeyPair(Me, job.id)
       \/ job.op = "removeSignedPreKeyPair" /\ RemoveSignedPreKeyPair(Me, job.id)
       \/ job.op = "addPreKeyPairs" /\ AddPreKeyPairs(Me, job.ids)
       \/ job.op = "removePreKeyPair" /\ RemovePreKeyPair(Me, job.id)
       \/ job.op = "addDevice" /\ AddDevice(Me, job.device[1], job.device[2], job.session)
       \/ job.op = "removeDevice" /\ RemoveDevice(Me, job.device[1], job.device[2])
       \/ job.op = "removeDevices" /\ RemoveDevices(Me, job.jid)
       \/ job.op = "resetOmemo" /\ ResetOmemo(Me)

UsersWork(job) ==
    /\ UNCHANGED <<tables, omemoTables>>
    /\ \E result \in CASE job.op = "received" -> Received(job.user)
                       [] job.op = "left" -> LeftGroup(job.user, job.hasMessage)
                       [] job.op = "sender" -> MessageSender(job.user)
                       [] job.op = "allowed or banned" -> AllowedOrBanned(job.user)
                       [] OTHER -> {} :
          userRows' = result.rows /\ Answer(result.signals)

\* Queries and calls that only report that the jobs before them are done.
ReadWork(job) ==
    /\ UNCHANGED <<tables, omemoTables, userRows>>
    /\ \/ job.op = "allData" /\ Answer(<<[kind |-> "loaded", data |-> AllData(Me)]>>)
       \/ job.op = "userJids" /\ Answer(<<[kind |-> "userJids", jids |-> UserJids(job.chat),
                                           chat |-> job.chat, first |-> job.first]>>)
       \/ job.op = "users" /\ Answer(<<[kind |-> "users", users |-> UsersOf(Group)]>>)
       \/ /\ job.op = "query"
          /\ Answer(<<[kind |-> "queried", jids |-> job.jids,
                       levels |-> [v \in DOMAIN job.jids |-> KeysOfUsers(job.jids[v])]]>>)
       \/ job.op = "ownKey" /\ Answer(<<[kind |-> "ownKey", key |-> OwnKey(store)]>>)
       \/ job.op = "labels" /\ Answer(<<[kind |-> "labels", keys |-> job.keys]>>)
       \/ job.op = "report" /\ Answer(<<[kind |-> "devices", jids |-> job.jids]>>)
       \/ job.op = "report all" /\ Answer(<<[kind |-> "reset"]>>)

Work ==
    /\ jobs # <<>>
    /\ jobs' = Tail(jobs)
    /\ LET job == Head(jobs) IN
       TrustWork(job) \/ OmemoWork(job) \/ UsersWork(job) \/ ReadWork(job)
    /\ UNCHANGED <<listed, managerVars, chatVars, viewVars, connected, steps>>

-----------------------------------------------------------------------------
(* The main thread: results and signals.                                   *)

\* buildMissingSessions(): the sessions of the users' devices
Unbuilt(U) == {d \in DOMAIN memory.devices : d[1] \in U /\ memory.devices[d] = "no session"}

BuildSessions(U) ==
    /\ memory' = [memory EXCEPT !.devices = [d \in DOMAIN memory.devices |->
                                                IF d \in Unbuilt(U) THEN "session"
                                                ELSE memory.devices[d]]]
    /\ prepared' = prepared \cup U

Stored(D) == SetToSeq({[op |-> "addDevice", device |-> d, session |-> "session"] : d \in D})

\* A fault: what waits for the connection is dropped when the chat's users change.
UpdateWithoutWaiting(jids) ==
    LET U == jids \ {Me} IN
    /\ watched' = IF U = {} THEN watched ELSE U
    /\ requests' = IF U # {} /\ connected THEN requests \cup {U} ELSE requests
    /\ onConnected' = {}
    /\ Queued(IF U \in {{}, watched} THEN <<>> ELSE Query([v \in {"chat watcher"} |-> U]))

\* updateGroupChatEncryption() with setJids() of the watcher and initializeChat().
UpdateGroupChatEncryption(jids) ==
    LET U == jids \ {Me} IN
    /\ watched' = IF U = {} THEN watched ELSE U
    /\ requests' = IF U # {} /\ connected THEN requests \cup {U} ELSE requests
    /\ onConnected' = IF U # {} /\ ~connected THEN onConnected \cup {U} ELSE onConnected
    /\ Queued(IF U \in {{}, watched} THEN <<>> ELSE Query([v \in {"chat watcher"} |-> U]))

\* A fault: the chat may be another one since the query was started.
UserJidsFetchedForAnyChat(event) ==
    /\ event.kind = "userJids"
    /\ groupJids' = event.jids
    /\ IF event.first /\ Me \notin event.jids
       THEN UNCHANGED <<watched, requests, onConnected, jobs>>
       ELSE UpdateGroupChatEncryption(event.jids)
    /\ UNCHANGED <<listed, managerVars, open, prepared, viewVars>>

\* Without its own user, a client that opens the chat requests the users: GroupStep receives them.
UserJidsFetched(event) ==
    /\ event.kind = "userJids"
    /\ IF event.chat = open
       THEN /\ groupJids' = event.jids
            /\ IF event.first /\ Me \notin event.jids
               THEN UNCHANGED <<watched, requests, onConnected, jobs>>
               ELSE UpdateGroupChatEncryption(event.jids)
       ELSE UNCHANGED <<groupJids, watched, requests, onConnected, jobs>>
    /\ UNCHANGED <<listed, managerVars, open, prepared, viewVars>>

\* userJidsChanged() and updateGroupChatUserJids()
UserJidsChanged(event) ==
    /\ event.kind = "jids"
    /\ Queued(IF event.chat = open
              THEN <<[op |-> "userJids", chat |-> event.chat, first |-> FALSE]>> ELSE <<>>)
    /\ UNCHANGED <<listed, managerVars, chatVars, viewVars>>

\* The list of the users changes; its filter is updated.
ListChanged(event) ==
    /\ detailed
    /\ listed' \in CASE event.kind = "added" -> {ListWith(event.user)}
                     [] event.kind = "updated" -> ListsUpdatedBy(event.user)
                     [] event.kind = "removed" -> ListsWithout(event.user)
                     [] event.kind = "users" -> {FoldSet(LAMBDA u, l : l (+) SetToBag({u}), listed,
                                                        {u \in event.users : u.id # OwnParticipant})}
                     [] OTHER -> {}
    /\ IF listed' = listed
       THEN UNCHANGED <<jobs, shown>>
       ELSE LET U == ListedJids' IN
            /\ Queued(IF U = {} THEN <<>> ELSE Query([v \in {"key filter"} |-> U]))
            /\ shown' = IF U = {} THEN [shown EXCEPT !["key filter"] = {}] ELSE shown
    /\ UNCHANGED <<managerVars, chatVars, detailed>>

ListHidden(event) ==
    /\ ~detailed
    /\ event.kind \in {"added", "updated", "removed", "users"}
    /\ UNCHANGED <<listed, jobs, managerVars, chatVars, viewVars>>

\* trustLevelsChanged(), after which the manager reports the devices of the keys
LevelsChanged(event) ==
    /\ event.kind = "levels"
    /\ LET owners == {k[1] : k \in event.keys}
           users == {d[1] : d \in DOMAIN memory.devices \cap event.keys} IN
       Queued(Queries(Notified(owners, users)))
    /\ UNCHANGED <<listed, managerVars, chatVars, viewVars>>

\* deviceAdded(), deviceChanged(), deviceRemoved() and devicesRemoved()
DevicesChanged(event) ==
    /\ event.kind = "devices"
    /\ Queued(Queries(Notified({}, event.jids)))
    /\ UNCHANGED <<listed, managerVars, chatVars, viewVars>>

\* allDevicesRemoved(): no view is connected to allDevicesChanged().
ResetDone(event) ==
    /\ event.kind = "reset"
    /\ isLoaded' = FALSE
    /\ UNCHANGED <<jobs, listed, memory, isReset, chatVars, viewVars>>

\* load()
Loaded(event) ==
    /\ event.kind = "loaded"
    /\ memory' = event.data
    /\ isLoaded' = (event.data.ownDevice # NoDevice)
    /\ UNCHANGED <<jobs, listed, isReset, chatVars, viewVars>>

\* The labels of the authenticated keys are queried before they are shown.
Queried(event) ==
    /\ event.kind = "queried"
    /\ LET V == DOMAIN event.jids \ {"authenticated keys"} IN
       shown' = [v \in Views |->
                   IF v \in V
                   THEN ViewOf(v, DOMAIN memory.devices, event.jids[v], event.levels[v])
                   ELSE shown[v]]
    /\ Queued(IF "authenticated keys" \in DOMAIN event.jids
              THEN <<[op |-> "labels",
                      keys |-> AuthenticatedKeys(event.levels["authenticated keys"])]>>
              ELSE <<>>)
    /\ UNCHANGED <<listed, managerVars, chatVars, detailed>>

LabelsQueried(event) ==
    /\ event.kind = "labels"
    /\ shown' = [shown EXCEPT !["authenticated keys"] = event.keys]
    /\ UNCHANGED <<jobs, listed, managerVars, chatVars, detailed>>

OwnKeyQueried(event) ==
    /\ event.kind = "ownKey"
    /\ Queued(Query([v \in {"account URI"} |-> {Me}]))
    /\ UNCHANGED <<listed, managerVars, chatVars, viewVars>>

Handle ==
    /\ events # <<>>
    /\ events' = Tail(events)
    /\ LET event == Head(events) IN
       \/ UserJidsFetched(event) \/ UserJidsChanged(event)
       \/ ListChanged(event) \/ ListHidden(event)
       \/ LevelsChanged(event) \/ DevicesChanged(event) \/ ResetDone(event) \/ Loaded(event)
       \/ Queried(event) \/ LabelsQueried(event) \/ OwnKeyQueried(event)
    /\ UNCHANGED <<tables, omemoTables, userRows, connected, steps>>

-----------------------------------------------------------------------------
(* The main thread: the chat that is open.                                 *)

Step == steps < MaxSteps /\ steps' = steps + 1

\* initializeEncryption(): a group chat's users are not known yet.
InitializeEncryption(c) ==
    /\ groupJids' = IF c = Group THEN groupJids ELSE {}
    /\ watched' = IF c = Group THEN watched ELSE {c}
    /\ onConnected' = IF c = Group \/ connected THEN {} ELSE {{c}}
    /\ requests' = IF c \in Owners /\ connected THEN requests \cup {{c}} ELSE requests

\* initializeGroupChat()
FirstUserJids(c) ==
    IF c = Group THEN <<[op |-> "userJids", chat |-> Group, first |-> TRUE]>> ELSE <<>>

\* initialize() of ChatController
OpenChat(c) ==
    /\ c # open
    /\ Step
    /\ open' = c
    /\ InitializeEncryption(c)
    /\ prepared' = {}
    /\ Queued(Query([v \in (IF open = NoChat THEN {"account watcher"} ELSE {})
                              \cup (IF watched' # watched THEN {"chat watcher"} ELSE {}) |->
                        IF v = "account watcher" THEN {Me} ELSE watched'])
              \o FirstUserJids(c))
    /\ UNCHANGED <<tables, omemoTables, userRows, listed, events, managerVars, viewVars, connected>>

\* The device lists are received, or the request failed.
DeviceListsRequested(U) ==
    /\ U \in requests
    /\ requests' = requests \ {U}
    /\ BuildSessions(U \cup {Me})
    /\ Queued(Stored(Unbuilt(U \cup {Me})))
    /\ UNCHANGED <<tables, omemoTables, userRows, listed, events, isLoaded, isReset, open,
                   groupJids, watched, onConnected, viewVars, connected, steps>>

\* The details of the chat are opened: their models are set up and the users are fetched.
OpenDetails ==
    /\ ~detailed /\ open # NoChat
    /\ detailed' = TRUE
    /\ Queued(Query([v \in Details \ {"account URI", "key filter"} |-> Jids(v)])
              \o <<[op |-> "ownKey"], [op |-> "users"]>>)
    /\ UNCHANGED <<tables, omemoTables, userRows, listed, events, managerVars, chatVars, shown,
                   connected, steps>>

Connect ==
    /\ ~connected
    /\ Step
    /\ connected' = TRUE
    /\ requests' = requests \cup onConnected
    /\ onConnected' = {}
    /\ UNCHANGED <<tables, omemoTables, userRows, listed, jobs, events, managerVars, open,
                   groupJids, watched, prepared, viewVars>>

Disconnect ==
    /\ connected
    /\ connected' = FALSE
    /\ UNCHANGED <<tables, omemoTables, userRows, listed, jobs, events, managerVars, chatVars,
                   viewVars, steps>>

-----------------------------------------------------------------------------
(* The managers of QXmpp, as far as they use the storages.                 *)

Unchanged == UNCHANGED <<tables, omemoTables, userRows, listed, events, chatVars, viewVars, connected>>

NoMemory == [ownDevice |-> NoDevice, signedPreKeyPairs |-> {}, preKeyPairs |-> {},
             devices |-> [d \in {} |-> "no session"]]

\* setUp(): the own device is created after the client connected; its publication may fail.
SetUp ==
    /\ connected /\ ~isLoaded /\ ~isReset
    /\ memory.ownDevice = NoDevice
    /\ \A i \in DOMAIN jobs : jobs[i].op # "allData"
    /\ \A i \in DOMAIN events : events[i].kind # "loaded"
    /\ Step
    /\ memory' = [memory EXCEPT !.ownDevice = "device", !.signedPreKeyPairs = {1}, !.preKeyPairs = {1}]
    /\ isLoaded' \in BOOLEAN
    /\ Queued(<<[op |-> "setSecurityPolicy", store |-> store, policy |-> "Toakafa"],
                [op |-> "addSignedPreKeyPair", id |-> 1],
                [op |-> "addPreKeyPairs", ids |-> {1}],
                [op |-> "setOwnKey", store |-> store, key |-> CHOOSE k \in Keys : TRUE],
                [op |-> "setOwnDevice", device |-> "device"]>>)
    /\ UNCHANGED isReset
    /\ Unchanged

\* A device of a device list, with the key of its bundle
DeviceReceived(d) ==
    /\ isLoaded /\ connected
    /\ d \notin DOMAIN memory.devices
    /\ Step
    /\ memory' = [memory EXCEPT !.devices =
                     [e \in DOMAIN memory.devices \cup {d} |->
                         IF e = d THEN "no session" ELSE memory.devices[e]]]
    /\ \E level \in {"AutomaticallyTrusted", "AutomaticallyDistrusted"} :
          Queued(<<[op |-> "addDevice", device |-> d, session |-> "no session"],
                   [op |-> "addKeys", store |-> store, owner |-> d[1], keys |-> {d[2]},
                    level |-> level],
                   [op |-> "report", jids |-> {d[1]}]>>)
    /\ UNCHANGED <<isLoaded, isReset>>
    /\ Unchanged

DeviceRemoved(d) ==
    /\ isLoaded
    /\ d \in DOMAIN memory.devices
    /\ Step
    /\ memory' = [memory EXCEPT !.devices = [e \in DOMAIN memory.devices \ {d} |-> memory.devices[e]]]
    /\ Queued(<<[op |-> "removeDevice", device |-> d],
                [op |-> "removeKeys", store |-> store, owners |-> {d[1]}, keys |-> {d[2]}],
                [op |-> "report", jids |-> {d[1]}]>>)
    /\ UNCHANGED <<isLoaded, isReset>>
    /\ Unchanged

\* removeContactDevices(), called when a contact is removed
RemoveContactDevices(jid) ==
    /\ isLoaded /\ connected
    /\ Step
    /\ memory' = [memory EXCEPT !.devices = [e \in {d \in DOMAIN memory.devices : d[1] # jid} |->
                                                memory.devices[e]]]
    /\ Queued(<<[op |-> "removeDevices", jid |-> jid],
                [op |-> "removeKeys", store |-> store, owners |-> {jid}, keys |-> Keys],
                [op |-> "report", jids |-> {jid}]>>)
    /\ UNCHANGED <<isLoaded, isReset>>
    /\ Unchanged

\* A pair of keys was used for a new session and is replaced; the signed one is renewed.
ReplaceKeyPairs(used, new) ==
    /\ isLoaded
    /\ Step
    /\ memory' = [memory EXCEPT !.signedPreKeyPairs = {new}, !.preKeyPairs = (@ \ {used}) \cup {new}]
    /\ Queued(<<[op |-> "addSignedPreKeyPair", id |-> new]>>
              \o SetToSeq({[op |-> "removeSignedPreKeyPair", id |-> i] :
                              i \in memory.signedPreKeyPairs \ {new}})
              \o <<[op |-> "removePreKeyPair", id |-> used], [op |-> "addPreKeyPairs", ids |-> {new}]>>)
    /\ UNCHANGED <<isLoaded, isReset>>
    /\ Unchanged

\* Decisions about keys: postponed ones are dropped; a first authentication makes the automatic
\* trust in the other keys of their owner void.
DecisionsAbout(K, level) ==
    <<[op |-> "setTrustLevel", store |-> store, keys |-> K, level |-> level]>>
    \o (IF level = "Authenticated"
        THEN <<[op |-> "setTrustLevels", store |-> store, owners |-> {k[1] : k \in K},
                old |-> "AutomaticallyTrusted", new |-> "AutomaticallyDistrusted"]>> ELSE <<>>)
    \o <<[op |-> "removeMade", store |-> store, trusted |-> {k[2] : k \in K},
          distrusted |-> {k[2] : k \in K}]>>

\* makeTrustDecisionsWithUri(): decisions are made only for the expected owner and if the URI of
\* that owner has any keys.
MakeTrustDecisionsWithUri(jid, expectedJid, trusted, distrusted) ==
    /\ isLoaded
    /\ Step
    /\ Queued(IF expectedJid \notin {NoJid, jid} THEN <<>>
              ELSE (IF trusted = {} THEN <<>> ELSE DecisionsAbout({jid} \X trusted, "Authenticated"))
                   \o (IF distrusted = {} THEN <<>>
                       ELSE DecisionsAbout({jid} \X distrusted, "ManuallyDistrusted")))
    /\ UNCHANGED managerVars
    /\ Unchanged

\* A trust message of a device that is not authenticated
TrustMessageReceived(sender, k, trust) ==
    /\ isLoaded /\ connected
    /\ Step
    /\ Queued(<<[op |-> "addPostponed", store |-> store, sender |-> sender,
                 trusted |-> IF trust THEN {k} ELSE {}, distrusted |-> IF trust THEN {} ELSE {k}]>>)
    /\ UNCHANGED managerVars
    /\ Unchanged

\* reset() and resetLocally(), before the account is removed
Reset ==
    /\ isLoaded /\ ~isReset
    /\ Step
    /\ memory' = NoMemory
    /\ isReset' = TRUE
    /\ Queued(<<[op |-> "resetOmemo"], [op |-> "resetTrust", store |-> store], [op |-> "report all"]>>)
    /\ UNCHANGED isLoaded
    /\ Unchanged

\* The managers of another account use the same tables.
OtherAccount ==
    /\ Step
    /\ \E a \in Accounts \ {Me}, e \in Encryptions, o \in Owners :
          Queued(<<[op |-> "addKeys", store |-> [account |-> a, encryption |-> e], owner |-> o,
                    keys |-> Keys, level |-> "Authenticated"],
                   [op |-> "resetAccount", account |-> a]>>)
    /\ UNCHANGED managerVars
    /\ Unchanged

ManagerStep ==
    \/ SetUp \/ ReplaceKeyPairs(1, 2) \/ Reset \/ OtherAccount
    \/ \E d \in Devices : DeviceReceived(d) \/ DeviceRemoved(d)
    \/ RemoveContactDevices(Contact)
    \/ \E jid \in Owners, expected \in {NoJid, Contact}, T \in SUBSET Keys : \E D \in SUBSET (Keys \ T) :
          T \cup D # {} /\ MakeTrustDecisionsWithUri(jid, expected, T, D)
    \/ \E sender \in Keys, k \in Devices, trust \in BOOLEAN : TrustMessageReceived(sender, k, trust)

Participant(id, jid, status) == [chat |-> Group, id |-> id, jid |-> jid, status |-> status]

\* Changes of the group chat's users that MixController is told, answers to requests included
ParticipantJobs(jid) ==
    {<<[op |-> "received", user |-> Participant(jid, jid, "Joined")]>>}
    \cup {<<[op |-> "left", user |-> Participant(jid, NoJid, "Allowed"),
             hasMessage |-> hasMessage]>> : hasMessage \in BOOLEAN}
    \cup {<<[op |-> "allowed or banned", user |-> Participant(NoId, jid, status)]>> :
             status \in {"Allowed", "Banned"}}

\* A message of another user was stored.
SenderJobs(jid) ==
    IF jid = Me THEN {} ELSE {<<[op |-> "sender", user |-> Participant(jid, jid, "Allowed")]>>}

GroupStep ==
    /\ connected
    /\ Step
    /\ \E jid \in Owners : \E work \in ParticipantJobs(jid) \cup SenderJobs(jid) : Queued(work)
    /\ UNCHANGED <<tables, omemoTables, userRows, listed, events, managerVars, chatVars, viewVars,
                   connected>>

-----------------------------------------------------------------------------

\* What a process starts with: OMEMO is loaded at login.
Started ==
    /\ jobs = <<[op |-> "allData"]>>
    /\ events = <<>>
    /\ memory = NoMemory
    /\ isLoaded = FALSE
    /\ open = NoChat
    /\ groupJids = {} /\ watched = {} /\ onConnected = {} /\ requests = {} /\ prepared = {}
    /\ listed = EmptyBag
    /\ detailed = FALSE
    /\ shown \in {Unset(flag) : flag \in BOOLEAN}
    /\ connected = FALSE

\* What earlier processes stored: nothing, or an own device with the devices of all users, and
\* oneself in the group chat.
StoredBefore ==
    /\ policies = [s \in {store} |-> "Toakafa"]
    /\ ownKeys = [s \in {store} |-> CHOOSE k \in Keys : TRUE]
    /\ keys = [r \in {store} \X Devices |-> "AutomaticallyTrusted"]
    /\ postponed = [k \in {} |-> Unknown]
    /\ ownDevices = [a \in {Me} |-> "device"]
    /\ signedPreKeyPairs = {<<Me, 1>>} /\ preKeyPairs = {<<Me, 1>>}
    /\ deviceRows = [r \in {<<Me, d[1], d[2]>> : d \in Devices} |-> "no session"]
    /\ userRows = {[chat |-> Group, id |-> Me, jid |-> Me, status |-> "Joined"]}

Init ==
    /\ (TrustInit /\ OmemoInit /\ userRows = {}) \/ StoredBefore
    /\ Started
    /\ isReset = FALSE
    /\ steps = 0

\* The process ends at any time and is started again.
Restart ==
    /\ Step
    /\ jobs' = <<[op |-> "allData"]>> /\ events' = <<>>
    /\ memory' = NoMemory /\ isLoaded' = FALSE
    /\ open' = NoChat
    /\ groupJids' = {} /\ watched' = {} /\ onConnected' = {} /\ requests' = {} /\ prepared' = {}
    /\ listed' = EmptyBag
    /\ detailed' = FALSE
    /\ shown' \in {Unset(flag) : flag \in BOOLEAN}
    /\ connected' = FALSE
    /\ UNCHANGED <<tables, omemoTables, userRows, isReset>>

Main ==
    \/ \E c \in Chats : OpenChat(c)
    \/ \E U \in requests : DeviceListsRequested(U)
    \/ OpenDetails \/ Connect \/ Disconnect
    \/ ManagerStep \/ GroupStep

Next ==
    \/ Work
    \/ jobs = <<>> /\ Handle
    \/ jobs = <<>> /\ Len(events) <= MaxPending /\ Main
    \/ Restart

Spec == Init /\ [][Next]_vars

-----------------------------------------------------------------------------
(* Properties.                                                             *)

Quiet == jobs = <<>> /\ events = <<>>

\* What a view would show if it were updated now.
Current(v) == ViewOf(v, DOMAIN memory.devices, Jids(v), KeysOfUsers(Jids(v)))

\* Whether v, of the users U, may show x.  A generator has each decision about a key, but may keep
\* those about keys that were removed and received again (no signal tells it); the rows of a list
\* that is filtered are those of its users.
Accepts(v, U, current, x) ==
    /\ v \in Generators => \A k \in DOMAIN current : k \in DOMAIN x /\ x[k] = current[k]
    /\ v = "key filter" => x \cap U = current
    /\ v \notin Generators \cup {"key filter"} => x = current

\* Nothing the UI shows about keys and devices is out of date once all results are processed, in
\* whatever order devices, decisions, users and chats changed.  A watcher of nobody keeps the flags
\* it has, at first those it was not initialized with.
ViewsCurrent ==
    Quiet /\ isLoaded =>
        \A v \in Views : Shown(v) /\ Jids(v) # {} => Accepts(v, Jids(v), Current(v), shown[v])

\* The chat's encryption is computed for those users it is sent to: the users the database has for
\* the open group chat, whichever chats were opened while they were fetched.  Without other users
\* the watcher keeps those of the last chat.
WatchesOpenChat ==
    Quiet =>
        /\ open = Group => /\ groupJids = UserJids(Group)
                           /\ Me \in groupJids /\ groupJids # {Me} => watched = groupJids \ {Me}
        /\ open \in Owners => groupJids = {} /\ watched = {open}

\* While connected, the sessions for the open chat were built, or that was tried, once its users
\* are known, even if the chat was opened or its users changed without a connection.
ChatInitialized ==
    Quiet /\ connected /\ requests = {} =>
        /\ open = Group /\ Me \in groupJids => groupJids \ {Me} \subseteq prepared
        /\ open \in Owners => open \in prepared

\* A restart finds the devices and keys that the manager had when its jobs were done.
DevicesStored ==
    isLoaded /\ Quiet => memory = AllData(Me)

\* Types of the tables of trust, and the devices.
StoredInv == TrustTypeOK /\ DevicesStored

-----------------------------------------------------------------------------
(* Inductive strengthening: what the queues and tables hold.               *)

IsSequence(s) == s \in Seq(Range(s))

User == [chat : {Group}, id : Owners \cup {NoId}, jid : Owners \cup {NoJid},
         status : {"Allowed", "Banned", "Joined", "Left"}]

PairIds == {1, 2}

TrustArguments(job) ==
    /\ job.op \notin {"resetAccount"} => job.store \in Stores
    /\ job.op = "addKeys" => job.owner \in Owners
    /\ job.op \in {"removeKeys", "setTrustLevels"} => job.owners \subseteq Owners
    /\ job.op \in {"addKeys", "removeKeys"} => job.keys \subseteq Keys
    /\ job.op = "setTrustLevel" => job.keys \subseteq OwnedKeys
    /\ job.op \in {"addKeys", "setTrustLevel"} => job.level \in Levels
    /\ job.op = "setTrustLevels" => job.old \in Levels /\ job.new \in Levels
    /\ job.op = "addPostponed" => /\ job.sender \in Keys
                                  /\ job.trusted \subseteq OwnedKeys
                                  /\ job.distrusted \subseteq OwnedKeys
    /\ job.op = "removeMade" => job.trusted \subseteq Keys /\ job.distrusted \subseteq Keys
    /\ job.op = "setSecurityPolicy" => job.policy \in Policies
    /\ job.op = "setOwnKey" => job.key \in Keys
    /\ job.op = "resetAccount" => job.account \in Accounts

TrustOps == {"addKeys", "removeKeys", "setTrustLevel", "setTrustLevels", "addPostponed", "removeMade",
             "setSecurityPolicy", "setOwnKey", "resetTrust", "resetAccount"}

OmemoArguments(job) ==
    /\ job.op = "setOwnDevice" => job.device = "device"
    /\ job.op \in {"addSignedPreKeyPair", "removeSignedPreKeyPair", "removePreKeyPair"} =>
           job.id \in PairIds
    /\ job.op = "addPreKeyPairs" => job.ids \subseteq PairIds
    /\ job.op \in {"addDevice", "removeDevice"} => job.device \in Devices
    /\ job.op = "removeDevices" => job.jid \in Owners

OmemoOps == {"setOwnDevice", "addSignedPreKeyPair", "removeSignedPreKeyPair", "addPreKeyPairs",
             "removePreKeyPair", "addDevice", "removeDevice", "removeDevices", "resetOmemo"}

UserOps == {"received", "left", "sender", "allowed or banned"}

JobOK(job) ==
    /\ job.op \in TrustOps => TrustArguments(job)
    /\ job.op \in OmemoOps => OmemoArguments(job)
    /\ job.op \in UserOps => job.user \in User
    /\ job.op = "userJids" => job.chat = Group

EventOK(event) == event.kind \in {"jids", "userJids"} => event.chat = Group

QueuesOK ==
    /\ IsSequence(jobs) /\ \A i \in DOMAIN jobs : JobOK(jobs[i])
    /\ IsSequence(events) /\ \A i \in DOMAIN events : EventOK(events[i])

TablesOK ==
    /\ signedPreKeyPairs \subseteq {Me} \X PairIds /\ preKeyPairs \subseteq {Me} \X PairIds
    /\ DOMAIN ownDevices \subseteq {Me}
    /\ DOMAIN deviceRows \subseteq {Me} \X Owners \X Keys
    /\ userRows \subseteq User

-----------------------------------------------------------------------------
(* Inductive strengthening: the manager's data and the tables of OMEMO.    *)

WithoutKeys(table, K) == [k \in DOMAIN table \ K |-> table[k]]

\* What a job makes of the data that allData() would return.
Applied(job, data) ==
    CASE job.op = "setOwnDevice" -> [data EXCEPT !.ownDevice = job.device]
      [] job.op = "addSignedPreKeyPair" -> [data EXCEPT !.signedPreKeyPairs = @ \cup {job.id}]
      [] job.op = "removeSignedPreKeyPair" -> [data EXCEPT !.signedPreKeyPairs = @ \ {job.id}]
      [] job.op = "addPreKeyPairs" -> [data EXCEPT !.preKeyPairs = @ \cup job.ids]
      [] job.op = "removePreKeyPair" -> [data EXCEPT !.preKeyPairs = @ \ {job.id}]
      [] job.op = "addDevice" ->
             [data EXCEPT !.devices = [d \in DOMAIN data.devices \cup {job.device} |->
                                          IF d = job.device THEN job.session ELSE data.devices[d]]]
      [] job.op = "removeDevice" -> [data EXCEPT !.devices = WithoutKeys(@, {job.device})]
      [] job.op = "removeDevices" -> [data EXCEPT !.devices = WithoutKeys(@, {job.jid} \X Keys)]
      [] job.op = "resetOmemo" -> NoMemory
      [] OTHER -> data

\* The jobs make of the tables what the manager has in memory.
Replayed ==
    \E data :
        /\ data[1] = AllData(Me) /\ data[Len(jobs) + 1] = memory
        /\ \A i \in 1..Len(jobs) : data[i + 1] = Applied(jobs[i], data[i])

\* The tables are not read into the memory yet.
Loading ==
    \/ \E i \in DOMAIN jobs : jobs[i].op = "allData"
    \/ \E i \in DOMAIN events : events[i].kind = "loaded"

\* They are read once, before anything changes them.
LoadedOnce ==
    /\ \A i \in DOMAIN jobs : jobs[i].op = "allData" =>
          /\ \A j \in DOMAIN jobs : jobs[j].op = "allData" => i = j
          /\ \A j \in DOMAIN events : events[j].kind # "loaded"
    /\ \A i \in DOMAIN events : events[i].kind = "loaded" =>
          /\ \A j \in DOMAIN events : events[j].kind = "loaded" => i = j
          /\ events[i].data = AllData(Me)
    /\ Loading => /\ ~isLoaded /\ memory = NoMemory
                  /\ \A i \in DOMAIN jobs : jobs[i].op \notin OmemoOps

MemoryFollows == LoadedOnce /\ (~Loading => Replayed)

\* Until an own device is set up, there are no other pairs of keys than those of a set-up that
\* did not complete: SetUp replaces what is in memory but only adds to the tables.
PairsOfSetUp ==
    ~isReset =>
        /\ isLoaded => memory.ownDevice # NoDevice
        /\ \A i \in DOMAIN jobs : jobs[i].op # "resetOmemo"
        /\ OwnDevice(Me) = NoDevice =>
              /\ signedPreKeyPairs \subseteq {<<Me, 1>>} /\ preKeyPairs \subseteq {<<Me, 1>>}
              /\ \A i \in DOMAIN jobs :
                    /\ jobs[i].op = "addSignedPreKeyPair" => jobs[i].id = 1
                    /\ jobs[i].op = "addPreKeyPairs" => jobs[i].ids \subseteq {1}

-----------------------------------------------------------------------------
(* Inductive strengthening: the users of the open chat.                    *)

\* The users that are known are those of the table, or the result that tells them is on its way.
UsersFollow ==
    open = Group =>
        \/ \E i \in DOMAIN jobs : jobs[i].op = "userJids"
        \/ \E i \in DOMAIN events : events[i].kind = "jids"
        \/ \E i \in DOMAIN events :
               /\ events[i].kind = "userJids" /\ events[i].jids = UserJids(Group)
               /\ \A j \in DOMAIN events : j > i => events[j].kind # "userJids"
        \/ /\ groupJids = UserJids(Group)
           /\ \A i \in DOMAIN events : events[i].kind # "userJids"

\* The users whose sessions were built or will be, at the latest after the next login
UnderWay == prepared \cup (UNION requests) \cup (UNION onConnected)

\* The users of the open chat are watched and under way.
OpenChatServed ==
    /\ connected => onConnected = {}
    /\ open # Group => groupJids = {}
    /\ open \in Owners => watched = {open} /\ open \in UnderWay
    /\ open = Group /\ Me \in groupJids =>
          /\ groupJids \ {Me} \subseteq UnderWay
          /\ groupJids # {Me} => watched = groupJids \ {Me}

EncryptionInv ==
    /\ QueuesOK /\ TrustTypeOK /\ TablesOK
    /\ MemoryFollows /\ PairsOfSetUp
    /\ UsersFollow /\ OpenChatServed

-----------------------------------------------------------------------------
(* Inductive strengthening: the views.  A view is asked to update itself   *)
(* (by reports and levels, and after the own key was read), then its query *)
(* is answered, then, for the authenticated keys, their labels are.        *)

JobAsks(job, v) ==
    \/ job.op = "report" /\ v \in OnDevices /\ job.jids \cap Jids(v) # {}
    \/ job.op = "ownKey" /\ v = "account URI"

EventAsks(event, v) ==
    \/ /\ event.kind = "levels"
       /\ v \in Notified({k[1] : k \in event.keys},
                         {d[1] : d \in DOMAIN memory.devices \cap event.keys})
    \/ event.kind = "devices" /\ v \in Notified({}, event.jids)
    \/ event.kind = "ownKey" /\ v = "account URI"

Asked(v) ==
    \/ \E i \in DOMAIN jobs : JobAsks(jobs[i], v)
    \/ \E i \in DOMAIN events : EventAsks(events[i], v)

\* A query that is queued brings a view up to date: the main thread waits for it.  Results change
\* what a view shows, and the right ones bring it up to date.
AnswerQueued(v) == \E i \in DOMAIN jobs : jobs[i].op = "query" /\ v \in DOMAIN jobs[i].jids
AnswersAt(v) == {i \in DOMAIN events : events[i].kind = "queried" /\ v \in DOMAIN events[i].jids}
RightAt(v) ==
    {i \in AnswersAt(v) :
        /\ events[i].jids[v] = Jids(v)
        /\ Accepts(v, Jids(v), Current(v),
                   ViewOf(v, DOMAIN memory.devices, Jids(v), events[i].levels[v]))}

\* The same for the labels
LabelsQueued(v) == v = "authenticated keys" /\ \E i \in DOMAIN jobs : jobs[i].op = "labels"
LabelsAt(v) == {i \in DOMAIN events : v = "authenticated keys" /\ events[i].kind = "labels"}
RightLabelsAt(v) == {i \in LabelsAt(v) : Accepts(v, Jids(v), Current(v), events[i].keys)}

\* A result that is not right is followed by one that is.
Ends(all, right) == \A i \in all : \E j \in right : j >= i

LastAnswerRight(v) == AnswerQueued(v) \/ Ends(AnswersAt(v), RightAt(v))
LastLabelsRight(v) ==
    /\ \A i \in DOMAIN jobs : v = "authenticated keys" /\ jobs[i].op = "labels" =>
           Accepts(v, Jids(v), Current(v), jobs[i].keys)
    /\ LabelsQueued(v) \/ Ends(LabelsAt(v), RightLabelsAt(v))

\* The view will be updated, or it will be labelled or is up to date.
Answered(v) == LastAnswerRight(v) /\ (AnswerQueued(v) \/ RightAt(v) # {})
Due(v) == Asked(v) \/ Answered(v)
Settled(v) ==
    /\ LastAnswerRight(v) /\ LastLabelsRight(v)
    /\ \/ LabelsQueued(v) \/ RightLabelsAt(v) # {}
       \/ Accepts(v, Jids(v), Current(v), shown[v])

\* The data is removed, after which the manager is not loaded in this process anymore.
Resetting ==
    \/ \E i \in DOMAIN jobs : jobs[i].op = "report all"
    \/ \E i \in DOMAIN events : events[i].kind = "reset"
    \/ isReset /\ ~isLoaded /\ ~Loading

\* Whatever changes keys is followed by a report, unless it reports itself or is of another account.
JobFollowed(i) ==
    LET job == jobs[i] IN
    /\ job.op \in {"removeKeys", "setTrustLevel", "setTrustLevels", "resetTrust", "report", "labels"} =>
          ~Loading
    /\ job.op = "addKeys" /\ job.store = store =>
          /\ ~Loading /\ job.level \in {"AutomaticallyTrusted", "AutomaticallyDistrusted"}
          /\ \E j \in DOMAIN jobs : j > i /\ jobs[j].op = "report" /\ job.owner \in jobs[j].jids
    /\ job.op = "removeKeys" =>
          \E j \in DOMAIN jobs : j > i /\ jobs[j].op = "report" /\ job.owners \subseteq jobs[j].jids
    /\ job.op = "resetTrust" => \E j \in DOMAIN jobs : j > i /\ jobs[j].op = "report all"
    /\ job.op = "resetAccount" => job.account # Me
    /\ job.op = "report all" => isReset /\ ~Loading
    /\ job.op = "query" => \A v \in DOMAIN job.jids : v \in Views /\ job.jids[v] = Jids(v)
    /\ job.op = "allData" => jobs = <<job>> /\ events = <<>> /\ open = NoChat /\ ~detailed

\* The memory is loaded before anything else is handled in a process.
EventInTime(i) ==
    LET event == events[i] IN
    /\ event.kind = "loaded" => i = 1
    /\ event.kind \in {"levels", "devices", "labels"} => ~Loading
    /\ event.kind = "reset" => isReset /\ ~Loading
    /\ event.kind = "queried" =>
          /\ DOMAIN event.jids \subseteq Views
          /\ Loading => \A v \in DOMAIN event.jids : event.levels[v] = KeysOfUsers(event.jids[v])

QueuesInTime ==
    /\ \A i \in DOMAIN jobs : JobFollowed(i)
    /\ \A i \in DOMAIN events : EventInTime(i)

ViewServed(v) ==
    Shown(v) /\ Jids(v) # {} =>
        /\ Loading => Due(v)
        /\ ~Loading /\ ~Resetting => Due(v) \/ Settled(v)

ViewInv ==
    /\ QueuesInTime
    /\ DOMAIN shown = Views
    /\ open = NoChat => watched = {}
    /\ ~detailed => listed = EmptyBag
    /\ \A v \in Views : ViewServed(v)

=============================================================================
