--------------------------------- MODULE Roster ---------------------------------
(***************************************************************************)
(* The contacts: the roster of the server, its copy in the database        *)
(* (RosterStorage, RosterDb), the items RosterModel shows, and requests to *)
(* see the user's presence (RosterController).                             *)
(*                                                                         *)
(* QXmpp's roster manager loads the copy and its version when a stream is  *)
(* opened and asks the server for what changed since.  The server answers  *)
(* with the whole roster or, if it knows the version, with the changes.    *)
(* RosterStorage writes what is received; "rosterReceived" follows once a  *)
(* whole roster is written.  Each version of the roster differs from the   *)
(* previous one in one contact.                                            *)
(***************************************************************************)
EXTENDS ClientPart

CONSTANTS
    RosterJids,
    RosterGroups

ASSUME RosterAssumption ==
    /\ RosterJids # {} /\ IsFiniteSet(RosterJids)
    /\ RosterGroups # {} /\ IsFiniteSet(RosterGroups)

VARIABLES
    rosters,        \* the rosters the server had, the latest one last: the groups of each contact
    asks,           \* unanswered requests <<from, its former address or itself>> on the server
    told,           \* the server tells this client about changes of the roster
    manager,        \* QXmppRosterManager: its contacts and how far the roster is received
    subscriptions,  \* m_unprocessed-, m_pending- and m_unrespondedSubscriptionRequests
    stored,         \* tables "chats" and "rosterGroups": items; the version in "accounts"
    shown,          \* m_items of RosterModel
    announced,      \* groups of all items when groupsChanged() was emitted last
    chosen          \* history: contacts whose notifications the user muted in the stored item

rosterVars == <<rosters, asks, told, manager, subscriptions, stored, shown, announced, chosen>>

Nobody == [j \in {} |-> {}]
NoSubscriptions == [unprocessed |-> {}, pending |-> {}, unresponded |-> {}]
NoManager == [contacts |-> {}, state |-> "none"]
Current == Last(rosters)
Set(f, j, v) == [k \in DOMAIN f \cup {j} |-> IF k = j THEN v ELSE f[k]]
Unset(f, j) == [k \in DOMAIN f \ {j} |-> f[k]]
GroupsOf(items) == UNION {items[j].groups : j \in DOMAIN items}

AContact == [j \in {CHOOSE j \in RosterJids : TRUE} |-> {CHOOSE g \in RosterGroups : TRUE}]

\* Before the first login, or with a contact of an earlier one
RosterInit ==
    /\ \/ rosters = <<Nobody>> /\ stored = [items |-> Nobody, version |-> 0]
       \/ /\ rosters = <<AContact>>
          /\ stored = [items |-> [j \in DOMAIN AContact |->
                                    [groups |-> AContact[j], muted |-> FALSE]],
                       version |-> 1]
    /\ asks = {} /\ told = FALSE
    /\ manager = NoManager /\ subscriptions = NoSubscriptions
    /\ shown = stored.items /\ announced = GroupsOf(shown) /\ chosen = {}

-----------------------------------------------------------------------------
(* RosterController.                                                       *)

Adding(j) == [op |-> "set", jid |-> j, groups |-> {}]
InsertAll(S, new) == {p \in S : \A q \in new : q[1] # p[1]} \cup new

\* handleSubscriptionRequest() once the roster is received, populateRoster() and
\* processSubscriptionRequestFromStranger(): a stranger is added to the roster first.
Process(asking, contacts) ==
    LET strangers == {p \in asking : p[1] \notin contacts}
    IN  /\ subscriptions' =
              [unprocessed |-> subscriptions.unprocessed \ asking,
               pending |-> InsertAll(subscriptions.pending, strangers),
               unresponded |-> InsertAll(subscriptions.unresponded, asking \ strangers)]
        /\ requests' = IF connected THEN requests \o SetToSeq({Adding(p[1]) : p \in strangers})
                       ELSE requests

HandleSubscriptionRequest(p) ==
    IF manager.state = "received" THEN Process({p}, manager.contacts)
    ELSE /\ subscriptions' = [subscriptions EXCEPT !.unprocessed = InsertAll(@, {p})]
         /\ UNCHANGED requests

\* A fault: the request is only answered if the contact is not new.
TakeNoPending(j, item) == UNCHANGED <<subscriptions, requests, jobs>>

\* RosterModel::itemAdded with applyOldContactData(): settings and groups of the former address
\* are taken over.
TakePending(j, item) ==
    LET taken == {p \in subscriptions.pending : p[1] = j}
        former == {p[2] : p \in taken} \cap (DOMAIN shown \ {j})
    IN  /\ subscriptions' = [subscriptions EXCEPT !.pending = @ \ taken,
                                                  !.unresponded = InsertAll(@, taken)]
        /\ jobs' = jobs \o SetToSeq({[op |-> "update", jid |-> j, muted |-> shown[f].muted] :
                                        f \in former})
        /\ requests' = IF connected
                       THEN requests \o SetToSeq({[op |-> "set", jid |-> j,
                                                   groups |-> shown[f].groups] : f \in former})
                       ELSE requests

-----------------------------------------------------------------------------
(* The user.                                                               *)

Ask(request) ==
    /\ connected /\ Step
    /\ requests' = Append(requests, request)
    /\ UNCHANGED <<rosterVars, jobs, results, stream, connected, failures>>

\* addContactWithUri(), which opens the chat of a contact that is already shown
AddContact(j) == j \notin DOMAIN shown /\ Ask(Adding(j))
RemoveContact(j) == j \in DOMAIN shown /\ Ask([op |-> "remove", jid |-> j])
UpdateGroups(j, groups) ==
    /\ j \in DOMAIN shown /\ groups # shown[j].groups
    /\ Ask([op |-> "set", jid |-> j, groups |-> groups])

\* updateGroup() and removeGroup(): one request for each contact of the group
UpdateGroup(group, to) ==
    /\ connected /\ group \in GroupsOf(shown) /\ Step
    /\ requests' = requests \o
          SetToSeq({[op |-> "set", jid |-> j, groups |-> (shown[j].groups \ {group}) \cup to] :
                       j \in {k \in DOMAIN shown : group \in shown[k].groups}})
    /\ UNCHANGED <<rosterVars, jobs, results, stream, connected, failures>>

\* setNotificationRule()
SetNotificationRule(j) ==
    /\ j \in DOMAIN shown /\ Step
    /\ jobs' = Append(jobs, [op |-> "update", jid |-> j, muted |-> ~shown[j].muted])
    /\ UNCHANGED <<rosterVars, results, requests, stream, connected, failures>>

\* acceptSubscriptionToPresence() and refuseSubscriptionToPresence()
Answer(p) ==
    /\ connected /\ p \in subscriptions.unresponded /\ Step
    /\ requests' = Append(requests, [op |-> "answer", jid |-> p[1]])
    /\ subscriptions' = [subscriptions EXCEPT !.unresponded = @ \ {p}]
    /\ UNCHANGED <<rosters, asks, told, manager, stored, shown, announced, chosen, jobs, results,
                   stream, connected, failures>>

-----------------------------------------------------------------------------
(* The server and the network.                                             *)

\* A new version of the roster, of which the clients are told
Change(roster, j) ==
    IF roster = Current THEN UNCHANGED <<rosters, stream>>
    ELSE /\ rosters' = Append(rosters, roster)
         /\ stream' = IF told
                      THEN Append(stream, [kind |-> "push", jid |-> j,
                                           version |-> Len(rosters) + 1])
                      ELSE stream

ChangedJid(n) ==
    CHOOSE j \in RosterJids : Unset(rosters[n], j) = Unset(rosters[n - 1], j)
                              /\ rosters[n] # rosters[n - 1]

Whole == <<[kind |-> "roster", version |-> Len(rosters)]>>
Since(version) ==
    <<[kind |-> "unchanged"]>> \o
    [i \in 1..(Len(rosters) - version) |->
        [kind |-> "push", version |-> version + i, jid |-> ChangedJid(version + i)]]

ServeRoster ==
    LET request == Head(requests)
    IN  /\ requests # <<>>
        /\ requests' = Tail(requests)
        /\ \/ /\ request.op = "presence"
              /\ stream' = stream \o SetToSeq({[kind |-> "ask", from |-> p] : p \in asks})
              /\ UNCHANGED <<rosters, asks, told, failures>>
           \/ /\ request.op = "get"
              /\ told' = TRUE
              /\ stream' \in {stream \o Whole} \cup IF request.version = 0 THEN {}
                                                     ELSE {stream \o Since(request.version)}
              /\ UNCHANGED <<rosters, asks, failures>>
           \/ /\ request.op = "set"
              /\ Change(Set(Current, request.jid, request.groups), request.jid)
              /\ UNCHANGED <<asks, told, failures>>
           \/ /\ request.op = "remove"
              /\ Change(Unset(Current, request.jid), request.jid)
              /\ UNCHANGED <<asks, told, failures>>
           \/ /\ request.op \in {"set", "remove"} /\ Fail
              /\ UNCHANGED <<rosters, asks, told, stream>>
           \/ /\ request.op = "answer"
              /\ asks' = {p \in asks : p[1] # request.jid}
              /\ UNCHANGED <<rosters, told, stream, failures>>
        /\ UNCHANGED <<manager, subscriptions, stored, shown, announced, chosen, jobs, results,
                       connected, steps>>

\* Another client of the account adds, changes or removes a contact.
RosterChangedByOtherClient(j, roster) ==
    /\ Step
    /\ Change(roster, j)
    /\ UNCHANGED <<asks, told, manager, subscriptions, stored, shown, announced, chosen, jobs,
                   results, requests, connected, failures>>

\* Someone requests the presence, maybe as a contact who moved from another address.
RequestPresence(p) ==
    /\ \A q \in asks : q[1] # p[1]
    /\ Step
    /\ asks' = asks \cup {p}
    /\ stream' = IF connected /\ Head(Append(requests, [op |-> "none"])).op # "presence"
                 THEN Append(stream, [kind |-> "ask", from |-> p]) ELSE stream
    /\ UNCHANGED <<rosters, told, manager, subscriptions, stored, shown, announced, chosen, jobs,
                   results, requests, connected, failures>>

\* RosterStorage::upsertItem(), removeItem() and replaceAll()
ReceiveRosterStanza ==
    LET stanza == Head(stream)
    IN  /\ stream # <<>>
        /\ stream' = Tail(stream)
        /\ \/ /\ stanza.kind = "push"
              /\ manager' = [manager EXCEPT !.contacts =
                                IF stanza.jid \in DOMAIN rosters[stanza.version]
                                THEN @ \cup {stanza.jid} ELSE @ \ {stanza.jid}]
              /\ jobs' = Append(jobs, [op |-> "item", jid |-> stanza.jid,
                                       version |-> stanza.version])
              /\ UNCHANGED <<subscriptions, requests>>
           \/ /\ stanza.kind = "roster"
              /\ manager' = [contacts |-> DOMAIN rosters[stanza.version], state |-> "storing"]
              /\ jobs' = Append(jobs, [op |-> "replace", version |-> stanza.version])
              /\ UNCHANGED <<subscriptions, requests>>
           \/ /\ stanza.kind = "unchanged"
              /\ manager' = [manager EXCEPT !.state = "received"]
              /\ Process(subscriptions.unprocessed, manager.contacts)
              /\ UNCHANGED jobs
           \/ /\ stanza.kind = "ask"
              /\ HandleSubscriptionRequest(stanza.from)
              /\ UNCHANGED <<manager, jobs>>
        /\ UNCHANGED <<rosters, asks, told, stored, shown, announced, chosen, results, connected,
                       steps, failures>>

\* A new stream: the stored roster and its version are loaded.
ConnectRoster ==
    /\ ~connected /\ Step
    /\ connected' = TRUE
    /\ requests' = <<[op |-> "presence"]>>
    /\ manager' = [NoManager EXCEPT !.state = "loading"]
    /\ jobs' = Append(jobs, [op |-> "cache"])
    /\ UNCHANGED <<rosters, asks, told, subscriptions, stored, shown, announced, chosen, results,
                   stream, failures>>

DisconnectRoster ==
    /\ connected /\ Step
    /\ connected' = FALSE /\ requests' = <<>> /\ stream' = <<>> /\ told' = FALSE
    /\ manager' = [manager EXCEPT !.state = "none"]
    /\ jobs' = AllBut(jobs, "cache") /\ results' = AllBut(results, "cache")
    /\ UNCHANGED <<rosters, asks, subscriptions, stored, shown, announced, chosen, failures>>

-----------------------------------------------------------------------------
(* The database.                                                           *)

\* _replaceItems() and _updateOrAddItem(): only what the server knows is changed in an item.
Merged(items, roster) ==
    [j \in DOMAIN roster |->
        [groups |-> roster[j], muted |-> j \in DOMAIN items /\ items[j].muted]]

ItemsAfter(job, items) ==
    CASE job.op = "replace" -> Merged(items, rosters[job.version])
      [] job.op = "item" ->
            IF job.jid \in DOMAIN rosters[job.version]
            THEN Set(items, job.jid, Merged(items, rosters[job.version])[job.jid])
            ELSE Unset(items, job.jid)
      [] job.op = "update" ->
            IF job.jid \in DOMAIN items THEN [items EXCEPT ![job.jid].muted = job.muted] ELSE items
      [] OTHER -> items

\* A fault: the version is stored before the items.
VersionFirst(job, old) ==
    {old, [old EXCEPT !.version = IF job.op \in {"item", "replace"} THEN job.version ELSE @]}

\* What is stored if the process ends during a job: the version is stored after the items.
StoredMeanwhile(job, old) == {old, [old EXCEPT !.items = ItemsAfter(job, @)]}

\* itemAdded(), itemUpdated() and itemRemoved()
Emitted(old, new) ==
    SetToSeq({[op |-> "removed", jid |-> j] : j \in DOMAIN old \ DOMAIN new})
    \o SetToSeq({[op |-> "updated", jid |-> j, item |-> new[j]] :
                    j \in {k \in DOMAIN old \cap DOMAIN new : old[k] # new[k]}})
    \o SetToSeq({[op |-> "added", jid |-> j, item |-> new[j]] : j \in DOMAIN new \ DOMAIN old})

Returned(job) ==
    CASE job.op = "fetch" -> <<[op |-> "fetched", items |-> stored.items]>>
      [] job.op = "cache" -> <<[op |-> "cache", contacts |-> DOMAIN stored.items,
                                version |-> stored.version]>>
      [] job.op = "replace" -> <<[op |-> "replaced"]>>
      [] OTHER -> <<>>

RunRosterJob ==
    LET job == Head(jobs)
        items == ItemsAfter(job, stored.items)
    IN  /\ jobs # <<>>
        /\ jobs' = Tail(jobs)
        /\ stored' = [items |-> items,
                      version |-> IF job.op \in {"item", "replace"} THEN job.version
                                  ELSE stored.version]
        /\ results' = results \o Emitted(stored.items, items) \o Returned(job)
        /\ chosen' = IF job.op = "update" /\ job.jid \in DOMAIN items
                     THEN IF job.muted THEN chosen \cup {job.jid} ELSE chosen \ {job.jid}
                     ELSE chosen \cap DOMAIN items
        /\ UNCHANGED <<rosters, asks, told, manager, subscriptions, shown, announced, requests,
                       stream, connected, steps, failures>>

-----------------------------------------------------------------------------
(* RosterModel and the roster manager handle what the database emits.      *)

Show(items) == shown' = items
AnnounceGrown(items) ==
    announced' = IF Cardinality(GroupsOf(items)) > Cardinality(GroupsOf(shown)) THEN GroupsOf(items)
                 ELSE announced

\* removeItem() compares the numbers of groups the wrong way round: their removal is not announced.
HandleRosterResult ==
    LET result == Head(results)
    IN  /\ results # <<>>
        /\ results' = Tail(results)
        /\ \/ /\ result.op = "fetched"
              /\ Show(result.items) /\ announced' = GroupsOf(result.items)
              /\ UNCHANGED <<manager, subscriptions, requests, jobs>>
           \/ /\ result.op = "added"
              /\ Show(Set(shown, result.jid, result.item)) /\ AnnounceGrown(shown')
              /\ TakePending(result.jid, result.item)
              /\ UNCHANGED manager
           \/ /\ result.op = "updated" /\ result.jid \in DOMAIN shown
              /\ Show(Set(shown, result.jid, result.item))
              /\ announced' = IF GroupsOf(shown) = GroupsOf(shown') THEN announced
                              ELSE GroupsOf(shown')
              /\ UNCHANGED <<manager, subscriptions, requests, jobs>>
           \/ /\ result.op = "removed"
              /\ Show(Unset(shown, result.jid)) /\ AnnounceGrown(shown')
              /\ UNCHANGED <<manager, subscriptions, requests, jobs>>
           \/ /\ result.op = "cache"
              /\ manager' = [contacts |-> result.contacts, state |-> "asked"]
              /\ requests' = Append(requests, [op |-> "get", version |-> result.version])
              /\ UNCHANGED <<shown, announced, subscriptions, jobs>>
           \/ /\ result.op = "replaced"
              /\ IF manager.state = "storing"
                 THEN /\ manager' = [manager EXCEPT !.state = "received"]
                      /\ Process(subscriptions.unprocessed, manager.contacts)
                 ELSE UNCHANGED <<manager, subscriptions, requests>>
              /\ UNCHANGED <<shown, announced, jobs>>
        /\ UNCHANGED <<rosters, asks, told, stored, chosen, stream, connected, steps, failures>>

\* The process ends, maybe during a job, and is started again.
RestartRoster ==
    /\ Step
    /\ stored' \in IF jobs = <<>> THEN {stored} ELSE StoredMeanwhile(Head(jobs), stored)
    /\ jobs' = <<[op |-> "fetch"]>> /\ results' = <<>> /\ requests' = <<>> /\ stream' = <<>>
    /\ connected' = FALSE /\ told' = FALSE
    /\ manager' = NoManager /\ subscriptions' = NoSubscriptions
    /\ shown' = Nobody /\ announced' = {}
    /\ chosen' = {j \in DOMAIN stored'.items : stored'.items[j].muted}
    /\ UNCHANGED <<rosters, asks, failures>>

RosterNext ==
    \/ \E j \in RosterJids :
          \/ AddContact(j) \/ RemoveContact(j) \/ SetNotificationRule(j)
          \/ RosterChangedByOtherClient(j, Unset(Current, j))
          \/ \E groups \in SUBSET RosterGroups :
                UpdateGroups(j, groups) \/ RosterChangedByOtherClient(j, Set(Current, j, groups))
          \/ \E former \in RosterJids : RequestPresence(<<j, former>>)
    \/ \E group \in RosterGroups :
          \E to \in {{}} \cup {{g} : g \in RosterGroups} : UpdateGroup(group, to)
    \/ \E p \in subscriptions.unresponded : Answer(p)
    \/ ServeRoster \/ ReceiveRosterStanza \/ ConnectRoster \/ DisconnectRoster
    \/ RunRosterJob \/ HandleRosterResult \/ RestartRoster

-----------------------------------------------------------------------------
(* Properties.                                                             *)

Plain(items) == [j \in DOMAIN items |-> items[j].groups]

\* The stored version is never ahead of the stored items: each item that is not the one of that
\* version changed later, and will be sent again.
VersionStored ==
    stored.version > 0 =>
        \A j \in RosterJids :
            \/ Restrict(Plain(stored.items), {j} \cap DOMAIN stored.items)
                  = Restrict(rosters[stored.version], {j} \cap DOMAIN rosters[stored.version])
            \/ \E n \in (stored.version + 1)..Len(rosters) : ChangedJid(n) = j

\* No change of the roster resets what the user chose for a contact.
ChoicesKept == chosen = {j \in DOMAIN stored.items : stored.items[j].muted}

\* The items are shown as they are stored, with no group that was not announced, and are the ones
\* of the server once its roster is received.
RosterShown ==
    /\ Settled => shown = stored.items
    /\ GroupsOf(shown) \subseteq announced
    /\ Quiet /\ connected /\ manager.state = "received" =>
          Plain(stored.items) = Current /\ manager.contacts = DOMAIN Current

\* Nobody who waits for an answer is overlooked, except for a stranger whose addition failed.
AsksAnswerable ==
    Quiet /\ connected /\ manager.state = "received" =>
        \A p \in asks :
            p[1] \in {q[1] : q \in subscriptions.unresponded} \/ p[1] \notin DOMAIN Current

=============================================================================
