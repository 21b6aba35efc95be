------------------------------- MODULE GroupChats -------------------------------
(***************************************************************************)
(* Group chats: the operations of GroupChatController and MixController on *)
(* channels (MIX), bookmarked rooms (MucController, MUC), their items in   *)
(* the database (RosterDb) and in RosterModel.                             *)
(*                                                                         *)
(* A joined channel is a contact of the roster, on which the server and    *)
(* other clients of the account agree; a bookmark belongs to no roster.    *)
(* Answers of a channel's service come in any order.                       *)
(***************************************************************************)
EXTENDS ClientPart

CONSTANTS
    GroupJids,
    PublicGroups,   \* those that are created as public ones
    NoGroup

VARIABLES
    channels,       \* of each existing channel: its name, whether it keeps lists of allowed and of
                    \* banned users, whether a certain contact is in them
    joined,         \* channels in the roster on the server
    bookmarked,     \* bookmarks on the server
    groupItems,     \* table "chats": origin, name, accessibility, whether deleted
    groupsShown,    \* origin of the items of RosterModel
    controller,     \* m_busy and m_processedGroupChatJid
    invited,        \* group chats to which the contact was invited
    was,            \* history: the group chats that were joined and those that were bookmarked
    hidden,         \* history: a bookmark was not stored since it was shown at that moment
    lost,           \* history: a request failed or a connection was lost
    crashed         \* the database ended the process

groupVars == <<channels, joined, bookmarked, groupItems, groupsShown, controller, invited, was,
               hidden, lost, crashed>>

NoGroups == [c \in {} |-> {}]
Idle == [busy |-> FALSE, processed |-> NoGroup]
NewChannel(c) == [name |-> 0, allowing |-> c \notin PublicGroups, banning |-> FALSE,
                  allowed |-> FALSE, banned |-> FALSE]
NewItem(origin) == [origin |-> origin, name |-> 0, access |-> "unknown", deleted |-> FALSE]
Access(c) == IF c \in PublicGroups THEN "public" ELSE "private"
With(f, c, v) == [k \in DOMAIN f \cup {c} |-> IF k = c THEN v ELSE f[k]]
Without(f, c) == [k \in DOMAIN f \ {c} |-> f[k]]

GroupsInit ==
    /\ channels \in {NoGroups} \cup {With(NoGroups, c, NewChannel(c)) : c \in GroupJids}
    /\ joined = {} /\ bookmarked = {}
    /\ groupItems = NoGroups /\ groupsShown = NoGroups /\ controller = Idle /\ invited = {}
    /\ was = [joined |-> {}, bookmarked |-> {}] /\ hidden = FALSE /\ lost = FALSE /\ crashed = FALSE

serviceVars == <<channels, joined, bookmarked, was>>
SetIdle == controller' = [controller EXCEPT !.busy = FALSE]
GroupRequest(op, c) == [op |-> op, chat |-> c]
ItemUpdate(op, c) == [op |-> op, chat |-> c]

-----------------------------------------------------------------------------
(* The user.  The page of an operation is disabled while the controller is *)
(* busy.                                                                   *)

\* A private group chat gets a JID that nothing else has or had.
Unused(c) ==
    /\ c \notin DOMAIN channels \cup joined \cup bookmarked \cup invited \cup DOMAIN groupItems
    /\ \A e \in ToSet(requests \o stream) : e.op \notin {"roster", "bookmarks"} => e.chat # c

\* createPrivateGroupChat(), createPublicGroupChat(), joinGroupChat(), leaveGroupChat(),
\* deleteGroupChat()
StartOperation(op, c) ==
    /\ connected /\ ~controller.busy /\ Step
    /\ op = "create" => c \in PublicGroups \/ Unused(c)
    /\ op \in {"leave", "delete"} => c \in DOMAIN groupsShown /\ groupsShown[c] = "roster"
    /\ requests' = Append(requests, GroupRequest(op, c))
    /\ controller' = [busy |-> TRUE, processed |-> IF op = "join" THEN c ELSE controller.processed]
    /\ UNCHANGED <<serviceVars, groupItems, groupsShown, invited, hidden, lost, crashed, jobs,
                   results, stream, connected, failures>>

\* inviteContactToChannel(), banUser() and renameChannel() first ask for what the channel has.
StartRequest(op, c) ==
    /\ connected /\ c \in DOMAIN groupsShown /\ groupsShown[c] = "roster" /\ Step
    /\ IF op = "invite" /\ c \in DOMAIN groupItems /\ groupItems[c].access = "public"
       THEN invited' = invited \cup {c} /\ UNCHANGED requests
       ELSE requests' = Append(requests, GroupRequest(op, c)) /\ UNCHANGED invited
    /\ UNCHANGED <<serviceVars, groupItems, groupsShown, controller, hidden, lost, crashed, jobs,
                   results, stream, connected, failures>>

-----------------------------------------------------------------------------
(* Services and server.                                                    *)

AnswerTo(request, ok) == [op |-> request.op, chat |-> request.chat, ok |-> ok]
Event(op, c) == [op |-> op, chat |-> c, ok |-> TRUE]

\* What a request does and what the client is sent
ServeGroupRequest(request, c) ==
    LET exists == c \in DOMAIN channels
        mayJoin == exists /\ ~channels[c].banned
        ok(events) == stream' = stream \o events \o <<AnswerTo(request, TRUE)>>
        no == stream' = Append(stream, AnswerTo(request, FALSE))
    IN  \/ /\ request.op = "create"
           /\ IF exists THEN no /\ UNCHANGED channels
              ELSE ok(<<>>) /\ channels' = With(channels, c, NewChannel(c))
           /\ UNCHANGED <<joined, was>>
        \/ /\ request.op = "join"
           /\ IF mayJoin THEN joined' = joined \cup {c} /\ ok(<<Event("roster added", c)>>)
              ELSE no /\ UNCHANGED joined
           /\ was' = [was EXCEPT !.joined = @ \cup joined'] /\ UNCHANGED channels
        \/ /\ request.op = "leave"
           /\ joined' = joined \ {c}
           /\ IF c \in joined THEN ok(<<Event("roster removed", c)>>) ELSE no
           /\ UNCHANGED <<channels, was>>
        \/ /\ request.op = "delete"
           /\ IF exists
              THEN ok(IF c \in joined THEN <<Event("channel deleted", c)>> ELSE <<>>)
                   /\ channels' = Without(channels, c)
              ELSE no /\ UNCHANGED channels
           /\ UNCHANGED <<joined, was>>
        \/ /\ request.op \in {"accessibility", "information", "invite", "ban", "rename"}
           /\ IF exists THEN ok(<<>>) ELSE no
           /\ UNCHANGED <<channels, joined, was>>
        \/ /\ request.op \in {"set name", "allow", "set banning", "set banned"}
           /\ IF exists
              THEN /\ channels' = [channels EXCEPT ![c] =
                          CASE request.op = "set name" -> [@ EXCEPT !.name = 1]
                            [] request.op = "allow" -> [@ EXCEPT !.allowed = TRUE]
                            [] request.op = "set banning" -> [@ EXCEPT !.banning = TRUE]
                            [] request.op = "set banned" -> [@ EXCEPT !.banned = channels[c].banning]]
                   /\ ok(IF request.op = "set name" /\ c \in joined
                         THEN <<Event("information", c)>> ELSE <<>>)
              ELSE no /\ UNCHANGED channels
           /\ UNCHANGED <<joined, was>>

\* The services of two group chats answer independently.
ServeGroups ==
    /\ \E i \in DOMAIN requests :
          /\ \A k \in 1..(i - 1) : requests[k].chat # requests[i].chat
          /\ requests' = RemoveAt(requests, i)
          /\ \/ ServeGroupRequest(requests[i], requests[i].chat) /\ UNCHANGED failures
             \/ /\ Fail
                /\ stream' = Append(stream, AnswerTo(requests[i], FALSE))
                /\ UNCHANGED <<channels, joined, was>>
    /\ UNCHANGED <<bookmarked, groupItems, groupsShown, controller, invited, hidden, lost, crashed,
                   jobs, results, connected, steps>>

TellClient(event) == stream' = IF connected THEN Append(stream, event) ELSE stream

\* Another client of the account joins or leaves a channel or sets a bookmark.
JoinedByOtherClient(c) ==
    /\ Step
    /\ \/ /\ c \in joined /\ joined' = joined \ {c} /\ TellClient(Event("roster removed", c))
       \/ /\ c \in DOMAIN channels \ joined
          /\ joined' = joined \cup {c} /\ TellClient(Event("roster added", c))
    /\ was' = [was EXCEPT !.joined = @ \cup joined']
    /\ UNCHANGED <<channels, bookmarked, groupItems, groupsShown, controller, invited, hidden, lost,
                   crashed, jobs, results, requests, connected, failures>>

BookmarkedByOtherClient(c) ==
    /\ Step
    /\ \/ /\ c \in bookmarked
          /\ bookmarked' = bookmarked \ {c} /\ TellClient(Event("bookmark removed", c))
       \/ /\ c \notin bookmarked
          /\ bookmarked' = bookmarked \cup {c} /\ TellClient(Event("bookmark added", c))
    /\ was' = [was EXCEPT !.bookmarked = @ \cup bookmarked']
    /\ UNCHANGED <<channels, joined, groupItems, groupsShown, controller, invited, hidden, lost,
                   crashed, jobs, results, requests, connected, failures>>

\* The owner of a channel deletes it.
DeletedByOwner(c) ==
    /\ c \in DOMAIN channels /\ Step
    /\ channels' = Without(channels, c)
    /\ stream' = IF connected /\ c \in joined THEN Append(stream, Event("channel deleted", c))
                 ELSE stream
    /\ UNCHANGED <<joined, bookmarked, was, groupItems, groupsShown, controller, invited, hidden,
                   lost, crashed, jobs, results, requests, connected, failures>>

\* A new stream, over which roster and bookmarks are received; the requests of the lost one failed.
ConnectGroups ==
    /\ ~connected /\ Step
    /\ connected' = TRUE
    /\ stream' = <<[op |-> "roster", chats |-> joined, ok |-> TRUE],
                   [op |-> "bookmarks", chats |-> bookmarked, ok |-> TRUE]>>
    /\ UNCHANGED <<groupVars, jobs, results, requests, failures>>

DisconnectGroups ==
    /\ connected /\ Step
    /\ connected' = FALSE
    /\ stream' = [i \in DOMAIN requests |-> AnswerTo(requests[i], FALSE)]
    /\ requests' = <<>>
    /\ lost' = TRUE
    /\ UNCHANGED <<serviceVars, groupItems, groupsShown, controller, invited, hidden, crashed, jobs,
                   results, failures>>

-----------------------------------------------------------------------------
(* Answers and events.                                                     *)

\* createChats(): bookmarks of group chats that are shown are left out.
NewBookmarks(bookmarks) == bookmarks \ DOMAIN groupsShown
StoreBookmarks(op, bookmarks) ==
    /\ jobs' = Append(jobs, [op |-> op, chats |-> NewBookmarks(bookmarks)])
    /\ hidden' = (hidden \/ NewBookmarks(bookmarks) # bookmarks)

\* A fault: who is invited to a private group chat is not allowed to join it.
ContinuedUnlessInviting(answer) ==
    LET c == answer.chat
    IN  CASE answer.op = "rename" -> <<GroupRequest("set name", c)>>
          [] answer.op = "delete" -> <<GroupRequest("leave", c)>>
          [] OTHER -> <<>>

\* The continuations that send another request
Continued(answer) ==
    LET c == answer.chat
    IN  CASE answer.op = "rename" -> <<GroupRequest("set name", c)>>
          [] answer.op = "invite" /\ c \in DOMAIN channels /\ channels[c].allowing ->
                <<GroupRequest("allow", c)>>
          [] answer.op = "ban" -> <<GroupRequest(IF c \in DOMAIN channels /\ channels[c].banning
                                                 THEN "set banned" ELSE "set banning", c)>>
          [] answer.op = "set banning" -> <<GroupRequest("set banned", c)>>
          [] answer.op = "delete" -> <<GroupRequest("leave", c)>>
          [] OTHER -> <<>>

Ends(answer) == answer.op \in {"create", "leave", "channel deleted"}
                \/ (~answer.ok /\ answer.op \in {"join", "delete"})

\* What is stored: groupChatMadePublic(), groupChatMadePrivate(), handleChannelInformationUpdated(),
\* groupChatDeleted() and RosterStorage
StoredFor(answer) ==
    LET c == answer.chat
    IN  CASE answer.op = "accessibility" ->
                <<[op |-> "access", chat |-> c, access |-> Access(c)]>>
          [] answer.op = "information" ->
                <<[op |-> "name", chat |-> c,
                   name |-> IF c \in DOMAIN channels THEN channels[c].name ELSE 0]>>
          [] answer.op = "channel deleted" -> <<ItemUpdate("deleted", c)>>
          [] answer.op = "roster added" -> <<ItemUpdate("upsert", c)>>
          [] answer.op = "roster removed" -> <<ItemUpdate("remove", c)>>
          [] answer.op = "bookmark removed" -> <<ItemUpdate("remove", c)>>
          [] OTHER -> <<>>

ReceiveAnswer ==
    LET answer == Head(stream)
    IN  /\ stream # <<>>
        /\ stream' = Tail(stream)
        /\ lost' = (lost \/ ~answer.ok)
        /\ IF answer.op = "bookmarks"
           THEN StoreBookmarks("replace bookmarks", answer.chats) /\ UNCHANGED <<requests,
                                                                                 controller,
                                                                                 invited>>
           ELSE IF answer.op = "roster"
           THEN /\ jobs' = Append(jobs, [op |-> "replace roster", chats |-> answer.chats])
                /\ UNCHANGED <<hidden, requests, controller, invited>>
           ELSE IF answer.op = "bookmark added"
           THEN StoreBookmarks("add bookmarks", {answer.chat}) /\ UNCHANGED <<requests, controller,
                                                                              invited>>
           ELSE /\ jobs' = IF answer.ok THEN jobs \o StoredFor(answer) ELSE jobs
                /\ requests' = IF connected /\ (answer.ok \/ answer.op = "set banning")
                               THEN requests \o Continued(answer) ELSE requests
                /\ invited' = IF answer.ok /\ (answer.op = "allow" \/
                                               (answer.op = "invite" /\ Continued(answer) = <<>>))
                              THEN invited \cup {answer.chat} ELSE invited
                /\ IF Ends(answer) THEN SetIdle ELSE UNCHANGED controller
                /\ UNCHANGED hidden
        /\ UNCHANGED <<serviceVars, groupItems, groupsShown, crashed, results, connected, steps,
                       failures>>

-----------------------------------------------------------------------------
(* The database and RosterModel.                                           *)

OfOrigin(origin) == {c \in DOMAIN groupItems : groupItems[c].origin = origin}

\* _replaceItems() removes, keeps and adds items of an origin.
ReplacedItems(chats, origin) ==
    [c \in (DOMAIN groupItems \ (OfOrigin(origin) \ chats)) \cup chats |->
        IF c \in DOMAIN groupItems THEN groupItems[c] ELSE NewItem(origin)]

\* _addItem() of a group chat with an item violates the primary key: the process is ended.
Violates(chats, origin) == chats \cap (DOMAIN groupItems \ origin) # {}

ItemsThen(job) ==
    CASE job.op = "replace bookmarks" -> ReplacedItems(job.chats, "bookmarks")
      [] job.op = "add bookmarks" -> ReplacedItems(OfOrigin("bookmarks") \cup job.chats, "bookmarks")
      [] job.op = "replace roster" -> ReplacedItems(job.chats, "roster")
      [] job.op = "upsert" /\ job.chat \notin DOMAIN groupItems ->
            With(groupItems, job.chat, NewItem("roster"))
      [] job.op = "remove" -> Without(groupItems, job.chat)
      [] job.op \in {"access", "name", "deleted"} /\ job.chat \in DOMAIN groupItems ->
            [groupItems EXCEPT ![job.chat] =
                CASE job.op = "access" -> [@ EXCEPT !.access = job.access]
                  [] job.op = "name" -> [@ EXCEPT !.name = job.name]
                  [] job.op = "deleted" -> [@ EXCEPT !.deleted = TRUE]]
      [] OTHER -> groupItems

RunGroupJob ==
    LET job == Head(jobs)
        items == ItemsThen(job)
    IN  /\ jobs # <<>> /\ ~crashed
        /\ jobs' = Tail(jobs)
        /\ crashed' = (\/ job.op = "replace bookmarks" /\ Violates(job.chats, OfOrigin("bookmarks"))
                       \/ job.op = "add bookmarks" /\ Violates(job.chats, {})
                       \/ job.op = "replace roster" /\ Violates(job.chats, OfOrigin("roster")))
        /\ groupItems' = items
        /\ results' = results
              \o SetToSeq({[op |-> "removed", chat |-> c] : c \in DOMAIN groupItems \ DOMAIN items})
              \o SetToSeq({[op |-> "added", chat |-> c, origin |-> items[c].origin] :
                              c \in DOMAIN items \ DOMAIN groupItems})
        /\ UNCHANGED <<serviceVars, groupsShown, controller, invited, hidden, lost, requests,
                       stream, connected, steps, failures>>

\* requestGroupChatData() and handleRosterItemAdded()
HandleItem ==
    LET result == Head(results)
        c == result.chat
    IN  /\ results # <<>>
        /\ results' = Tail(results)
        /\ IF result.op = "added"
           THEN /\ groupsShown' = With(groupsShown, c, result.origin)
                /\ requests' = IF connected /\ result.origin = "roster"
                               THEN requests \o <<GroupRequest("accessibility", c),
                                                  GroupRequest("information", c)>> ELSE requests
                /\ controller' = IF controller.processed = c THEN Idle ELSE controller
           ELSE groupsShown' = Without(groupsShown, c) /\ UNCHANGED <<requests, controller>>
        /\ UNCHANGED <<serviceVars, groupItems, invited, hidden, lost, crashed, jobs, stream,
                       connected, steps, failures>>

GroupsNext ==
    /\ ~crashed
    /\ \/ \E c \in GroupJids :
             \/ \E op \in {"create", "join", "leave", "delete"} : StartOperation(op, c)
             \/ \E op \in {"invite", "ban", "rename"} : StartRequest(op, c)
             \/ JoinedByOtherClient(c) \/ BookmarkedByOtherClient(c) \/ DeletedByOwner(c)
       \/ ServeGroups \/ ConnectGroups \/ DisconnectGroups
       \/ ReceiveAnswer \/ RunGroupJob \/ HandleItem

-----------------------------------------------------------------------------
(* Properties.                                                             *)

\* A group chat was joined as a channel and bookmarked, at the same time or one after the other: the
\* item of one of them may still be stored when the other one is received.
Clash == was.joined \cap was.bookmarked # {}

\* No operation stays shown as running, except joining a channel that is shown already, that was
\* left again or that was joined both ways.
OperationsEnd ==
    Quiet /\ connected /\ ~Clash /\ controller.busy =>
        controller.processed \in DOMAIN groupsShown \/ controller.processed \notin joined

\* The joined channels are stored and shown, with their name and whether they are public, and so
\* are the bookmarks that were not shown when they were received.
GroupsStored ==
    Quiet /\ connected /\ ~Clash =>
        /\ OfOrigin("roster") = joined
        /\ ~hidden => OfOrigin("bookmarks") = bookmarked
        /\ groupsShown = [c \in DOMAIN groupItems |-> groupItems[c].origin]
        /\ ~lost => \A c \in joined \cap DOMAIN channels :
                       \/ groupItems[c].deleted
                       \/ /\ groupItems[c].name = channels[c].name
                          /\ groupItems[c].access = Access(c)

\* Who was invited may join.
InvitedMayJoin ==
    \A c \in invited \cap DOMAIN channels : channels[c].allowing => channels[c].allowed

\* Only a group chat that was joined both ways makes the database end the process.
NoClash == crashed => Clash

=============================================================================
