------------------------------ MODULE ChatList ------------------------------
(***************************************************************************)
(* The list of chats: the stored roster (RosterDb), the items shown        *)
(* (RosterModel), how messages received or removed change their counters   *)
(* and order, what is read here or on another device and the read markers  *)
(* for it (MessageModel, MessageController), notifications                 *)
(* (NotificationController) and the roster additions that a message of a   *)
(* stranger waits for (RosterController).                                  *)
(*                                                                         *)
(* The database thread runs jobs, the main thread handles their signals.   *)
(* The count of unread messages is a third step: a job that counts, whose  *)
(* continuation has no context object and thus runs on the database        *)
(* thread. It writes to the list through an iterator taken before the job  *)
(* was enqueued, here the index of the item at that time.                  *)
(*                                                                         *)
(* A chat is a number that stands for its place among the display names.   *)
(* A message is known by the time it was sent; its ID is that number, or   *)
(* another one after a correction.  There is one account without group     *)
(* chats, pinned chats and drafts.                                         *)
(***************************************************************************)
EXTENDS Naturals, FiniteSets, SequencesExt

CONSTANTS
    Chats,             \* the contacts and the own address
    Self,              \* the own address: the chat with oneself
    InitialContacts,   \* the chats in the roster at the beginning
    SelfAllowed,       \* whether the server accepts the own address as a contact
    InOrder,           \* whether messages arrive and are marked as read elsewhere or in
                       \* notifications in the order in which they were sent
    Waits,             \* whether user, server and contacts wait until nothing is queued
    MaxMessages, MaxCorrections, MaxRequests, MaxDisconnections, MaxFailures   \* bounds

ASSUME ConstantsAssumption ==
    /\ Chats \subseteq Nat /\ IsFiniteSet(Chats) /\ Self \in Chats /\ InitialContacts \subseteq Chats
    /\ {SelfAllowed, InOrder, Waits} \subseteq BOOLEAN
    /\ {MaxMessages, MaxCorrections, MaxRequests, MaxDisconnections, MaxFailures} \subseteq Nat

VARIABLES
    rows,        \* table "chats": a function from the stored chats
    messages,    \* table "messages": the messages of each chat
    list,        \* RosterModel::m_items
    jobs,        \* queue of the database thread
    signals,     \* signals of the database components on their way to the main thread
    net,         \* the connection and what is going on with the server
    waiting,     \* messages that wait for RosterModel::itemAdded(): [chat, message]
    adding,      \* RosterController::m_pendingAutomaticInitialAdditionJids
    notes,       \* m_openMessageNotifications: the ID of the latest message, 0 if there is none
    past,        \* history variables
    counters     \* numbers of the events that are bounded

vars == <<rows, messages, list, jobs, signals, net, waiting, adding, notes, past, counters>>

Message == [time : 1..MaxMessages, id : 1..(2 * MaxMessages), own : BOOLEAN]
None == [time |-> 0, id |-> 0, own |-> FALSE]
Row == [lastRead : 0..(2 * MaxMessages), pending : BOOLEAN]
Item == [chat : Chats, row : Row, unread : 0..MaxMessages, last : Message \cup {None}]

CorrectedId(time) == time + MaxMessages
SentAt(id) == ((id - 1) % MaxMessages) + 1
LatestOf(time, id) == IF SentAt(id) > time THEN SentAt(id) ELSE time

Latest(ms) == IF ms = {} THEN None ELSE CHOOSE m \in ms : \A n \in ms : n.time <= m.time

-----------------------------------------------------------------------------
(* Queries.                                                                *)

\* An ID of no stored message compares with NULL and finds nothing.
UnreadMessages(c, lastRead) ==
    IF lastRead = 0
    THEN {m \in messages[c] : ~m.own}
    ELSE {m \in messages[c] : ~m.own /\ \E r \in messages[c] : r.id = lastRead /\ r.time < m.time}

LoadedItem(c, row) ==
    [chat |-> c, row |-> row, unread |-> Cardinality(UnreadMessages(c, row.lastRead)),
     last |-> Latest(messages[c])]

\* What is not in a roster item of the server has its default.
NewItem(c) == [chat |-> c, row |-> [lastRead |-> 0, pending |-> FALSE], unread |-> 0, last |-> None]

-----------------------------------------------------------------------------
(* The list.                                                               *)

Listed == {list[i].chat : i \in DOMAIN list}
IndexOf(c) == CHOOSE i \in DOMAIN list : list[i].chat = c
Order == [i \in DOMAIN list |-> list[i].chat]

AtMost(a, b) == a.last.time > b.last.time \/ (a.last.time = b.last.time /\ a.chat <= b.chat)

Inserted(items, item) ==
    LET i == SelectInSeq(items, LAMBDA other : AtMost(item, other))
    IN InsertAt(items, IF i = 0 THEN Len(items) + 1 ELSE i, item)

Repositioned(items, i) == Inserted(RemoveAt(items, i), items[i])

\* Whether and to what a message becomes the last one of an item.
Replaces(item, m, onlyIfNewer) ==
    /\ item.last = None \/ ~onlyIfNewer \/ item.last.time <= m.time
    /\ item.last # m

WithLast(i, m, onlyIfNewer) ==
    IF Replaces(list[i], m, onlyIfNewer) THEN [list EXCEPT ![i].last = m] ELSE list

\* Nothing is queued or being handled.
Quiet == jobs = <<>> /\ signals = <<>>
Ready == Waits => Quiet

Init ==
    /\ rows = [c \in InitialContacts |-> [lastRead |-> 0, pending |-> FALSE]]
    /\ messages = [c \in Chats |-> {}]
    /\ list = SetToSortSeq({NewItem(c) : c \in InitialContacts}, AtMost)
    /\ jobs = <<>> /\ signals = <<>>
    /\ net = [connected |-> FALSE, due |-> {}, contacts |-> InitialContacts, requests |-> {},
              selfAllowed |-> TRUE]
    /\ waiting = {} /\ adding = {}
    /\ notes = [c \in Chats |-> 0]
    /\ past = [received |-> {}, corrected |-> {}, marked |-> {}, refused |-> {},
               read |-> [c \in Chats |-> 0], upTo |-> [c \in Chats |-> 0],
               astray |-> FALSE, apart |-> {}]
    /\ counters = [requests |-> 0, disconnections |-> 0, failures |-> 0]

Counted(kind, max) == counters[kind] < max /\ counters' = [counters EXCEPT ![kind] = @ + 1]

-----------------------------------------------------------------------------
(* The database thread.                                                    *)

\* _updateItem(): the job changes a stored row and signals the whole item.
Updated(c, row, changed) ==
    IF changed
    THEN /\ rows' = [rows EXCEPT ![c] = row]
         /\ signals' = Append(signals, [about |-> "itemUpdated", item |-> LoadedItem(c, row)])
    ELSE UNCHANGED <<rows, signals>>

RowAfter(j) ==
    CASE j.op = "read" -> [lastRead |-> j.id, pending |-> j.pending]
      [] j.op = "lastRead" -> [rows[j.chat] EXCEPT !.lastRead = j.id]
      [] j.op = "markerSent" -> [rows[j.chat] EXCEPT !.pending = FALSE]
      [] j.op = "lastReadOwn" -> rows[j.chat]

\* The change of the last own message read by the contact is only known by its signal.
UpdateRow(j) ==
    /\ j.op \in {"read", "lastRead", "lastReadOwn", "markerSent"}
    /\ IF j.chat \in DOMAIN rows
       THEN Updated(j.chat, RowAfter(j), j.op = "lastReadOwn" \/ RowAfter(j) # rows[j.chat])
       ELSE UNCHANGED <<rows, signals>>
    /\ jobs' = Tail(jobs)
    /\ UNCHANGED <<messages, list>>

\* A push of the roster that adds a contact: a stored item keeps its row.
AddRow(j) ==
    /\ j.op = "upsert"
    /\ IF j.chat \in DOMAIN rows
       THEN UNCHANGED <<rows, signals>>
       ELSE /\ rows' = (j.chat :> NewItem(j.chat).row) @@ rows
            /\ signals' = Append(signals, [about |-> "itemAdded", item |-> NewItem(j.chat)])
    /\ jobs' = Tail(jobs)
    /\ UNCHANGED <<messages, list>>

RemoveRow(j) ==
    /\ j.op = "remove"
    /\ rows' = [c \in DOMAIN rows \ {j.chat} |-> rows[c]]
    /\ signals' = Append(signals, [about |-> "itemRemoved", chat |-> j.chat])
    /\ jobs' = Tail(jobs)
    /\ UNCHANGED <<messages, list>>

\* The roster received after a login replaces the stored one.
ReplaceRows(j) ==
    /\ j.op = "replace"
    /\ LET gone == DOMAIN rows \ j.contacts
           new == j.contacts \ DOMAIN rows
       IN /\ rows' = [c \in j.contacts |-> IF c \in new THEN NewItem(c).row ELSE rows[c]]
          /\ signals' = signals
                \o SetToSeq({[about |-> "itemRemoved", chat |-> c] : c \in gone})
                \o SetToSeq({[about |-> "itemAdded", item |-> NewItem(c)] : c \in new})
    /\ jobs' = Tail(jobs)
    /\ UNCHANGED <<messages, list>>

AddMessage(j) ==
    /\ j.op = "add"
    /\ messages' = [messages EXCEPT ![j.chat] = @ \cup {j.message}]
    /\ signals' = Append(signals, [about |-> "messageAdded", chat |-> j.chat, message |-> j.message])
    /\ jobs' = Tail(jobs)
    /\ UNCHANGED <<rows, list>>

\* A correction that finds its message replaces the ID.
CorrectMessage(j) ==
    /\ j.op = "correct"
    /\ LET found == {m \in messages[j.chat] : m.id = j.time}
           new == {[m EXCEPT !.id = CorrectedId(j.time)] : m \in found}
       IN /\ messages' = [messages EXCEPT ![j.chat] = (@ \ found) \cup new]
          /\ signals' = signals
                \o SetToSeq({[about |-> "messageUpdated", chat |-> j.chat, message |-> m] : m \in new})
    /\ jobs' = Tail(jobs)
    /\ UNCHANGED <<rows, list>>

RemoveMessage(j) ==
    /\ j.op = "removeMessage"
    /\ LET left == {m \in messages[j.chat] : m.time # j.time}
       IN /\ messages' = [messages EXCEPT ![j.chat] = left]
          /\ signals' = Append(signals,
                [about |-> "messageRemoved", chat |-> j.chat, message |-> Latest(left)])
    /\ jobs' = Tail(jobs)
    /\ UNCHANGED <<rows, list>>

RemoveMessages(j) ==
    /\ j.op = "removeMessages"
    /\ messages' = [messages EXCEPT ![j.chat] = {}]
    /\ jobs' = Tail(jobs)
    /\ UNCHANGED <<rows, list, signals>>

\* The iterators written to by a continuation: if the list has changed since, the item may be
\* another one, and the memory may not belong to the list anymore.
Written(j) == IF j.order = Order THEN {j.index} ELSE ({j.index} \cap DOMAIN list) \cup {0}

MarkedJob(i, changed) == [op |-> "countMarked", index |-> i, changed |-> changed, order |-> Order]

\* Counting for a message that was added, or for one that was removed, which counts the marked
\* messages in another job before the item is moved.
Count(j) ==
    /\ j.op = "count"
    /\ LET unread == Cardinality(UnreadMessages(j.chat, j.lastRead))
       IN \E i \in Written(j) :
            IF i = 0 THEN UNCHANGED list /\ jobs' = Tail(jobs)
            ELSE LET counted == [list EXCEPT ![i].unread = unread]
                     changed == j.changed \/ unread # list[i].unread
                 IN IF j.removed
                    THEN /\ list' = counted
                         /\ jobs' = Append(Tail(jobs), MarkedJob(i, changed))
                    ELSE /\ list' = IF changed THEN Repositioned(counted, i) ELSE counted
                         /\ jobs' = Tail(jobs)
    /\ UNCHANGED <<rows, messages, signals>>

CountMarked(j) ==
    /\ j.op = "countMarked"
    /\ \E i \in Written(j) : list' = IF i # 0 /\ j.changed THEN Repositioned(list, i) ELSE list
    /\ jobs' = Tail(jobs)
    /\ UNCHANGED <<rows, messages, signals>>

RunJob ==
    /\ jobs # <<>>
    /\ LET j == Head(jobs)
       IN /\ \/ UpdateRow(j) \/ AddRow(j) \/ RemoveRow(j) \/ ReplaceRows(j)
             \/ AddMessage(j) \/ CorrectMessage(j) \/ RemoveMessage(j) \/ RemoveMessages(j)
             \/ Count(j) \/ CountMarked(j)
          /\ past' = [past EXCEPT !.astray =
                @ \/ (j.op \in {"count", "countMarked"} /\ j.order # Order)]
    /\ UNCHANGED <<net, waiting, adding, notes, counters>>

-----------------------------------------------------------------------------
(* The main thread: signals of the database components.                    *)

AddJob(c, m) == [op |-> "add", chat |-> c, message |-> m]

CountJob(i, m, removed) ==
    [op |-> "count", index |-> i, chat |-> list[i].chat, lastRead |-> list[i].row.lastRead,
     changed |-> Replaces(list[i], m, ~removed), removed |-> removed, order |-> Order]

\* The sender of a message, whom the roster must contain before the message is stored.
Sender(w) == IF w.message.own THEN Self ELSE w.chat

\* A fault: the messages that wait for the item go on waiting.
ItemAddedOnly(s) ==
    /\ s.about = "itemAdded"
    /\ list' = Inserted(list, s.item)
    /\ adding' = adding \ {s.item.chat}
    /\ UNCHANGED <<jobs, waiting, notes>>

ItemAdded(s) ==
    /\ s.about = "itemAdded"
    /\ LET stored == {w \in waiting : Sender(w) = s.item.chat}
       IN /\ waiting' = waiting \ stored
          /\ jobs' = jobs \o [i \in 1..Cardinality(stored) |->
                LET w == SetToSortSeq(stored, LAMBDA a, b : a.message.time < b.message.time)[i]
                IN AddJob(w.chat, w.message)]
    /\ list' = Inserted(list, s.item)
    /\ adding' = adding \ {s.item.chat}
    /\ UNCHANGED notes

ItemUpdated(s) ==
    /\ s.about = "itemUpdated"
    /\ list' = IF s.item.chat \in Listed
               THEN LET i == IndexOf(s.item.chat) IN Repositioned([list EXCEPT ![i] = s.item], i)
               ELSE list
    /\ UNCHANGED <<jobs, waiting, adding, notes>>

ItemRemoved(s) ==
    /\ s.about = "itemRemoved"
    /\ list' = SelectSeq(list, LAMBDA item : item.chat # s.chat)
    /\ UNCHANGED <<jobs, waiting, adding, notes>>

\* Messages of the contact raise a notification unless the user is looking at the chat, own ones
\* close it.
NotesAfter(s) ==
    IF s.message.own THEN {[notes EXCEPT ![s.chat] = 0]}
                     ELSE {notes, [notes EXCEPT ![s.chat] = s.message.id]}

MessageAdded(s) ==
    /\ s.about = "messageAdded"
    /\ IF s.chat \in Listed
       THEN LET i == IndexOf(s.chat)
            IN /\ list' = WithLast(i, s.message, TRUE)
               /\ jobs' = Append(jobs, CountJob(i, s.message, FALSE))
       ELSE UNCHANGED <<list, jobs>>
    /\ notes' \in NotesAfter(s)
    /\ UNCHANGED <<waiting, adding>>

MessageUpdated(s) ==
    /\ s.about = "messageUpdated"
    /\ IF s.chat \in Listed
       THEN LET i == IndexOf(s.chat)
            IN /\ list' = WithLast(i, s.message, TRUE)
               /\ jobs' = Append(jobs, MarkedJob(i, Replaces(list[i], s.message, TRUE)))
       ELSE UNCHANGED <<list, jobs>>
    /\ notes' \in NotesAfter(s)
    /\ UNCHANGED <<waiting, adding>>

\* A fault: the item of the message before is not counted again.
MessageRemovedUncounted(s) ==
    /\ s.about = "messageRemoved"
    /\ list' = IF s.chat \in Listed THEN WithLast(IndexOf(s.chat), s.message, FALSE) ELSE list
    /\ UNCHANGED <<jobs, waiting, adding, notes>>

MessageRemoved(s) ==
    /\ s.about = "messageRemoved"
    /\ IF s.chat \in Listed
       THEN LET i == IndexOf(s.chat)
            IN /\ list' = WithLast(i, s.message, FALSE)
               /\ jobs' = Append(jobs, CountJob(i, s.message, TRUE))
       ELSE UNCHANGED <<list, jobs>>
    /\ UNCHANGED <<waiting, adding, notes>>

MessageSignals == {"messageAdded", "messageUpdated", "messageRemoved"}

HandleSignal ==
    /\ signals # <<>>
    /\ LET s == Head(signals)
       IN /\ \/ ItemAdded(s) \/ ItemUpdated(s) \/ ItemRemoved(s)
             \/ MessageAdded(s) \/ MessageUpdated(s) \/ MessageRemoved(s)
          /\ past' = [past EXCEPT !.apart =
                @ \cup IF s.about \in MessageSignals THEN {s.chat} \ Listed ELSE {}]
    /\ signals' = Tail(signals)
    /\ UNCHANGED <<rows, messages, net, counters>>

-----------------------------------------------------------------------------
(* The main thread: messages from the server.                              *)

\* RosterController::addContact() for the sender of a message.
AddAutomatically(c) ==
    /\ adding' = adding \cup {c}
    /\ net' = IF c \in adding \/ (c = Self /\ ~net.selfAllowed) THEN net
              ELSE [net EXCEPT !.requests = @ \cup {c}]

\* A fault: a stranger's message is stored while the stranger is added to the roster.
ReceiveAtOnce(c, own) ==
    /\ net.connected /\ Ready
    /\ c = Self => own
    /\ \E time \in 1..MaxMessages \ past.received :
         /\ InOrder => 1..(time - 1) \subseteq past.received
         /\ past' = [past EXCEPT !.received = @ \cup {time}]
         /\ jobs' = Append(jobs, AddJob(c, [time |-> time, id |-> time, own |-> own]))
         /\ IF c \in Listed THEN UNCHANGED <<adding, net>> ELSE AddAutomatically(c)
    /\ UNCHANGED <<rows, messages, list, signals, waiting, notes, counters>>

\* MessageController::handleMessage() for a message of a contact, or an own one that another
\* device sent.  Messages with oneself are own ones.
Receive(c, own) ==
    /\ net.connected /\ Ready
    /\ c = Self => own
    /\ \E time \in 1..MaxMessages \ past.received :
         /\ InOrder => 1..(time - 1) \subseteq past.received
         /\ past' = [past EXCEPT !.received = @ \cup {time}]
         /\ LET w == [chat |-> c, message |-> [time |-> time, id |-> time, own |-> own]]
            IN IF Sender(w) \in Listed
               THEN jobs' = Append(jobs, AddJob(c, w.message)) /\ UNCHANGED <<waiting, adding, net>>
               ELSE waiting' = waiting \cup {w} /\ AddAutomatically(Sender(w)) /\ UNCHANGED jobs
    /\ UNCHANGED <<rows, messages, list, signals, notes, counters>>

\* handleCorrection(): nothing waits here for the message to be stored.
ReceiveCorrection(c) ==
    /\ net.connected /\ Ready
    /\ Cardinality(past.corrected) < MaxCorrections
    /\ \E m \in messages[c] \cup {w.message : w \in {v \in waiting : v.chat = c}} :
         /\ ~m.own /\ m.time \notin past.corrected
         /\ past' = [past EXCEPT !.corrected = @ \cup {m.time}]
         /\ jobs' = Append(jobs, [op |-> "correct", chat |-> c, time |-> m.time])
    /\ UNCHANGED <<rows, messages, list, signals, net, waiting, adding, notes, counters>>

\* With InOrder, a message is not marked as read after a newer one.
Expected(c, id) == InOrder => past.upTo[c] <= SentAt(id)

\* handleReadMarker() for a marker that another device of the user has sent. contactMessageRead()
\* passes the own address first, which is what closeMessageNotification() gets.
ReadElsewhere(c) ==
    /\ net.connected /\ Ready /\ Counted("requests", MaxRequests)
    /\ \E m \in messages[c] :
         /\ ~m.own
         /\ Expected(c, m.id)
         /\ jobs' = Append(jobs, [op |-> "read", chat |-> c, id |-> m.id, pending |-> FALSE])
         /\ past' = [past EXCEPT !.marked = @ \cup {<<c, m.id>>}, !.upTo[c] = LatestOf(@, m.id)]
    /\ notes' = [notes EXCEPT ![Self] = 0]
    /\ UNCHANGED <<rows, messages, list, signals, net, waiting, adding>>

-----------------------------------------------------------------------------
(* The main thread: the user.                                              *)

\* What MessageModel shows of a chat: messages whose signals were handled.
Shown(c) ==
    {m \in messages[c] : \A i \in DOMAIN signals :
        signals[i].about \in {"messageAdded", "messageUpdated"} => signals[i].message # m}

\* sendReadMarker(): what is handed to the stream while it is connected goes out.
Marked(c, id) == IF net.connected THEN past.marked \cup {<<c, id>>} ELSE past.marked

ReadJob(c, m) == [op |-> "read", chat |-> c, id |-> m.id, pending |-> ~net.connected]

\* What is known of the messages that were read, after m has become the last one.
PastWithRead(c, m) ==
    [past EXCEPT !.read[c] = m.id, !.upTo[c] = LatestOf(@, m.id), !.marked = Marked(c, m.id)]

\* A fault: scrolling up reads an older message.
ReadAny(c) ==
    /\ c \in Listed /\ Ready /\ Counted("requests", MaxRequests)
    /\ \E read \in {m \in Shown(c) : ~m.own} :
         /\ read.id # list[IndexOf(c)].row.lastRead
         /\ jobs' = Append(jobs, ReadJob(c, read))
         /\ past' = PastWithRead(c, read)
    /\ notes' = [notes EXCEPT ![c] = 0]
    /\ UNCHANGED <<rows, messages, list, signals, net, waiting, adding>>

\* MessageModel::handleMessageRead() for a message m: the contact's message that becomes the last one
\* read, which is m or the one before it, unless it or a newer one already is.
NewlyRead(c, m) ==
    LET lastRead == list[IndexOf(c)].row.lastRead
        read == Latest({n \in Shown(c) : ~n.own /\ n.time <= m.time})
    IN IF (\E n \in Shown(c) : n.id = lastRead /\ n.time >= m.time) \/ read.id = lastRead
       THEN None
       ELSE read

ReadJobs(c, m) ==
    IF NewlyRead(c, m) = None THEN <<>> ELSE <<ReadJob(c, NewlyRead(c, m))>>

PastAfterReading(c, m) ==
    IF NewlyRead(c, m) = None THEN past ELSE PastWithRead(c, NewlyRead(c, m))

\* The chat shows the message m.
Read(c) ==
    /\ c \in Listed /\ Ready /\ Counted("requests", MaxRequests)
    /\ \E m \in Shown(c) :
         /\ NewlyRead(c, m) # None
         /\ jobs' = jobs \o ReadJobs(c, m)
         /\ past' = PastAfterReading(c, m)
    /\ notes' = [notes EXCEPT ![c] = 0]
    /\ UNCHANGED <<rows, messages, list, signals, net, waiting, adding>>

\* NotificationController::markAsRead() leaves readMarkerPending as it is.
MarkAsRead(c) ==
    /\ notes[c] # 0 /\ Expected(c, notes[c]) /\ c \in Listed
    /\ Ready /\ Counted("requests", MaxRequests)
    /\ jobs' = Append(jobs, [op |-> "lastRead", chat |-> c, id |-> notes[c]])
    /\ past' = [past EXCEPT !.marked = Marked(c, notes[c]), !.upTo[c] = LatestOf(@, notes[c])]
    /\ notes' = [notes EXCEPT ![c] = 0]
    /\ UNCHANGED <<rows, messages, list, signals, net, waiting, adding>>

RemovalJob(c, m) == [op |-> "removeMessage", chat |-> c, time |-> m.time]

\* MessageModel::removeMessage() of a message that neither side has read last.
DeleteMessage(c) ==
    /\ c \in Listed /\ Ready /\ Counted("requests", MaxRequests)
    /\ \E m \in Shown(c) :
         /\ list[IndexOf(c)].row.lastRead # m.time
         /\ jobs' = Append(jobs, RemovalJob(c, m))
    /\ UNCHANGED <<rows, messages, list, signals, net, waiting, adding, notes, past>>

\* MessageModel::removeMessage() of the last message read by the user, or of an own one that is the
\* last one read by the contact: the message before becomes that.  Whose message it is, is asked on
\* the database thread through an iterator that may then point to the message before.  Thus, what
\* was read may be unread afterwards if an own message is removed.
DeleteLastRead(c) ==
    /\ c \in Listed /\ Ready /\ Counted("requests", MaxRequests)
    /\ \E m \in Shown(c) :
         LET before == Latest({n \in Shown(c) : n.time < m.time})
             Reading(own) ==
                [op |-> IF own THEN "lastReadOwn" ELSE "lastRead", chat |-> c, id |-> before.id]
         IN /\ m.own \/ list[IndexOf(c)].row.lastRead = m.time
            /\ \E own \in IF before = None THEN {FALSE} ELSE {m.own, before.own} :
                 jobs' = jobs \o ReadJobs(c, m) \o <<Reading(own), RemovalJob(c, m)>>
            /\ past' = [PastAfterReading(c, m) EXCEPT !.upTo[c] = IF m.own THEN 0 ELSE @]
            /\ notes' = IF NewlyRead(c, m) = None THEN notes ELSE [notes EXCEPT ![c] = 0]
    /\ UNCHANGED <<rows, messages, list, signals, net, waiting, adding>>

\* RosterController::removeContact() and the push that follows: RosterStorage::removeItem() and
\* the removal of the messages.
RemoveContact(c) ==
    /\ net.connected /\ c \in net.contacts /\ Ready /\ Counted("requests", MaxRequests)
    /\ net' = [net EXCEPT !.contacts = @ \ {c}]
    /\ jobs' = jobs \o <<[op |-> "remove", chat |-> c], [op |-> "removeMessages", chat |-> c]>>
    /\ past' = [past EXCEPT !.read[c] = 0, !.upTo[c] = 0]
    /\ UNCHANGED <<rows, messages, list, signals, waiting, adding, notes>>

-----------------------------------------------------------------------------
(* The main thread: the connection.                                        *)

Connect ==
    /\ ~net.connected /\ Ready
    /\ net' = [net EXCEPT !.connected = TRUE, !.due = {"roster", "markers"}]
    /\ UNCHANGED <<rows, messages, list, jobs, signals, waiting, adding, notes, past, counters>>

\* The stream fails what was not answered; the server may have done it nevertheless.
Disconnect ==
    /\ net.connected /\ Ready /\ Counted("disconnections", MaxDisconnections)
    /\ \E done \in SUBSET net.requests :
         /\ Self \in done => SelfAllowed
         /\ net' = [net EXCEPT !.connected = FALSE, !.due = {}, !.requests = {},
                               !.contacts = @ \cup done]
    /\ past' = [past EXCEPT !.refused = @ \cup net.requests]
    /\ UNCHANGED <<rows, messages, list, jobs, signals, waiting, adding, notes>>

RosterReceived ==
    /\ net.connected /\ "roster" \in net.due /\ Ready
    /\ net' = [net EXCEPT !.due = @ \ {"roster"}]
    /\ jobs' = Append(jobs, [op |-> "replace", contacts |-> net.contacts])
    /\ UNCHANGED <<rows, messages, list, signals, waiting, adding, notes, past, counters>>

\* A fault: the markers are taken for sent.
ForgetPendingReadMarkers ==
    /\ net.connected /\ "markers" \in net.due /\ Ready
    /\ LET pending == {i \in DOMAIN list : list[i].row.pending /\ list[i].row.lastRead # 0}
       IN jobs' = jobs \o SetToSeq({[op |-> "markerSent", chat |-> list[i].chat] : i \in pending})
    /\ net' = [net EXCEPT !.due = @ \ {"markers"}]
    /\ UNCHANGED <<rows, messages, list, signals, waiting, adding, notes, past, counters>>

\* sendPendingReadMarkers() decides with the items of the list.
SendPendingReadMarkers ==
    /\ net.connected /\ "markers" \in net.due /\ Ready
    /\ LET pending == {i \in DOMAIN list : list[i].row.pending /\ list[i].row.lastRead # 0}
       IN /\ past' = [past EXCEPT !.marked =
                @ \cup {<<list[i].chat, list[i].row.lastRead>> : i \in pending}]
          /\ jobs' = jobs \o SetToSeq({[op |-> "markerSent", chat |-> list[i].chat] : i \in pending})
    /\ net' = [net EXCEPT !.due = @ \ {"markers"}]
    /\ UNCHANGED <<rows, messages, list, signals, waiting, adding, notes, counters>>

\* The answer to an addition: the push with the new item comes before it.
ContactAdded(c) ==
    /\ c \in net.requests /\ Ready /\ (c = Self => SelfAllowed)
    /\ net' = [net EXCEPT !.contacts = @ \cup {c}, !.requests = @ \ {c}]
    /\ jobs' = Append(jobs, [op |-> "upsert", chat |-> c])
    /\ UNCHANGED <<rows, messages, list, signals, waiting, adding, notes, past, counters>>

\* An addition that is refused is not tried again: only a new item ends it.
AdditionRefused(c) ==
    /\ c \in net.requests /\ Ready
    /\ IF c = Self /\ ~SelfAllowed THEN UNCHANGED counters ELSE Counted("failures", MaxFailures)
    /\ net' = [net EXCEPT !.requests = @ \ {c}, !.selfAllowed = @ /\ (c = Self => SelfAllowed)]
    /\ past' = [past EXCEPT !.refused = @ \cup {c}]
    /\ UNCHANGED <<rows, messages, list, jobs, signals, waiting, adding, notes>>

Answer(c) == ContactAdded(c) \/ AdditionRefused(c)

Next ==
    \/ RunJob \/ HandleSignal
    \/ Connect \/ Disconnect \/ RosterReceived \/ SendPendingReadMarkers
    \/ \E c \in Chats :
        \/ \E own \in BOOLEAN : Receive(c, own)
        \/ ReceiveCorrection(c) \/ ReadElsewhere(c)
        \/ Read(c) \/ MarkAsRead(c) \/ DeleteMessage(c) \/ DeleteLastRead(c) \/ RemoveContact(c)
        \/ Answer(c)

Spec == Init /\ [][Next]_vars

\* The threads do not both stop while there is something to do, and the server answers.
Fairness == WF_vars(RunJob \/ HandleSignal) /\ WF_vars(\E c \in Chats : Answer(c))
FairSpec == Spec /\ Fairness

-----------------------------------------------------------------------------
(* Properties.                                                             *)

TypeOK ==
    /\ DOMAIN rows \subseteq Chats /\ \A c \in DOMAIN rows : rows[c] \in Row
    /\ messages \in [Chats -> SUBSET Message]
    /\ \A i \in DOMAIN list : list[i] \in Item
    /\ net.contacts \subseteq Chats /\ net.requests \subseteq Chats
    /\ \A w \in waiting : w.chat \in Chats /\ w.message \in Message
    /\ adding \subseteq Chats
    /\ notes \in [Chats -> 0..(2 * MaxMessages)]

\* The last message read is stored.  It is not, once it has been corrected: its ID is another one.
LastReadStored(c) == rows[c].lastRead = 0 \/ \E m \in messages[c] : m.id = rows[c].lastRead

\* The list is kept up to date by increments. When nothing is queued, it is what a restart would
\* load (RosterDb::_fetchItems()) in the order in which handleItemsFetched() would sort it. The
\* count is compared for chats whose last read message is stored.
ShownAsLoaded ==
    Quiet /\ ~past.astray =>
        /\ Listed = DOMAIN rows /\ Len(list) = Cardinality(Listed)
        /\ \A i, j \in DOMAIN list : i < j => AtMost(list[i], list[j])
        /\ \A i \in DOMAIN list :
             LET item == list[i]
                 loaded == LoadedItem(item.chat, rows[item.chat])
             IN item.chat \notin past.apart =>
                    item = IF LastReadStored(item.chat) THEN loaded
                           ELSE [loaded EXCEPT !.unread = item.unread]

\* What was read here or on another device, with all before it, stays read, whatever is read or
\* received later and whichever of the contact's messages are removed, as long as the chat stays,
\* its last read message is stored and none is corrected: MessageModel::handleMessageRead() does
\* not find a last read message whose ID was replaced, and reads an older one instead.
ReadStaysRead ==
    Quiet =>
        \A c \in DOMAIN rows :
            LastReadStored(c) /\ {m.time : m \in messages[c]} \cap past.corrected = {} =>
                \A m \in UnreadMessages(c, rows[c].lastRead) : m.time > past.upTo[c]

\* The contact is told what the user has read in the chat, at once or after the next login, unless
\* another message is the last one read by then (sendPendingReadMarkers()).
ReadIsMarked ==
    Quiet /\ net.connected /\ "markers" \notin net.due =>
        \A c \in DOMAIN rows :
            past.read[c] # 0 /\ rows[c].lastRead = past.read[c] =>
                \E mark \in past.marked : mark[1] = c /\ SentAt(mark[2]) >= SentAt(past.read[c])

\* NotificationController::handleMessage() needs the item of a contact's message in the list.
NotifiedChatListed ==
    signals # <<>> =>
        LET s == Head(signals)
        IN s.about \in {"messageAdded", "messageUpdated"} /\ ~s.message.own => s.chat \in Listed

ChatListInv == TypeOK /\ NotifiedChatListed

\* A message whose sender has to be added to the roster first is stored: it always comes to a point
\* where only messages wait whose sender's addition was refused or lost.
StrangersStored == []<>(\A w \in waiting : Sender(w) \in past.refused)

\* A notification is for a message that is not read: reading it anywhere closes it
\* (NotificationController::closeMessageNotification()).
NotifiedIsUnread ==
    Quiet =>
        \A c \in DOMAIN rows : \A m \in messages[c] :
            m.id = notes[c] /\ m.id = m.time /\ LastReadStored(c) =>
                m \in UnreadMessages(c, rows[c].lastRead)

\* A correction changes its message, also one that waits for the roster.
CorrectionsApplied ==
    Quiet =>
        \A c \in Chats : \A m \in messages[c] :
            m.time \in past.corrected => m.id = CorrectedId(m.time)

=============================================================================
