------------------------------ MODULE GroupUsers ------------------------------
(***************************************************************************)
(* The table of the users of group chats (GroupChatUserDb) for one account *)
(* and the list of one chat's users shown by the UI (GroupChatUserModel).  *)
(*                                                                         *)
(* A user may have an ID (participant of an anonymous group chat, sender   *)
(* of a message), an address (allowed or banned) or both.  Names are left  *)
(* out.  The order of the list depends on them: its first match is any.    *)
(*                                                                         *)
(* handleUserDisallowedOrUnbanned() is not modelled: its query names no    *)
(* table, so the process is aborted.                                       *)
(***************************************************************************)
EXTENDS Bags

CONSTANTS
    NoId, NoJid,
    OwnParticipant     \* groupChatParticipantId of the group chat's roster item

VARIABLES
    userRows,       \* groupChatUsers: records [chat, id, jid, status]
    listed          \* m_users, which may list a user more than once

\* ==, a user is the same if the IDs or the addresses are.
SameUser(u, w) == u.chat = w.chat /\ (u.id = w.id \/ u.jid = w.jid) /\ u.status = w.status

WithId(chat, id) == {u \in userRows : u.chat = chat /\ u.id = id}
WithJid(chat, jid) == {u \in userRows : u.chat = chat /\ u.jid = jid}

UserJids(chat) == {u.jid : u \in {w \in userRows : w.chat = chat}} \ {NoJid}
UsersOf(chat) == {u \in userRows : u.chat = chat}

-----------------------------------------------------------------------------
(* Jobs.  "Changed" is the new table and the signals that are emitted.     *)

Added(u) == [rows |-> userRows \cup {u}, signals |-> <<[kind |-> "added", user |-> u],
                                                      [kind |-> "jids", chat |-> u.chat]>>]

Nothing == [rows |-> userRows, signals |-> <<>>]

\* updateUserByKeyValuePairs(): the first matching row tells what all of them become.
Updated(W, change) ==
    {LET w == change[u] IN
     IF SameUser(u, w) THEN Nothing
     ELSE [rows |-> (userRows \ W) \cup {[x EXCEPT !.id = IF u.id = w.id THEN x.id ELSE w.id,
                                                   !.status = IF u.status = w.status THEN x.status
                                                              ELSE w.status] : x \in W},
           signals |-> <<[kind |-> "updated", user |-> w]>>] : u \in W}

\* removeUser(): by ID if there is one
Removed(u) == [rows |-> userRows \ (IF u.id # NoId THEN WithId(u.chat, u.id)
                                    ELSE WithJid(u.chat, u.jid)),
               signals |-> <<[kind |-> "removed", user |-> u], [kind |-> "jids", chat |-> u.chat]>>]

\* handleUserAllowedOrBanned()
AllowedOrBanned(u) ==
    LET W == WithJid(u.chat, u.jid)
        SetStatus == [x \in W |-> [x EXCEPT !.status = u.status]] IN
    IF W # {} THEN Updated(W, SetStatus) ELSE {Added(u)}

\* handleParticipantReceived()
Received(p) ==
    LET u == [p EXCEPT !.status = "Joined"]
        SetStatus == [x \in userRows |-> [x EXCEPT !.status = u.status]]
        SetId == [x \in userRows |-> [x EXCEPT !.id = u.id, !.status = u.status]] IN
    CASE WithId(u.chat, u.id) # {} -> Updated(WithId(u.chat, u.id), SetStatus)
      [] WithId(u.chat, u.id) = {} /\ WithJid(u.chat, u.jid) # {} ->
             Updated(WithJid(u.chat, u.jid), SetId)
      [] OTHER -> {Added(u)}

\* handleParticipantLeft(): the sender of a stored message is kept.
LeftGroup(p, hasMessage) ==
    LET W == WithId(p.chat, p.id)
        SetLeft == [x \in W |-> [x EXCEPT !.status = "Left"]] IN
    IF W = {} THEN {Nothing}
    ELSE UNION {IF u.status = "Allowed" \/ hasMessage THEN Updated(W, SetLeft) ELSE {Removed(p)} :
                    u \in W}

\* handleMessageSender()
MessageSender(u) ==
    IF WithId(u.chat, u.id) = {} THEN {Added([u EXCEPT !.status = "Left"])} ELSE {Nothing}

-----------------------------------------------------------------------------
(* The list.                                                               *)

\* addUser(): shouldUserBeProcessed() looks at the ID, not at the chat.
ListWith(u) == IF u.id = OwnParticipant THEN listed ELSE listed (+) SetToBag({u})

Replaced(w, U) == (listed (-) SetToBag({w})) (+) SetToBag(U)

\* updateUser(): the first match is replaced.
ListsUpdatedBy(u) ==
    LET W == {w \in DOMAIN listed : w.chat = u.chat /\ (w.id = u.id \/ w.jid = u.jid)} IN
    IF u.id = OwnParticipant \/ W = {} THEN {listed} ELSE {Replaced(w, {u}) : w \in W}

\* removeUser(): the condition is "(same chat and no ID) ? same address : same ID".
ListsWithout(u) ==
    LET W == {w \in DOMAIN listed : IF w.chat = u.chat /\ w.id = NoId THEN w.jid = u.jid
                                    ELSE w.id = u.id} IN
    IF W = {} THEN {listed} ELSE {Replaced(w, {}) : w \in W}

\* userJids()
ListedJids == {u.jid : u \in DOMAIN listed}
=============================================================================
