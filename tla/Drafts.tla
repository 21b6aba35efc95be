--------------------------------- MODULE Drafts ---------------------------------
(***************************************************************************)
(* The message being composed (MessageComposition with the text fields of  *)
(* the chat page), its draft in the database (MessageDb) and what the list *)
(* of chats shows of it (RosterModel).                                     *)
(*                                                                         *)
(* There is one composition for all chats: opening another chat saves the  *)
(* draft of the previous one and loads the one of the new chat.  The text  *)
(* of the previous chat stays in the text field until the draft is loaded. *)
(* A text is the set of its pieces: what was typed or corrected in a chat  *)
(* (a message written in a chat belongs to it), and a forwarded message.   *)
(***************************************************************************)
EXTENDS ClientPart

CONSTANTS
    DraftChats,
    NoChat

ASSUME DraftsAssumption == NoChat \notin DraftChats

VARIABLES
    started,        \* the application is running
    openChat,           \* jid() of the ChatController
    composed,       \* the MessageComposition: m_body, whether there is m_replaceId, m_isDraft and
                    \* m_isForwarding
    toForward,        \* messageBodyToForward() is set
    drafts,         \* view "draftMessages": the rows of each chat in their order
    messages,       \* view "chatMessages": "none", "older" or "newer" than the drafts of the chat
    listed,         \* last message of the items of RosterModel
    wrote,          \* history: what the user wrote last in each chat and neither sent nor canceled
    astray          \* history: something was done that mixes up the texts of two chats

draftVars == <<started, openChat, composed, toForward, drafts, messages, listed, wrote, astray>>

Forwarded == <<NoChat, 0>>     \* a piece of no chat
NothingWritten == [text |-> {}, replaces |-> FALSE]
Cleared == [text |-> {}, replaces |-> FALSE, isDraft |-> FALSE, isForwarding |-> FALSE]
Content(c) == [text |-> c.text, replaces |-> c.replaces]
Typed(c) == {{<<c, 1>>}, {<<c, 2>>}}

DraftsInit ==
    /\ started = TRUE /\ openChat = NoChat /\ composed = Cleared /\ toForward = FALSE
    /\ drafts = [c \in DraftChats |-> <<>>]
    /\ messages = [c \in DraftChats |-> "none"] /\ listed = [c \in DraftChats |-> "none"]
    /\ wrote = [c \in DraftChats |-> NothingWritten] /\ astray = FALSE

DraftJob(op, chat) == [op |-> op, chat |-> chat, content |-> NothingWritten]
DraftLoading == \E e \in ToSet(jobs) \cup ToSet(results) : e.op = "load"

-----------------------------------------------------------------------------
(* MessageComposition.                                                     *)

\* A fault: an emptied draft stays stored.
SavedUnlessEmpty ==
    IF openChat = NoChat \/ composed.text = {} THEN <<>>
    ELSE <<[op |-> IF composed.isDraft THEN "update" ELSE "add", chat |-> openChat,
            content |-> Content(composed)]>>

\* saveDraft()
SavedDraft ==
    IF openChat = NoChat THEN <<>>
    ELSE IF composed.text # {}
    THEN <<[op |-> IF composed.isDraft THEN "update" ELSE "add", chat |-> openChat,
            content |-> Content(composed)]>>
    ELSE IF composed.isDraft THEN <<DraftJob("remove", openChat)>>
    ELSE <<>>

\* What the user leaves behind in the open chat
Left ==
    IF openChat # NoChat /\ composed.text = {} THEN [wrote EXCEPT ![openChat] = NothingWritten]
    ELSE wrote

\* ChatController::initialize() with finishCurrentChat() and prepareForNewChat()
OpenChat(chat) ==
    /\ started /\ chat # openChat /\ Step
    /\ openChat' = chat
    /\ jobs' = jobs \o SavedDraft \o <<DraftJob("load", chat)>>
    /\ composed' = [Cleared EXCEPT !.text = composed.text]
    /\ wrote' = IF toForward THEN [Left EXCEPT ![chat].text = @ \cup {Forwarded}] ELSE Left
    /\ astray' = (astray \/ DraftLoading \/ (toForward /\ composed.text # {}))
    /\ UNCHANGED <<started, toForward, drafts, messages, listed, results>>

\* loadDraft(): the fields take the values of the draft.
WithDraft(content) ==
    [composed EXCEPT !.text = content.text, !.replaces = @ \/ content.replaces, !.isDraft = TRUE]

\* prepareForNewChat() once the draft is loaded, with the text fields' handlers
Prepared(draft) ==
    LET loaded == IF draft = <<>> THEN composed ELSE WithDraft(Head(draft))
    IN  IF toForward
        THEN [loaded EXCEPT !.text = @ \cup {Forwarded}, !.isForwarding = TRUE]
        ELSE IF loaded.isDraft \/ loaded.isForwarding THEN loaded
        ELSE [loaded EXCEPT !.text = {}]

\* The user's changes of what is composed
Compose(content) ==
    /\ openChat # NoChat /\ Step
    /\ composed' = [composed EXCEPT !.text = content.text, !.replaces = content.replaces]
    /\ wrote' = [wrote EXCEPT ![openChat] = content]
    /\ astray' = (astray \/ DraftLoading)
    /\ UNCHANGED <<started, openChat, toForward, drafts, messages, listed, jobs, results>>

TypeText(text) == text # composed.text /\ Compose([text |-> text, replaces |-> composed.replaces])

\* prepareCorrection()
PrepareCorrection ==
    /\ openChat # NoChat /\ messages[openChat] # "none" /\ ~composed.replaces
    /\ Compose([text |-> {<<openChat, 1>>}, replaces |-> TRUE])

\* A fault: the draft of a message that is sent stays stored.
ResetFields(isDraft) == <<>>

\* reset(): a loaded draft is removed.
ResetDraft(isDraft) == IF isDraft THEN <<DraftJob("remove", openChat)>> ELSE <<>>

\* send(), or correct() which changes the row of the message
SendComposed ==
    /\ openChat # NoChat /\ composed.text # {} /\ Step
    /\ jobs' = jobs \o <<[DraftJob(IF composed.replaces THEN "correct" ELSE "send", openChat)
                          EXCEPT !.content = Content(composed)]>>
                    \o ResetDraft(composed.isDraft)
    /\ composed' = Cleared
    /\ wrote' = [wrote EXCEPT ![openChat] = NothingWritten]
    /\ astray' = (astray \/ DraftLoading)
    /\ UNCHANGED <<started, openChat, toForward, drafts, messages, listed, results>>

\* cancelCorrection(): clear() does not remove a loaded draft.
CancelCorrection ==
    /\ composed.replaces /\ Step
    /\ composed' = Cleared
    /\ wrote' = [wrote EXCEPT ![openChat] = NothingWritten]
    /\ astray' = (astray \/ DraftLoading \/ composed.isDraft)
    /\ UNCHANGED <<started, openChat, toForward, drafts, messages, listed, jobs, results>>

\* setMessageBodyToForward() by the menu of a message, and its cancellation
SetForward ==
    /\ openChat # NoChat /\ (messages[openChat] # "none" \/ toForward)
    /\ Step
    /\ toForward' = ~toForward
    /\ astray' = (astray \/ DraftLoading)
    /\ UNCHANGED <<started, openChat, composed, drafts, messages, listed, wrote, jobs, results>>

-----------------------------------------------------------------------------
(* The database and its signals.                                           *)

\* A message is received.
ReceiveMessage(chat) ==
    /\ started /\ messages[chat] # "newer" /\ Step
    /\ jobs' = Append(jobs, DraftJob("receive", chat))
    /\ UNCHANGED <<draftVars, results>>

\* addDraftMessage(), updateDraftMessage(), removeDraftMessage()
DraftsAfter(job, rows) ==
    CASE job.op = "add" -> Append(rows, job.content)
      [] job.op = "update" -> [i \in DOMAIN rows |-> job.content]
      [] job.op = "remove" -> <<>>
      [] OTHER -> rows

\* An update without a stored draft
NoRow(job) == job.op = "update" /\ drafts[job.chat] = <<>>

\* A stored draft has the time at which it was saved.
MessagesAfter(job, state) ==
    IF job.op \in {"send", "receive"} THEN "newer"
    ELSE IF state = "newer" /\ job.op \in {"add", "update"} /\ ~NoRow(job) THEN "older"
    ELSE state

\* _initializeLastMessage() for the signal that a draft was removed
DraftResult(job) ==
    CASE job.op = "load" -> <<[op |-> "load", draft |-> drafts[job.chat]]>>
      [] job.op = "remove" -> <<[op |-> "remove", chat |-> job.chat,
                                 last |-> IF messages[job.chat] = "none" THEN "none" ELSE "message"]>>
      [] job.op = "correct" \/ NoRow(job) -> <<>>
      [] OTHER -> <<[op |-> job.op, chat |-> job.chat]>>

RunDraftJob ==
    LET job == Head(jobs)
    IN  /\ jobs # <<>>
        /\ jobs' = Tail(jobs)
        /\ drafts' = [drafts EXCEPT ![job.chat] = DraftsAfter(job, @)]
        /\ messages' = [messages EXCEPT ![job.chat] = MessagesAfter(job, @)]
        /\ results' = IF started THEN results \o DraftResult(job) ELSE results
        /\ UNCHANGED <<started, openChat, composed, toForward, listed, wrote, astray, steps>>

\* handleMessageAdded(), handleDraftMessageAdded(), handleDraftMessageUpdated(),
\* handleDraftMessageRemoved(): an update does not mark the item as showing a draft.
Listed(result, last) ==
    CASE result.op = "add" -> "draft"
      [] result.op = "update" -> IF last = "draft" THEN "draft" ELSE "draft as message"
      [] result.op = "remove" -> result.last
      [] result.op \in {"send", "receive"} -> IF last = "draft" THEN "draft" ELSE "message"

HandleDraftResult ==
    LET result == Head(results)
    IN  /\ results # <<>>
        /\ results' = Tail(results)
        /\ IF result.op = "load"
           THEN composed' = Prepared(result.draft) /\ toForward' = FALSE /\ UNCHANGED listed
           ELSE /\ listed' = [listed EXCEPT ![result.chat] = Listed(result, @)]
                /\ UNCHANGED <<composed, toForward>>
        /\ UNCHANGED <<started, openChat, drafts, messages, wrote, astray, jobs, steps>>

\* The application is quit: saveDraft().
QuitApplication ==
    /\ started /\ Step
    /\ started' = FALSE
    /\ jobs' = jobs \o SavedDraft
    /\ results' = <<>> /\ openChat' = NoChat /\ composed' = Cleared /\ toForward' = FALSE
    /\ wrote' = Left /\ astray' = (astray \/ DraftLoading)
    /\ UNCHANGED <<drafts, messages, listed>>

\* It is started again; jobs that the database thread had not run are lost.  The last message of
\* a chat is the latest one, draft or not.
StartAgain ==
    /\ ~started
    /\ started' = TRUE
    /\ jobs' = <<>>
    /\ listed' = [c \in DraftChats |->
                    IF drafts[c] # <<>> /\ messages[c] # "newer" THEN "draft"
                    ELSE IF messages[c] = "none" THEN "none" ELSE "message"]
    /\ wrote' = IF jobs = <<>> THEN wrote
                ELSE [c \in DraftChats |->
                         IF drafts[c] = <<>> THEN NothingWritten ELSE Head(drafts[c])]
    /\ UNCHANGED <<openChat, composed, toForward, drafts, messages, astray, results, steps>>

DraftsNext ==
    \/ \E chat \in DraftChats : OpenChat(chat) \/ ReceiveMessage(chat)
    \/ \E text \in Typed(openChat) \cup {{}} : TypeText(text)
    \/ PrepareCorrection \/ SendComposed \/ CancelCorrection \/ SetForward
    \/ RunDraftJob \/ HandleDraftResult \/ QuitApplication \/ StartAgain

-----------------------------------------------------------------------------
(* Properties.                                                             *)

DraftsSettled == started /\ jobs = <<>> /\ results = <<>>

\* What was written in a chat is shown in it while it is open and is its only draft otherwise,
\* and only what was written in a chat, or forwarded to it, is sent in it.
DraftsKept ==
    ~astray =>
        /\ DraftsSettled =>
              \A c \in DraftChats :
                 IF c = openChat
                 THEN /\ Content(composed) = wrote[c]
                      /\ Len(drafts[c]) = IF composed.isDraft THEN 1 ELSE 0
                 ELSE drafts[c] = IF wrote[c] = NothingWritten THEN <<>> ELSE <<wrote[c]>>
        /\ \A i \in DOMAIN jobs :
              \A piece \in jobs[i].content.text : piece = Forwarded \/ piece[1] = jobs[i].chat

\* A chat is listed with a draft only if there is one, and a draft that is newer than all messages
\* of its chat is listed.
DraftsListed ==
    DraftsSettled =>
        \A c \in DraftChats :
            /\ listed[c] = "draft" => drafts[c] # <<>>
            /\ drafts[c] # <<>> /\ messages[c] # "newer" =>
                  listed[c] \in {"draft", "draft as message"}

=============================================================================
