------------------------------ MODULE Reactions ------------------------------
(***************************************************************************)
(* The own reactions to one message of a contact: adding, removing and     *)
(* resending them (MessageModel), sending pending ones after a login and   *)
(* the result of a sending (MessageController), the rows of the database   *)
(* (MessageDb) and what the contact has got.                               *)
(*                                                                         *)
(* A reaction message carries all emojis; it replaces what the contact got *)
(* before.  A click is handled in several steps: on the main thread with   *)
(* the model's copy of the reactions, by a change of the rows on the       *)
(* database thread, by a continuation on the main thread that sends, and   *)
(* by another change of the rows once the result of the sending is known.  *)
(* Both threads work through queues.                                       *)
(*                                                                         *)
(* A sending that is reported as failed has not reached the contact.       *)
(***************************************************************************)
EXTENDS Naturals, Sequences, FiniteSets

CONSTANTS
    Emojis,
    MaxClicks, MaxFailures, MaxDisconnections,   \* bounds
    Waits    \* whether the user waits for the effects of a click before the next one

VARIABLES
    rows,        \* own reactions in the database: [emoji, state]
    model,       \* the same as MessageModel::m_messages has it
    jobs,        \* queue of the database thread
    events,      \* queue of the main thread
    sendings,    \* messages whose result is not known: [emojis, click, emoji]
    connected,
    contact,     \* the emojis the contact got last
    missing,     \* ghost: whether a change looked for a row that was not there
    clicks, failures, disconnections   \* bounded counters

vars == <<rows, model, jobs, events, sendings, connected, contact, missing, clicks, failures, disconnections>>
queues == <<jobs, events, sendings>>
counters == <<clicks, failures, disconnections>>

\* MessageReactionDeliveryState without Delivered and the states of a removal after it: own
\* reactions are only delivered if another client of the account has added them.
States == {"PendingAddition", "PendingRemoval", "ErrorOnAddition", "ErrorOnRemoval", "Sent"}
Adding == {"PendingAddition", "ErrorOnAddition"}
Removing == {"PendingRemoval", "ErrorOnRemoval"}
Pending == {"PendingAddition", "PendingRemoval"}

Reaction == [emoji : Emojis, state : States]

\* The emojis to be sent: those that are not being removed.
Wanted(list) == {r.emoji : r \in {s \in list : s.state \notin Removing}}

Has(list, emoji, states) == \E r \in list : r.emoji = emoji /\ r.state \in states

Idle == jobs = <<>> /\ events = <<>> /\ sendings = <<>>

Init ==
    /\ rows = {} /\ model = {}
    /\ jobs = <<>> /\ events = <<>> /\ sendings = <<>>
    /\ connected = FALSE
    /\ contact = {}
    /\ missing = FALSE
    /\ clicks = 0 /\ failures = 0 /\ disconnections = 0

-----------------------------------------------------------------------------
(* The main thread: clicks.                                                *)

Job(kind, emoji) == [kind |-> kind, emoji |-> emoji, before |-> model]

Send(emojis, click, emoji) == Append(sendings, [emojis |-> emojis, click |-> click, emoji |-> emoji])

Clicked ==
    /\ clicks < MaxClicks /\ (Waits => Idle)
    /\ clicks' = clicks + 1
    /\ UNCHANGED <<rows, model, events, connected, contact, missing, failures, disconnections>>

\* addMessageReaction(): a reaction that is there in any state is taken for one being removed.
\* The reactions to be sent are those of the model at this moment.
AddMessageReaction(e) ==
    /\ Clicked
    /\ jobs' = Append(jobs, IF Has(model, e, States) THEN Job("undoRemoval", e) ELSE Job("add", e))
    /\ UNCHANGED sendings

\* removeMessageReaction(), which the buttons call for reactions that are not being removed
RemoveMessageReaction(e) ==
    /\ Has(model, e, States \ {"PendingRemoval"})
    /\ Clicked
    /\ jobs' = Append(jobs, IF Has(model, e, Adding) THEN Job("undoAddition", e) ELSE Job("remove", e))
    /\ UNCHANGED sendings

\* resendMessageReactions(), offered if a reaction has failed (OwnReactionsFailed)
ResendMessageReactions(e) ==
    /\ Has(model, e, {"ErrorOnAddition", "ErrorOnRemoval"})
    /\ Clicked
    /\ jobs' = Append(jobs, Job("resend", e))
    /\ sendings' = IF connected THEN Send(Wanted(model), "resend", e) ELSE sendings

-----------------------------------------------------------------------------
(* The database thread.                                                    *)

Changed(list, states, state) == {IF r.state \in states THEN [r EXCEPT !.state = state] ELSE r : r \in list}

\* What a job makes of the reactions of the message; "row" is the reaction it looks for.
After(job, row) ==
    CASE job.kind = "add"          -> rows \cup {[emoji |-> job.emoji, state |-> "PendingAddition"]}
      [] job.kind = "undoRemoval"  -> (rows \ {row}) \cup Changed({row}, Removing, "Sent")
      [] job.kind = "undoAddition" -> IF row.state \in Adding THEN rows \ {row} ELSE rows
      [] job.kind = "remove"       -> (rows \ {row}) \cup Changed({row}, {"Sent"}, "PendingRemoval")
      [] job.kind = "addFailed"    -> (rows \ {row}) \cup Changed({row}, States, "ErrorOnAddition")
      [] job.kind = "removeFailed" -> (rows \ {row}) \cup Changed({row}, {"Sent"}, "ErrorOnRemoval")
      [] job.kind = "resend"       -> Changed(Changed(rows, {"ErrorOnAddition"}, "PendingAddition"),
                                              {"ErrorOnRemoval"}, "PendingRemoval")
      [] job.kind = "failed"       -> Changed(Changed(rows, {"PendingAddition"}, "ErrorOnAddition"),
                                              {"PendingRemoval"}, "ErrorOnRemoval")
      [] OTHER -> rows

\* A fault: a sending is taken for a delivery.
AfterDelivery == {r \in Changed(rows, Adding, "Delivered") : r.state \notin Removing}

\* updateMessageReactionsAfterSending()
AfterSending == {r \in Changed(rows, Adding, "Sent") : r.state \notin Removing}

LooksForRow == {"undoRemoval", "undoAddition", "remove", "addFailed", "removeFailed"}

\* _updateMessage(): a reaction that has changed is deleted by its emoji and inserted again.
Updated(after) ==
    LET deleted == {r.emoji : r \in rows \ after}
    IN  {r \in rows : r.emoji \notin deleted} \cup (after \ rows)

\* What the main thread is told: the changed message, then the end of the change.
Reported(job, after) ==
    events \o (IF after = rows THEN <<>> ELSE <<[kind |-> "messageUpdated", emoji |-> job.emoji, before |-> after]>>)
           \o (IF job.kind \in {"add", "remove"} THEN <<job>> ELSE <<>>)

RunChange ==
    /\ jobs # <<>> /\ Head(jobs).kind # "fetch"
    /\ LET job == Head(jobs)
           found == {r \in rows : r.emoji = job.emoji}
           Change(after) == rows' = Updated(after) /\ events' = Reported(job, after)
       IN  CASE job.kind = "sent" -> Change(AfterSending) /\ UNCHANGED missing
             [] job.kind \in LooksForRow /\ found = {} ->
                  \* undefined but for addFailed: here, nothing is changed
                  Change(rows) /\ missing' = (missing \/ job.kind # "addFailed")
             [] job.kind \in LooksForRow /\ found # {} ->
                  (\E row \in found : Change(After(job, row))) /\ UNCHANGED missing
             [] OTHER -> Change(After(job, job)) /\ UNCHANGED missing
    /\ jobs' = Tail(jobs)
    /\ UNCHANGED <<model, sendings, connected, contact, counters>>

\* fetchPendingReactions(): all reactions of a message with a pending one
RunFetch ==
    /\ jobs # <<>> /\ Head(jobs).kind = "fetch"
    /\ events' = IF \E r \in rows : r.state \in Pending
                 THEN Append(events, [Head(jobs) EXCEPT !.before = rows]) ELSE events
    /\ jobs' = Tail(jobs)
    /\ UNCHANGED <<rows, model, sendings, connected, contact, missing, counters>>

-----------------------------------------------------------------------------
(* The main thread: results of the database.                               *)

Handled(kind) ==
    /\ events # <<>> /\ Head(events).kind = kind
    /\ events' = Tail(events)
    /\ UNCHANGED <<rows, jobs, connected, contact, missing, counters>>

MessageUpdated ==
    /\ Handled("messageUpdated")
    /\ model' = Head(events).before
    /\ UNCHANGED sendings

\* The continuation of addMessageReaction()
Added ==
    /\ Handled("add")
    /\ LET e == Head(events).emoji
       IN  sendings' = IF connected THEN Send(Wanted(Head(events).before) \cup {e}, "add", e) ELSE sendings
    /\ UNCHANGED model

\* A fault: the removed emoji is sent, too.
RemovedStillSent ==
    /\ Handled("remove")
    /\ sendings' = IF connected THEN Send({r.emoji : r \in model}, "remove", Head(events).emoji) ELSE sendings
    /\ UNCHANGED model

\* The continuation of removeMessageReaction()
Removed ==
    /\ Handled("remove")
    /\ sendings' = IF connected THEN Send(Wanted(model), "remove", Head(events).emoji) ELSE sendings
    /\ UNCHANGED model

\* The continuation of sendPendingMessageReactions()
SendPending ==
    /\ Handled("fetch")
    /\ sendings' = Send(Wanted(Head(events).before), "all", Head(events).emoji)
    /\ UNCHANGED model

-----------------------------------------------------------------------------
(* The connection.                                                         *)

\* The job for a failed sending of a click
FailedJob(s) ==
    Job(CASE s.click = "add" -> "addFailed" [] s.click = "remove" -> "removeFailed" [] OTHER -> "failed", s.emoji)

\* A fault: a login does not send what is pending.
ConnectOnly ==
    /\ ~connected
    /\ connected' = TRUE
    /\ UNCHANGED <<rows, model, queues, contact, missing, counters>>

\* A login; sendPendingMessageReactions()
Connect ==
    /\ ~connected
    /\ connected' = TRUE
    /\ \E e \in Emojis : jobs' = Append(jobs, Job("fetch", e))
    /\ UNCHANGED <<rows, model, events, sendings, contact, missing, counters>>

\* The server has got the oldest message.
SendingSucceeded ==
    /\ connected /\ sendings # <<>>
    /\ contact' = Head(sendings).emojis
    /\ sendings' = Tail(sendings)
    /\ jobs' = Append(jobs, Job("sent", Head(sendings).emoji))
    /\ UNCHANGED <<rows, model, events, connected, missing, counters>>

\* The oldest message cannot be sent, for example because it cannot be encrypted.
SendingFailed ==
    /\ sendings # <<>>
    /\ IF connected THEN failures < MaxFailures /\ failures' = failures + 1 ELSE UNCHANGED failures
    /\ sendings' = Tail(sendings)
    /\ jobs' = Append(jobs, FailedJob(Head(sendings)))
    /\ UNCHANGED <<rows, model, events, connected, contact, missing, clicks, disconnections>>

Disconnect ==
    /\ connected /\ disconnections < MaxDisconnections
    /\ disconnections' = disconnections + 1
    /\ connected' = FALSE
    /\ UNCHANGED <<rows, model, queues, contact, missing, clicks, failures>>

Thread == RunChange \/ RunFetch \/ MessageUpdated \/ Added \/ Removed \/ SendPending

\* Steps without an effect on the contact
Local ==
    \/ \E e \in Emojis : AddMessageReaction(e) \/ RemoveMessageReaction(e) \/ ResendMessageReactions(e)
    \/ Thread
    \/ Connect \/ SendingFailed \/ Disconnect

Next == Local \/ SendingSucceeded

Spec == Init /\ [][Next]_vars

\* Both threads run, the account is connected again and each sending has a result.
FairSpec == Spec /\ WF_vars(Thread) /\ WF_vars(Connect) /\ WF_vars(SendingSucceeded \/ SendingFailed)

-----------------------------------------------------------------------------
(* Properties.                                                             *)

TypeOK ==
    /\ rows \subseteq Reaction /\ model \subseteq Reaction
    /\ \A i \in DOMAIN events : events[i].before \subseteq Reaction
    /\ \A i \in DOMAIN sendings : sendings[i].emojis \subseteq Emojis
    /\ contact \subseteq Emojis
    /\ connected \in BOOLEAN /\ missing \in BOOLEAN
    /\ clicks \in 0..MaxClicks /\ failures \in 0..MaxFailures /\ disconnections \in 0..MaxDisconnections

\* When nothing is under way, the model shows the rows of the database (messageUpdated()).
ModelIsCurrent == Idle => model = rows

\* A change of a reaction finds it in the database (the iterators in MessageModel's changes).
NothingMissing == ~missing

\* A reaction is left pending only by a failed removal: its change expects the state from before the
\* removal (MessageModel::removeMessageReaction()).
OnlyFailedRemovalsPending ==
    \A r \in rows : r.state \in Pending => failures > 0 /\ r.state = "PendingRemoval"

\* While connected, a reaction is pending only as long as something is under way; then it is sent
\* or shown as failed so that it can be sent again.
PendingIsUnderWay == Idle /\ connected => OnlyFailedRemovalsPending

\* All that is pending is eventually sent, over disconnections, unless its removal failed.
EventuallySettled == <>[]OnlyFailedRemovalsPending

-----------------------------------------------------------------------------
(* Inductive strengthening of NothingMissing, ModelIsCurrent and the       *)
(* agreement with the contact, for a user who waits.                       *)

JobKinds == {"add", "undoRemoval", "undoAddition", "remove", "resend", "fetch", "sent", "failed",
             "addFailed", "removeFailed"}

\* What the queues hold.
QueuesOK ==
    /\ jobs \in Seq([kind : JobKinds, emoji : Emojis, before : SUBSET Reaction])
    /\ events \in Seq([kind : {"messageUpdated", "add", "remove", "fetch"}, emoji : Emojis,
                       before : SUBSET Reaction])
    /\ sendings \in Seq([emojis : SUBSET Emojis, click : {"add", "remove", "resend", "all"}, emoji : Emojis])

OneRowPerEmoji == \A r, s \in rows : r.emoji = s.emoji => r = s

\* The model shows the rows, or the latest event that updates it will make it show them.
ModelFollows ==
    /\ (\A k \in DOMAIN events : events[k].kind # "messageUpdated") => model = rows
    /\ \A k \in DOMAIN events :
          /\ events[k].kind = "messageUpdated"
          /\ \A l \in DOMAIN events : l > k => events[l].kind # "messageUpdated"
          => events[k].before = rows

NoneSent == \A k \in DOMAIN jobs : jobs[k].kind # "sent"
OnlyFetches == \A k \in DOMAIN jobs : jobs[k].kind = "fetch"

\* The jobs that change which emojis are to be sent.
ClickJobs == {"add", "undoRemoval", "undoAddition", "remove"}

\* The job of a click is the first one, and nothing is sent before it.
ClickFirst ==
    \A k \in DOMAIN jobs : jobs[k].kind \in ClickJobs =>
        /\ k = 1 /\ events = <<>> /\ sendings = <<>>
        /\ \A l \in DOMAIN jobs : l > 1 => jobs[l].kind = "fetch"
        /\ jobs[k].kind = "add" => ~Has(rows, jobs[k].emoji, States) /\ jobs[k].before = rows
        /\ jobs[k].kind # "add" => Has(rows, jobs[k].emoji, States)
        /\ jobs[k].kind = "remove" => ~Has(rows, jobs[k].emoji, Adding)

\* The row of a click whose message is not accepted yet.
Awaited(kind, emoji) == Has(rows, emoji, IF kind \in {"add", "addFailed"} THEN Adding ELSE Removing)

\* The continuation of a click is handled before anything else is sent; only the change of the rows
\* is reported before it.
ContinuedFirst ==
    \A k \in DOMAIN events : events[k].kind \in {"add", "remove"} =>
        /\ OnlyFetches /\ sendings = <<>>
        /\ \A l \in DOMAIN events : l < k => events[l].kind = "messageUpdated"
        /\ \A l \in DOMAIN events : l > k => events[l].kind = "fetch"
        /\ Awaited(events[k].kind, events[k].emoji)

\* The message of a click is the first one that is sent.
SentFirst ==
    \A k \in DOMAIN sendings : sendings[k].click \in {"add", "remove"} =>
        /\ k = 1 /\ NoneSent
        /\ Awaited(sendings[k].click, sendings[k].emoji)

\* The failure of a click's message is handled before a later success.
FailedFirst ==
    \A k \in DOMAIN jobs : jobs[k].kind \in {"addFailed", "removeFailed"} =>
        /\ \A l \in DOMAIN jobs : jobs[l].kind = "sent" => k < l
        /\ Awaited(jobs[k].kind, jobs[k].emoji)

\* Each message has the emojis that the rows want to be sent, as long as its result is not known.
WantedIsSent ==
    /\ \A k \in DOMAIN events :
          /\ events[k].kind = "add" => Wanted(events[k].before) \cup {events[k].emoji} = Wanted(rows)
          /\ events[k].kind = "fetch" => Wanted(events[k].before) = Wanted(rows)
    /\ \A k \in DOMAIN sendings : sendings[k].emojis = Wanted(rows)

\* The emojis of the rows that are not being added.
Reached(list) == {r.emoji : r \in {s \in list : s.state \notin Adding}}

\* The contact has got what has been added and, until its removal is accepted, what is being removed.
ContactFollows == contact = IF NoneSent THEN Reached(rows) ELSE Wanted(rows)

RoundInv ==
    /\ TypeOK /\ QueuesOK /\ OneRowPerEmoji /\ NothingMissing /\ ModelFollows
    /\ ClickFirst /\ ContinuedFirst /\ SentFirst /\ FailedFirst
    /\ WantedIsSent /\ ContactFollows

=============================================================================
