-------------------------- MODULE ReceivedReactions --------------------------
(***************************************************************************)
(* The reactions of one sender to one message, as they are received        *)
(* (MessageController::handleReaction()) and stored                        *)
(* (MessageDb::_updateMessage()).                                          *)
(*                                                                         *)
(* A reaction is a message with all emojis its sender has chosen, and a    *)
(* timestamp.  Those that were sent arrive live or from the archive of the *)
(* server, before or after the message they belong to is stored.  The      *)
(* database has one row for each emoji.  The timestamp of the reaction     *)
(* that was processed last is not stored, only those with which rows were  *)
(* inserted.                                                               *)
(***************************************************************************)
EXTENDS Naturals, Sequences, FiniteSets

CONSTANTS
    Emojis,
    MaxReactions,   \* bound: reactions of the sender, the timestamp of each is its position
    InOrder         \* whether no reaction is received after a newer one

ASSUME ConstantsAssumption == MaxReactions \in Nat /\ InOrder \in BOOLEAN

VARIABLES
    history,     \* the emojis of each reaction that was sent
    stored,      \* whether the message is in the database
    rows,        \* [emoji, timestamp]
    newest       \* ghost: the timestamp of the newest processed reaction, 0 if there is none

vars == <<history, stored, rows, newest>>

Row == [emoji : Emojis, timestamp : 1..MaxReactions]

Shown == {r.emoji : r \in rows}

Init ==
    /\ history = <<>>
    /\ stored = FALSE
    /\ rows = {}
    /\ newest = 0

-----------------------------------------------------------------------------
\* The sender sends a reaction.
React(emojis) ==
    /\ Len(history) < MaxReactions
    /\ history' = Append(history, emojis)
    /\ UNCHANGED <<stored, rows, newest>>

StoreMessage ==
    /\ ~stored
    /\ stored' = TRUE
    /\ UNCHANGED <<history, rows, newest>>

\* MessageReactionSender::latestTimestamp as _fetchReactions() finds it, compared with that of a
\* received reaction: all rows must be older (none, if the sender has no reaction anymore).
Newer(timestamp) == \A r \in rows : r.timestamp < timestamp

\* Rows of emojis that are in the reaction stay as they are.
Kept(emojis) == {r \in rows : r.emoji \in emojis}

\* A fault: a row is inserted for each emoji.
InsertedForAll(timestamp, emojis) == [emoji : emojis, timestamp : {timestamp}]

Inserted(timestamp, emojis) == [emoji : emojis \ Shown, timestamp : {timestamp}]

\* A fault: a reaction adds emojis but removes none.
AddedTo(timestamp, emojis) == rows \cup Inserted(timestamp, emojis)

\* The rows after a newer reaction was processed.
Replaced(timestamp, emojis) == Kept(emojis) \cup Inserted(timestamp, emojis)

\* A fault: a reaction to a message that is not stored yet is inserted.
ReceiveAlways(t) ==
    /\ InOrder => newest <= t
    /\ rows' = IF Newer(t) THEN Replaced(t, history[t]) ELSE rows
    /\ newest' = IF stored /\ t > newest THEN t ELSE newest
    /\ UNCHANGED <<history, stored>>

\* handleReaction(): without the message, the reaction is dropped.
Receive(t) ==
    /\ InOrder => newest <= t
    /\ rows' = IF stored /\ Newer(t) THEN Replaced(t, history[t]) ELSE rows
    /\ newest' = IF stored /\ t > newest THEN t ELSE newest
    /\ UNCHANGED <<history, stored>>

Arrival == StoreMessage \/ \E t \in 1..Len(history) : Receive(t)

Next == Arrival \/ \E emojis \in SUBSET Emojis : React(emojis)

Spec == Init /\ [][Next]_vars

-----------------------------------------------------------------------------
(* Properties.                                                             *)

TypeOK ==
    /\ history \in Seq(SUBSET Emojis) /\ Len(history) <= MaxReactions
    /\ stored \in BOOLEAN
    /\ rows \subseteq Row
    /\ newest \in 0..Len(history)
    /\ ~stored => rows = {}

\* The reactions that are shown are those of the newest reaction that was processed ("Process only
\* newer reactions." in handleReaction()), however often it is received.  If reactions arrive out
\* of order, they are not: a reaction that removes emojis leaves no row with its timestamp.
NewestShown == newest # 0 => Shown = history[newest]

\* Each emoji has one row.
OneRowPerEmoji == \A r, s \in rows : r.emoji = s.emoji => r = s

\* In any order of the reactions, the variables have their types and each emoji has one row, although
\* rows are kept, removed and inserted by comparing sets of emojis (handleReaction()).
RowsInv == TypeOK /\ OneRowPerEmoji

=============================================================================
