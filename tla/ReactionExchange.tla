-------------------------- MODULE ReactionExchange --------------------------
(***************************************************************************)
(* The reactions of one user to one message from the click to the screen   *)
(* of a contact who uses Kaidan, too: the sending account (Reactions) and  *)
(* the receiving one (ReceivedReactions), joined by the server, which      *)
(* keeps what it accepts and delivers it later, possibly more than once.   *)
(***************************************************************************)
EXTENDS ReceivedReactions

CONSTANTS MaxClicks, MaxFailures, MaxDisconnections, Waits   \* see Reactions

ASSUME SenderConstantsAssumption ==
    /\ {MaxClicks, MaxFailures, MaxDisconnections} \subseteq Nat
    /\ Waits \in BOOLEAN

VARIABLES ownRows, model, jobs, events, sendings, connected, contact, missing,
          clicks, failures, disconnections   \* see Reactions

Sender == INSTANCE Reactions WITH rows <- ownRows

senderVars == <<ownRows, model, jobs, events, sendings, connected, contact, missing,
                clicks, failures, disconnections>>
exchangeVars == <<vars, senderVars>>

ExchangeInit == Init /\ Sender!Init

\* A message that the server accepts joins the history the contact's client gets.
Accepted == \E emojis \in SUBSET Emojis : Sender!SendingSucceeded /\ contact' = emojis /\ React(emojis)

ExchangeNext ==
    \/ Sender!Local /\ UNCHANGED vars
    \/ Accepted
    \/ Arrival /\ UNCHANGED senderVars

ExchangeSpec == ExchangeInit /\ [][ExchangeNext]_exchangeVars

\* The sending client runs and is connected again, and each of its sendings has a result.  Nothing
\* is assumed of the receiving one.
FairExchangeSpec ==
    /\ ExchangeSpec
    /\ WF_exchangeVars(Sender!Thread /\ UNCHANGED vars)
    /\ WF_exchangeVars(Sender!Connect /\ UNCHANGED vars)
    /\ WF_exchangeVars(Accepted \/ (Sender!SendingFailed /\ UNCHANGED vars))

-----------------------------------------------------------------------------
(* Properties.                                                             *)

\* The sender's variables have their types, a change of a reaction finds it in the database (the
\* iterators in MessageModel's changes), and when nothing is under way, the model shows the rows
\* of the database (MessageDb::messageUpdated()).
SenderInv == Sender!TypeOK /\ Sender!NothingMissing /\ Sender!ModelIsCurrent

\* When nothing is under way at the sender and the contact has processed the latest reaction, the
\* contact is shown each reaction that the sender sees as sent and none that the sender no longer
\* sees ("Store and display delivery states of message reactions", NEWS.md).  A user who does not
\* wait can add a second reaction before the model has the first one: the second message revokes
\* the first reaction, and its result marks both as sent.  An addition whose message is on its way
\* can be undone: only the row is removed.
BothSidesAgree ==
    Sender!Idle /\ newest = Len(history) =>
        /\ \A r \in ownRows : r.state = "Sent" => r.emoji \in Shown
        /\ Shown \subseteq {r.emoji : r \in ownRows}

\* All that is pending is eventually sent, over disconnections, unless its removal failed.
EventuallySettled == Sender!EventuallySettled

=============================================================================
