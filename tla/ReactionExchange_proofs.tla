----------------------- MODULE ReactionExchange_proofs -----------------------
(***************************************************************************)
(* Proofs about reactions, for any emojis, clicks, failures and            *)
(* disconnections: the receiving client (ReceivedReactions) alone; that    *)
(* the exchange implements it; the sending client (Reactions) whose user   *)
(* waits; and that both agree when nothing is under way.                   *)
(***************************************************************************)
EXTENDS ReactionExchange, TLAPS, SequenceTheorems

-----------------------------------------------------------------------------
(* The receiving client.  What a reaction does to the rows is stated once  *)
(* (ReplacedRows); the invariant that makes NewestShown inductive is that  *)
(* no row is newer than the newest processed reaction, which holds for     *)
(* reactions in order only.                                                *)

\* After a reaction was processed, the rows are those of its emojis, one for each, with its own or
\* an older timestamp.
LEMMA ReplacedRows ==
    ASSUME TypeOK, OneRowPerEmoji, NEW t \in 1..Len(history)
    PROVE  LET after == Replaced(t, history[t])
           IN  /\ after \subseteq Row
               /\ {r.emoji : r \in after} = history[t]
               /\ \A r, s \in after : r.emoji = s.emoji => r = s
               /\ \A r \in after : r \in rows \/ r.timestamp = t
<1> DEFINE after == Replaced(t, history[t])
<1>1. history[t] \subseteq Emojis
    BY DEF TypeOK
<1>2. \A r \in after : \/ r \in rows /\ r.emoji \in history[t]
                       \/ r.emoji \in history[t] \ Shown /\ r.timestamp = t
    BY DEF Replaced, Kept, Inserted
<1>3. after \subseteq Row
    <2>1. t \in 1..MaxReactions
        BY ConstantsAssumption DEF TypeOK, ConstantsAssumption
    <2> QED BY <1>1, <2>1 DEF TypeOK, Row, Replaced, Kept, Inserted
<1>4. {r.emoji : r \in after} = history[t]
    <2>1. ASSUME NEW e \in history[t]
          PROVE  \E r \in after : r.emoji = e
        <3>1. CASE e \in Shown
            BY <3>1 DEF Shown, Replaced, Kept
        <3>2. CASE e \notin Shown
            <4>1. [emoji |-> e, timestamp |-> t] \in after
                BY <3>2 DEF Replaced, Inserted
            <4> QED BY <4>1
        <3> QED BY <3>1, <3>2
    <2> QED BY <1>2, <2>1
<1>5. ASSUME NEW r \in after, NEW s \in after, r.emoji = s.emoji
      PROVE  r = s
    <2>1. CASE r \in rows /\ s \in rows
        BY <2>1, <1>5 DEF OneRowPerEmoji
    <2>2. CASE r \notin rows /\ s \notin rows
        BY <2>2, <1>5 DEF Replaced, Kept, Inserted
    <2>3. CASE r \in rows /\ s \notin rows
        BY <2>3, <1>2, <1>5 DEF Shown
    <2>4. CASE r \notin rows /\ s \in rows
        BY <2>4, <1>2, <1>5 DEF Shown
    <2> QED BY <2>1, <2>2, <2>3, <2>4
<1> QED BY <1>2, <1>3, <1>4, <1>5

-----------------------------------------------------------------------------
\* In any order of the reactions, each emoji has one row and the variables have their types
\* (handleReaction() and _updateMessage()).
THEOREM RowsCorrect == Spec => []RowsInv
<1> USE ConstantsAssumption
<1>1. Init => RowsInv
    <2> SUFFICES ASSUME Init PROVE RowsInv
        OBVIOUS
    <2>1. history \in Seq(SUBSET Emojis) /\ Len(history) = 0
        BY DEF Init
    <2>2. Len(history) <= MaxReactions /\ newest \in 0..Len(history)
        BY <2>1 DEF Init, ConstantsAssumption
    <2>3. rows \subseteq Row /\ OneRowPerEmoji
        BY DEF Init, OneRowPerEmoji
    <2> QED BY <2>1, <2>2, <2>3 DEF Init, RowsInv, TypeOK
<1>2. RowsInv /\ [Next]_vars => RowsInv'
    <2> SUFFICES ASSUME RowsInv, [Next]_vars
                 PROVE  RowsInv'
        OBVIOUS
    <2> USE DEF RowsInv
    <2>1. CASE StoreMessage
        BY <2>1 DEF StoreMessage, TypeOK, OneRowPerEmoji
    <2>2. ASSUME NEW t \in 1..Len(history), Receive(t)
          PROVE  RowsInv'
        <3>1. rows' = rows \/ (stored /\ rows' = Replaced(t, history[t]))
            BY <2>2 DEF Receive
        <3>2. rows' \subseteq Row
            BY <3>1, ReplacedRows DEF TypeOK
        <3>3. OneRowPerEmoji'
            BY <3>1, ReplacedRows DEF OneRowPerEmoji
        <3>4. newest' \in 0..Len(history) /\ (~stored' => rows' = {})
            BY <2>2, <3>1 DEF Receive, TypeOK
        <3> QED BY <2>2, <3>2, <3>3, <3>4 DEF Receive, TypeOK
    <2>3. ASSUME NEW emojis \in SUBSET Emojis, React(emojis)
          PROVE  RowsInv'
        <3>1. history' \in Seq(SUBSET Emojis) /\ Len(history') = Len(history) + 1
            BY <2>3 DEF React, TypeOK
        <3>2. Len(history') <= MaxReactions /\ newest' \in 0..Len(history')
            BY <2>3, <3>1 DEF React, TypeOK
        <3> QED BY <2>3, <3>1, <3>2 DEF React, TypeOK, OneRowPerEmoji
    <2>4. CASE UNCHANGED vars
        BY <2>4 DEF vars, TypeOK, OneRowPerEmoji
    <2> QED BY <2>1, <2>2, <2>3, <2>4 DEF Next, Arrival
<1> QED BY <1>1, <1>2, PTL DEF Spec

-----------------------------------------------------------------------------
\* In order, no row is newer than the newest processed reaction.
NewestInv == NewestShown /\ \A r \in rows : r.timestamp <= newest

LEMMA NewestInvariant == ASSUME InOrder PROVE Spec => []NewestInv
<1> USE ConstantsAssumption
<1>1. Init => NewestInv
    BY DEF Init, NewestInv, NewestShown
<1>2. RowsInv /\ NewestInv /\ [Next]_vars => NewestInv'
    <2> SUFFICES ASSUME RowsInv, NewestInv, [Next]_vars
                 PROVE  NewestInv'
        OBVIOUS
    <2> USE DEF RowsInv, NewestInv
    <2>1. CASE StoreMessage
        BY <2>1 DEF StoreMessage, NewestShown, Shown
    <2>2. ASSUME NEW t \in 1..Len(history), Receive(t)
          PROVE  NewestInv'
        <3>1. CASE ~stored
            BY <2>2, <3>1 DEF Receive, NewestShown, Shown
        <3>2. CASE stored /\ Newer(t)
            <4>1. rows' = Replaced(t, history[t]) /\ newest' = t
                BY <2>2, <3>2 DEF Receive, TypeOK
            <4>2. \A r \in rows' : r.timestamp <= t
                BY <3>2, <4>1, ReplacedRows DEF Newer, TypeOK, Row
            <4>3. Shown' = history[t]
                BY <4>1, ReplacedRows DEF Shown
            <4> QED BY <2>2, <4>1, <4>2, <4>3 DEF Receive, NewestShown
        <3>3. CASE stored /\ ~Newer(t)
            <4>1. PICK r \in rows : ~(r.timestamp < t)
                BY <3>3 DEF Newer
            <4>2. newest = t
                BY <2>2, <4>1 DEF Receive, TypeOK, Row
            <4> QED BY <2>2, <3>3, <4>2 DEF Receive, NewestShown, Shown
        <3> QED BY <3>1, <3>2, <3>3
    <2>3. ASSUME NEW emojis \in SUBSET Emojis, React(emojis)
          PROVE  NewestInv'
        <3>1. newest # 0 => history'[newest] = history[newest]
            BY <2>3 DEF React, TypeOK
        <3> QED BY <2>3, <3>1 DEF React, NewestShown, Shown
    <2>4. CASE UNCHANGED vars
        BY <2>4 DEF vars, NewestShown, Shown
    <2> QED BY <2>1, <2>2, <2>3, <2>4 DEF Next, Arrival
<1> QED BY <1>1, <1>2, RowsCorrect, PTL DEF Spec

\* Reactions that are received in order leave what the newest one says.
THEOREM NewestCorrect == ASSUME InOrder PROVE Spec => []NewestShown
<1>1. NewestInv => NewestShown
    BY DEF NewestInv
<1> QED BY <1>1, NewestInvariant, PTL

-----------------------------------------------------------------------------
(* What is proved of the receiving client holds with any sending client: a *)
(* step of both clients is a step of ReceivedReactions or changes nothing  *)
(* of it.                                                                  *)

\* Each step of the exchange is a step of the receiving client, or none.
LEMMA ReceiverSteps == [ExchangeNext]_exchangeVars => [Next]_vars
<1> SUFFICES ASSUME [ExchangeNext]_exchangeVars
             PROVE  [Next]_vars
    OBVIOUS
<1>1. CASE Sender!Local /\ UNCHANGED vars
    BY <1>1
<1>2. CASE Accepted
    BY <1>2 DEF Accepted, Next
<1>3. CASE Arrival /\ UNCHANGED senderVars
    BY <1>3 DEF Next
<1>4. CASE UNCHANGED exchangeVars
    BY <1>4 DEF exchangeVars
<1> QED BY <1>1, <1>2, <1>3, <1>4 DEF ExchangeNext

\* The exchange implements the receiving client (ReceivedReactions).
THEOREM ExchangeImplementsReceiver == ExchangeSpec => Spec
<1>1. ExchangeInit => Init
    BY DEF ExchangeInit
<1> QED BY <1>1, ReceiverSteps, PTL DEF ExchangeSpec, Spec

\* If reactions arrive in order, a contact is shown those of the newest one the contact's client has
\* processed, whatever the sending client sends over clicks, failures and disconnections
\* (MessageController::handleReaction()).
THEOREM ExchangeShowsNewest == ASSUME InOrder PROVE ExchangeSpec => []NewestShown
    BY ExchangeImplementsReceiver, NewestCorrect

-----------------------------------------------------------------------------
(* The rows of the sending client.  A reaction is being added, being       *)
(* removed or sent; what a job does to the rows is stated as what becomes  *)
(* of these three sets of emojis.                                          *)

BeingAdded(list, e) == Sender!Has(list, e, Sender!Adding)
BeingRemoved(list, e) == Sender!Has(list, e, Sender!Removing)
IsSent(list, e) == Sender!Has(list, e, {"Sent"})

RowsOK(list) == list \subseteq Sender!Reaction /\ \A r, s \in list : r.emoji = s.emoji => r = s

OwnRowsOK == ownRows \subseteq Sender!Reaction /\ Sender!OneRowPerEmoji

\* The sets of emojis the sender's definitions speak of.
LEMMA RowSets ==
    ASSUME NEW list, RowsOK(list)
    PROVE  /\ \A e : Sender!Has(list, e, Sender!States)
                     <=> BeingAdded(list, e) \/ BeingRemoved(list, e) \/ IsSent(list, e)
           /\ \A e : /\ ~(BeingAdded(list, e) /\ BeingRemoved(list, e))
                     /\ ~(BeingAdded(list, e) /\ IsSent(list, e))
                     /\ ~(BeingRemoved(list, e) /\ IsSent(list, e))
           /\ Sender!Wanted(list) = {e \in Emojis : BeingAdded(list, e) \/ IsSent(list, e)}
           /\ Sender!Reached(list) = {e \in Emojis : BeingRemoved(list, e) \/ IsSent(list, e)}
<1> USE DEF RowsOK, Sender!Reaction, Sender!States, Sender!Adding, Sender!Removing
<1>1. \A e : Sender!Has(list, e, Sender!States) <=> BeingAdded(list, e) \/ BeingRemoved(list, e) \/ IsSent(list, e)
    BY DEF Sender!Has, BeingAdded, BeingRemoved, IsSent
<1>2. \A e : /\ ~(BeingAdded(list, e) /\ BeingRemoved(list, e))
             /\ ~(BeingAdded(list, e) /\ IsSent(list, e))
             /\ ~(BeingRemoved(list, e) /\ IsSent(list, e))
    BY DEF Sender!Has, BeingAdded, BeingRemoved, IsSent
<1>3. Sender!Wanted(list) = {e \in Emojis : BeingAdded(list, e) \/ IsSent(list, e)}
    BY DEF Sender!Wanted, Sender!Has, BeingAdded, IsSent
<1>4. Sender!Reached(list) = {e \in Emojis : BeingRemoved(list, e) \/ IsSent(list, e)}
    BY DEF Sender!Reached, Sender!Has, BeingRemoved, IsSent
<1> QED BY <1>1, <1>2, <1>3, <1>4

LEMMA OwnRowsAreRows == /\ OwnRowsOK <=> RowsOK(ownRows)
                        /\ OwnRowsOK' <=> RowsOK(ownRows')
    BY DEF OwnRowsOK, RowsOK, Sender!OneRowPerEmoji

\* Deleting and inserting again what has changed leaves the intended rows.
LEMMA UpdatedRows ==
    ASSUME OwnRowsOK, NEW after
    PROVE  Sender!Updated(after) = after
<1> DEFINE deleted == {r.emoji : r \in ownRows \ after}
<1>1. ASSUME NEW r \in ownRows PROVE r.emoji \in deleted <=> r \notin after
    BY DEF OwnRowsOK, Sender!OneRowPerEmoji
<1> QED BY <1>1 DEF Sender!Updated

\* What becomes of the rows if one of them gets another state.
LEMMA OneRowChanged ==
    ASSUME OwnRowsOK, NEW row \in ownRows, NEW from, NEW to \in Sender!States,
           ownRows' = (ownRows \ {row}) \cup Sender!Changed({row}, from, to)
    PROVE  /\ OwnRowsOK'
           /\ \A e, S : e # row.emoji => (Sender!Has(ownRows', e, S) <=> Sender!Has(ownRows, e, S))
           /\ \A S : Sender!Has(ownRows', row.emoji, S) <=> (IF row.state \in from THEN to ELSE row.state) \in S
<1> DEFINE new == IF row.state \in from THEN [row EXCEPT !.state = to] ELSE row
<1>1. /\ new \in Sender!Reaction /\ new.emoji = row.emoji
      /\ new.state = IF row.state \in from THEN to ELSE row.state
    BY DEF OwnRowsOK, Sender!Reaction
<1> HIDE DEF new
<1>2. ownRows' = (ownRows \ {row}) \cup {new}
    BY DEF Sender!Changed, new
<1>3. \A r \in ownRows : r.emoji = row.emoji => r = row
    BY DEF OwnRowsOK, Sender!OneRowPerEmoji
<1>4. OwnRowsOK'
    BY <1>1, <1>2, <1>3 DEF OwnRowsOK, Sender!OneRowPerEmoji
<1> QED BY <1>1, <1>2, <1>3, <1>4 DEF Sender!Has


LEMMA QueueHeads ==
    ASSUME Sender!QueuesOK
    PROVE  /\ jobs # <<>> => /\ Head(jobs) = jobs[1] /\ 1 \in DOMAIN jobs
                             /\ Head(jobs).kind \in Sender!JobKinds
                             /\ Head(jobs).emoji \in Emojis /\ Head(jobs).before \subseteq Sender!Reaction
           /\ events # <<>> => /\ Head(events) = events[1] /\ 1 \in DOMAIN events
                               /\ Head(events).emoji \in Emojis /\ Head(events).before \subseteq Sender!Reaction
           /\ sendings # <<>> => /\ Head(sendings) = sendings[1] /\ 1 \in DOMAIN sendings
                                 /\ Head(sendings).emoji \in Emojis /\ Head(sendings).emojis \subseteq Emojis
                                 /\ Head(sendings).click \in {"add", "remove", "resend", "all"}
<1>1. ASSUME NEW S, NEW q \in Seq(S), q # <<>>
      PROVE  Head(q) = q[1] /\ 1 \in DOMAIN q /\ Head(q) \in S
    BY <1>1
<1>2. jobs # <<>> => /\ Head(jobs) = jobs[1] /\ 1 \in DOMAIN jobs
                     /\ Head(jobs) \in [kind : Sender!JobKinds, emoji : Emojis, before : SUBSET Sender!Reaction]
    BY <1>1 DEF Sender!QueuesOK
<1>3. events # <<>> => /\ Head(events) = events[1] /\ 1 \in DOMAIN events
                       /\ Head(events) \in [kind : {"messageUpdated", "add", "remove", "fetch"}, emoji : Emojis,
                                            before : SUBSET Sender!Reaction]
    BY <1>1 DEF Sender!QueuesOK
<1>4. sendings # <<>> => /\ Head(sendings) = sendings[1] /\ 1 \in DOMAIN sendings
                         /\ Head(sendings) \in [emojis : SUBSET Emojis, click : {"add", "remove", "resend", "all"},
                                                emoji : Emojis]
    BY <1>1 DEF Sender!QueuesOK
<1> QED BY <1>2, <1>3, <1>4

\* A change finds its row; the rows become those it intends, and the main thread is told.
LEMMA ChangedRows ==
    ASSUME Sender!RoundInv, Sender!RunChange
    PROVE  LET job == Head(jobs)
           IN  /\ missing' = FALSE
               /\ events' = Sender!Reported(job, ownRows')
               /\ \/ job.kind = "sent" /\ ownRows' = Sender!AfterSending
                  \/ /\ job.kind \in Sender!LooksForRow
                     /\ \E row \in ownRows : row.emoji = job.emoji /\ ownRows' = Sender!After(job, row)
                  \/ job.kind \in {"add", "resend", "failed"} /\ ownRows' = Sender!After(job, job)
<1> DEFINE job == Head(jobs)
           found == {r \in ownRows : r.emoji = job.emoji}
<1> USE DEF Sender!RoundInv
<1>1. OwnRowsOK
    BY DEF OwnRowsOK, Sender!TypeOK
<1>2. /\ jobs # <<>> /\ job = jobs[1] /\ 1 \in DOMAIN jobs
      /\ job.kind \in Sender!JobKinds \ {"fetch"}
    BY QueueHeads DEF Sender!RunChange
<1>3. missing = FALSE
    BY DEF Sender!TypeOK, Sender!NothingMissing
<1>4. job.kind \in Sender!LooksForRow => found # {}
    <2>1. job.kind \in {"undoRemoval", "undoAddition", "remove"} => Sender!Has(ownRows, job.emoji, Sender!States)
        BY <1>2 DEF Sender!ClickFirst, Sender!ClickJobs
    <2>2. job.kind \in {"addFailed", "removeFailed"} => Sender!Awaited(job.kind, job.emoji)
        BY <1>2 DEF Sender!FailedFirst
    <2> QED BY <2>1, <2>2 DEF Sender!LooksForRow, Sender!Has, Sender!Awaited
<1>5. CASE job.kind = "sent"
    <2>1. ownRows' = Sender!Updated(Sender!AfterSending) /\ events' = Sender!Reported(job, Sender!AfterSending)
          /\ UNCHANGED missing
        BY <1>5 DEF Sender!RunChange, Sender!LooksForRow
    <2> QED BY <1>1, <1>3, <1>5, <2>1, UpdatedRows
<1>6. CASE job.kind \in Sender!LooksForRow
    <2>1. PICK row \in found : /\ ownRows' = Sender!Updated(Sender!After(job, row))
                               /\ events' = Sender!Reported(job, Sender!After(job, row))
                               /\ UNCHANGED missing
        BY <1>4, <1>6 DEF Sender!RunChange, Sender!LooksForRow
    <2>2. Sender!Updated(Sender!After(job, row)) = Sender!After(job, row)
        BY <1>1, UpdatedRows
    <2> QED BY <1>3, <1>6, <2>1, <2>2
<1>7. CASE job.kind \in {"add", "resend", "failed"}
    <2>1. /\ ownRows' = Sender!Updated(Sender!After(job, job))
          /\ events' = Sender!Reported(job, Sender!After(job, job))
          /\ UNCHANGED missing
        BY <1>7 DEF Sender!RunChange, Sender!LooksForRow
    <2>2. Sender!Updated(Sender!After(job, job)) = Sender!After(job, job)
        BY <1>1, UpdatedRows
    <2> QED BY <1>3, <1>7, <2>1, <2>2
<1> QED BY <1>2, <1>5, <1>6, <1>7 DEF Sender!JobKinds, Sender!LooksForRow

\* Each reaction with the state that f gives for its state.
Mapped(list, f) == {[emoji |-> r.emoji, state |-> f[r.state]] : r \in list}

\* A job that changes each row's state by itself.
LEMMA AllRowsChanged ==
    ASSUME OwnRowsOK, NEW f, \A s \in Sender!States : f[s] \in Sender!States,
           ownRows' = Mapped(ownRows, f)
    PROVE  /\ OwnRowsOK'
           /\ \A e, S : Sender!Has(ownRows', e, S) <=> Sender!Has(ownRows, e, {s \in Sender!States : f[s] \in S})
<1>1. \A r \in ownRows : r.emoji \in Emojis /\ r.state \in Sender!States
    BY DEF OwnRowsOK, Sender!Reaction
<1>2. OwnRowsOK'
    BY <1>1 DEF OwnRowsOK, Sender!Reaction, Sender!OneRowPerEmoji, Mapped
<1>3. ASSUME NEW e, NEW S
      PROVE  Sender!Has(ownRows', e, S) <=> Sender!Has(ownRows, e, {s \in Sender!States : f[s] \in S})
    <2>1. Sender!Has(ownRows', e, S) <=> \E q \in ownRows' : q.emoji = e /\ q.state \in S
        BY DEF Sender!Has
    <2>2. ASSUME NEW q \in ownRows', q.emoji = e, q.state \in S
          PROVE  \E r \in ownRows : r.emoji = e /\ f[r.state] \in S
        <3>1. PICK r \in ownRows : q = [emoji |-> r.emoji, state |-> f[r.state]]
            BY DEF Mapped
        <3>2. q.emoji = r.emoji /\ q.state = f[r.state]
            BY <3>1
        <3> QED BY <2>2, <3>2
    <2>3. ASSUME NEW r \in ownRows, r.emoji = e, f[r.state] \in S
          PROVE  \E q \in ownRows' : q.emoji = e /\ q.state \in S
        <3> DEFINE q == [emoji |-> r.emoji, state |-> f[r.state]]
        <3>1. q \in ownRows' /\ q.emoji = r.emoji /\ q.state = f[r.state]
            BY DEF Mapped
        <3> QED BY <2>3, <3>1
    <2> QED BY <1>1, <2>1, <2>2, <2>3 DEF Sender!Has
<1> QED BY <1>2, <1>3

\* Two changes of states in a row, seen as one change of each row.
LEMMA ChangedTwice ==
    ASSUME NEW list, list \subseteq Sender!Reaction,
           NEW a \in Sender!States, NEW b \in Sender!States, NEW c \in Sender!States, NEW d \in Sender!States,
           b # c,
           NEW f, \A s \in Sender!States : f[s] = IF s = a THEN b ELSE IF s = c THEN d ELSE s
    PROVE  Sender!Changed(Sender!Changed(list, {a}, b), {c}, d)
               = Mapped(list, f)
<1> DEFINE first(r) == IF r.state \in {a} THEN [r EXCEPT !.state = b] ELSE r
           second(r) == IF r.state \in {c} THEN [r EXCEPT !.state = d] ELSE r
<1>1. ASSUME NEW r \in list
      PROVE  second(first(r)) = [emoji |-> r.emoji, state |-> f[r.state]]
    <2>1. r \in [emoji : Emojis, state : Sender!States]
        BY DEF Sender!Reaction
    <2>2. first(r) = [emoji |-> r.emoji, state |-> IF r.state = a THEN b ELSE r.state]
        BY <2>1
    <2>3. second(first(r)) = [emoji |-> r.emoji, state |-> IF first(r).state = c THEN d ELSE first(r).state]
        BY <2>1, <2>2
    <2> QED BY <2>1, <2>2, <2>3
<1>2. Sender!Changed(Sender!Changed(list, {a}, b), {c}, d) = {second(q) : q \in {first(r) : r \in list}}
    BY DEF Sender!Changed
<1> HIDE DEF first, second
<1>3. {second(q) : q \in {first(r) : r \in list}} = {second(first(r)) : r \in list}
    OBVIOUS
<1> QED BY <1>1, <1>2, <1>3 DEF Mapped

\* The sets of emojis that have reactions of each kind stay as they are.
SameFor(e) ==
    /\ BeingAdded(ownRows', e) <=> BeingAdded(ownRows, e)
    /\ BeingRemoved(ownRows', e) <=> BeingRemoved(ownRows, e)
    /\ IsSent(ownRows', e) <=> IsSent(ownRows, e)

\* What each job makes of the three sets: a click moves its own emoji, a success everything, and no
\* other job moves anything.
LEMMA JobEffects ==
    ASSUME Sender!RoundInv, Sender!RunChange
    PROVE  LET job == Head(jobs)
               e == job.emoji
           IN  /\ OwnRowsOK'
               /\ job.kind = "sent" =>
                     \A x : ~BeingAdded(ownRows', x) /\ ~BeingRemoved(ownRows', x) /\ (IsSent(ownRows', x) <=> BeingAdded(ownRows, x) \/ IsSent(ownRows, x))
               /\ job.kind # "sent" => \A x : x # e \/ job.kind \notin Sender!ClickJobs => SameFor(x)
               /\ job.kind = "add" => BeingAdded(ownRows', e) /\ ~BeingRemoved(ownRows', e) /\ ~IsSent(ownRows', e)
               /\ job.kind = "undoRemoval" =>
                     /\ BeingAdded(ownRows', e) <=> BeingAdded(ownRows, e)
                     /\ ~BeingRemoved(ownRows', e)
                     /\ IsSent(ownRows', e) <=> BeingRemoved(ownRows, e) \/ IsSent(ownRows, e)
               /\ job.kind = "undoAddition" =>
                     /\ ~BeingAdded(ownRows', e)
                     /\ BeingRemoved(ownRows', e) <=> BeingRemoved(ownRows, e)
                     /\ IsSent(ownRows', e) <=> IsSent(ownRows, e)
               /\ job.kind = "remove" => ~BeingAdded(ownRows', e) /\ BeingRemoved(ownRows', e) /\ ~IsSent(ownRows', e)
<1> DEFINE job == Head(jobs)
           e == job.emoji
<1> USE DEF Sender!RoundInv
<1>1. OwnRowsOK
    BY DEF OwnRowsOK, Sender!TypeOK
<1>2. /\ jobs # <<>> /\ job = jobs[1] /\ 1 \in DOMAIN jobs
      /\ job.kind \in Sender!JobKinds \ {"fetch"} /\ e \in Emojis
    BY QueueHeads DEF Sender!RunChange
<1>3. /\ Sender!Adding = {"PendingAddition", "ErrorOnAddition"}
      /\ Sender!Removing = {"PendingRemoval", "ErrorOnRemoval"}
      /\ Sender!States = {"PendingAddition", "PendingRemoval", "ErrorOnAddition", "ErrorOnRemoval", "Sent"}
    BY DEF Sender!Adding, Sender!Removing, Sender!States
\* The row that a job looks for is the one of its emoji.
<1>4. ASSUME NEW row \in ownRows, row.emoji = e
      PROVE  /\ row.state \in Sender!States
             /\ \A S : Sender!Has(ownRows, e, S) <=> row.state \in S
    BY <1>1, <1>4 DEF OwnRowsOK, Sender!OneRowPerEmoji, Sender!Reaction, Sender!Has
\* A job that changes the state of one row.
<1>5. ASSUME NEW row \in ownRows, row.emoji = e, NEW from, NEW to \in Sender!States,
             ownRows' = (ownRows \ {row}) \cup Sender!Changed({row}, from, to)
      PROVE  /\ OwnRowsOK'
             /\ \A x : x # e => SameFor(x)
             /\ \A S : Sender!Has(ownRows', e, S) <=> (IF row.state \in from THEN to ELSE row.state) \in S
    <2>1. /\ OwnRowsOK'
          /\ \A x, S : x # row.emoji => (Sender!Has(ownRows', x, S) <=> Sender!Has(ownRows, x, S))
          /\ \A S : Sender!Has(ownRows', row.emoji, S) <=> (IF row.state \in from THEN to ELSE row.state) \in S
        BY <1>1, <1>5, OneRowChanged
    <2>2. ASSUME NEW x, x # e PROVE SameFor(x)
        <3>1. \A S : Sender!Has(ownRows', x, S) <=> Sender!Has(ownRows, x, S)
            BY <1>5, <2>1, <2>2
        <3> QED BY <3>1 DEF SameFor, BeingAdded, BeingRemoved, IsSent
    <2> QED BY <1>5, <2>1, <2>2
<1>6. CASE job.kind = "sent"
    <2>1. ownRows' = Sender!AfterSending
        BY <1>6, ChangedRows DEF Sender!LooksForRow
    <2>2. \A r \in ownRows : r \in [emoji : Emojis, state : Sender!States]
        BY <1>1 DEF OwnRowsOK, Sender!Reaction
    <2>3. \A q \in ownRows' : \E r \in ownRows : q.emoji = r.emoji /\ q.state = "Sent" /\ q \in Sender!Reaction
                                                 /\ r.state \notin Sender!Removing
        BY <1>3, <2>1, <2>2 DEF Sender!AfterSending, Sender!Changed, Sender!Reaction
    <2>4. \A r \in ownRows : r.state \notin Sender!Removing => [emoji |-> r.emoji, state |-> "Sent"] \in ownRows'
        <3> SUFFICES ASSUME NEW r \in ownRows, r.state \notin Sender!Removing
                     PROVE  [emoji |-> r.emoji, state |-> "Sent"] \in ownRows'
            OBVIOUS
        <3> DEFINE q == IF r.state \in Sender!Adding THEN [r EXCEPT !.state = "Sent"] ELSE r
        <3>1. q = [emoji |-> r.emoji, state |-> "Sent"]
            BY <1>3, <2>2
        <3>2. q \in Sender!Changed(ownRows, Sender!Adding, "Sent")
            BY DEF Sender!Changed
        <3>3. q.state = "Sent"
            BY <3>1
        <3> HIDE DEF q
        <3> QED BY <1>3, <2>1, <3>1, <3>2, <3>3 DEF Sender!AfterSending
    <2>5. OwnRowsOK'
        <3>1. \A q, s \in ownRows' : q.emoji = s.emoji => q = s
            BY <2>3 DEF Sender!Reaction
        <3> QED BY <2>3, <3>1 DEF OwnRowsOK, Sender!OneRowPerEmoji
    <2>6. ASSUME NEW x PROVE ~BeingAdded(ownRows', x) /\ ~BeingRemoved(ownRows', x) /\ (IsSent(ownRows', x) <=> BeingAdded(ownRows, x) \/ IsSent(ownRows, x))
        <3>1. ~BeingAdded(ownRows', x) /\ ~BeingRemoved(ownRows', x)
            BY <1>3, <2>3 DEF BeingAdded, BeingRemoved, Sender!Has
        <3>2. IsSent(ownRows', x) => BeingAdded(ownRows, x) \/ IsSent(ownRows, x)
            BY <1>3, <2>2, <2>3 DEF BeingAdded, IsSent, Sender!Has
        <3>3. BeingAdded(ownRows, x) \/ IsSent(ownRows, x) => IsSent(ownRows', x)
            BY <1>3, <2>4 DEF BeingAdded, IsSent, Sender!Has
        <3> QED BY <3>1, <3>2, <3>3
    <2> QED BY <1>6, <2>5, <2>6
<1>7. CASE job.kind \in {"resend", "failed"}
    <2> DEFINE f == [s \in Sender!States |->
                        IF job.kind = "resend"
                        THEN IF s = "ErrorOnAddition" THEN "PendingAddition"
                             ELSE IF s = "ErrorOnRemoval" THEN "PendingRemoval" ELSE s
                        ELSE IF s = "PendingAddition" THEN "ErrorOnAddition"
                             ELSE IF s = "PendingRemoval" THEN "ErrorOnRemoval" ELSE s]
    <2>1. ownRows' = Sender!After(job, job)
        BY <1>7, ChangedRows DEF Sender!LooksForRow
    <2>2. \A s \in Sender!States : f[s] \in Sender!States
        BY <1>3
    <2>3. ownRows \subseteq Sender!Reaction
        BY <1>1 DEF OwnRowsOK
    <2>4. ownRows' = Mapped(ownRows, f)
        <3>1. CASE job.kind = "resend"
            <4>1. ownRows' = Sender!Changed(Sender!Changed(ownRows, {"ErrorOnAddition"}, "PendingAddition"),
                                            {"ErrorOnRemoval"}, "PendingRemoval")
                BY <2>1, <3>1 DEF Sender!After
            <4>2. \A s \in Sender!States : f[s] = IF s = "ErrorOnAddition" THEN "PendingAddition"
                                                  ELSE IF s = "ErrorOnRemoval" THEN "PendingRemoval" ELSE s
                BY <3>1
            <4>3. /\ "PendingAddition" \in Sender!States /\ "PendingRemoval" \in Sender!States
                  /\ "ErrorOnAddition" \in Sender!States /\ "ErrorOnRemoval" \in Sender!States
                  /\ "PendingAddition" # "ErrorOnRemoval"
                BY <1>3
            <4> HIDE DEF f
            <4> QED BY <2>3, <4>1, <4>2, <4>3, ChangedTwice
        <3>2. CASE job.kind = "failed"
            <4>1. ownRows' = Sender!Changed(Sender!Changed(ownRows, {"PendingAddition"}, "ErrorOnAddition"),
                                            {"PendingRemoval"}, "ErrorOnRemoval")
                BY <2>1, <3>2 DEF Sender!After
            <4>2. \A s \in Sender!States : f[s] = IF s = "PendingAddition" THEN "ErrorOnAddition"
                                                  ELSE IF s = "PendingRemoval" THEN "ErrorOnRemoval" ELSE s
                BY <3>2
            <4>3. /\ "PendingAddition" \in Sender!States /\ "PendingRemoval" \in Sender!States
                  /\ "ErrorOnAddition" \in Sender!States /\ "ErrorOnRemoval" \in Sender!States
                  /\ "ErrorOnAddition" # "PendingRemoval"
                BY <1>3
            <4> HIDE DEF f
            <4> QED BY <2>3, <4>1, <4>2, <4>3, ChangedTwice
        <3> QED BY <1>7, <3>1, <3>2
    <2>5. \A S \in {Sender!Adding, Sender!Removing, {"Sent"}} : {s \in Sender!States : f[s] \in S} = S
        BY <1>3, <1>7
    <2> HIDE DEF f
    <2>6. /\ OwnRowsOK'
          /\ \A x, S : Sender!Has(ownRows', x, S) <=> Sender!Has(ownRows, x, {s \in Sender!States : f[s] \in S})
        BY <1>1, <2>2, <2>4, AllRowsChanged
    <2>7. \A x : SameFor(x)
        BY <2>5, <2>6 DEF SameFor, BeingAdded, BeingRemoved, IsSent
    <2> QED BY <1>7, <2>6, <2>7 DEF Sender!ClickJobs
<1>8. CASE job.kind = "add"
    <2> DEFINE new == [emoji |-> e, state |-> "PendingAddition"]
    <2>1. ownRows' = ownRows \cup {new}
        BY <1>8, ChangedRows DEF Sender!LooksForRow, Sender!After
    <2>2. ~Sender!Has(ownRows, e, Sender!States)
        BY <1>2, <1>8 DEF Sender!ClickFirst, Sender!ClickJobs
    <2>3. \A r \in ownRows : r.emoji # e
        BY <1>1, <2>2 DEF OwnRowsOK, Sender!Reaction, Sender!Has
    <2>4. OwnRowsOK'
        BY <1>1, <1>2, <1>3, <2>1, <2>3 DEF OwnRowsOK, Sender!OneRowPerEmoji, Sender!Reaction
    <2>5. \A x : x # e => SameFor(x)
        BY <2>1 DEF SameFor, BeingAdded, BeingRemoved, IsSent, Sender!Has
    <2>6. BeingAdded(ownRows', e) /\ ~BeingRemoved(ownRows', e) /\ ~IsSent(ownRows', e)
        <3>1. new \in ownRows' /\ new.emoji = e /\ new.state = "PendingAddition"
            BY <2>1
        <3>2. \A r \in ownRows' : r.emoji = e => r.state = "PendingAddition"
            BY <2>1, <2>3
        <3> QED BY <1>3, <3>1, <3>2 DEF BeingAdded, BeingRemoved, IsSent, Sender!Has
    <2> QED BY <1>8, <2>4, <2>5, <2>6 DEF Sender!ClickJobs
<1>9. CASE job.kind \in Sender!LooksForRow
    <2>1. PICK row \in ownRows : row.emoji = e /\ ownRows' = Sender!After(job, row)
        BY <1>9, ChangedRows DEF Sender!LooksForRow
    <2>2. row.state \in Sender!States /\ \A S : Sender!Has(ownRows, e, S) <=> row.state \in S
        BY <1>4, <2>1
    <2>3. CASE job.kind = "undoRemoval"
        <3>1. ownRows' = (ownRows \ {row}) \cup Sender!Changed({row}, Sender!Removing, "Sent")
            BY <2>1, <2>3 DEF Sender!After
        <3>2. /\ OwnRowsOK' /\ \A x : x # e => SameFor(x)
              /\ \A S : Sender!Has(ownRows', e, S) <=>
                        (IF row.state \in Sender!Removing THEN "Sent" ELSE row.state) \in S
            <4>1. "Sent" \in Sender!States
                BY <1>3
            <4> QED BY <1>5, <2>1, <3>1, <4>1
        <3> QED BY <1>3, <2>2, <2>3, <3>2 DEF BeingAdded, BeingRemoved, IsSent, Sender!ClickJobs
    <2>4. CASE job.kind = "undoAddition"
        <3>1. ownRows' = IF row.state \in Sender!Adding THEN ownRows \ {row} ELSE ownRows
            BY <2>1, <2>4 DEF Sender!After
        <3>2. OwnRowsOK' /\ \A x : x # e => SameFor(x)
            BY <1>1, <2>1, <3>1 DEF OwnRowsOK, Sender!OneRowPerEmoji, SameFor, BeingAdded, BeingRemoved, IsSent,
                                    Sender!Has
        <3>3. ~BeingAdded(ownRows', e) /\ (BeingRemoved(ownRows', e) <=> BeingRemoved(ownRows, e)) /\ (IsSent(ownRows', e) <=> IsSent(ownRows, e))
            <4>1. CASE row.state \in Sender!Adding
                <5>1. \A r \in ownRows' : r.emoji # e
                    BY <1>1, <2>1, <3>1, <4>1 DEF OwnRowsOK, Sender!OneRowPerEmoji
                <5> QED BY <1>3, <2>2, <4>1, <5>1 DEF BeingAdded, BeingRemoved, IsSent, Sender!Has
            <4>2. CASE row.state \notin Sender!Adding
                BY <2>2, <3>1, <4>2 DEF BeingAdded, BeingRemoved, IsSent
            <4> QED BY <4>1, <4>2
        <3> QED BY <2>4, <3>2, <3>3 DEF Sender!ClickJobs
    <2>5. CASE job.kind = "remove"
        <3>1. ownRows' = (ownRows \ {row}) \cup Sender!Changed({row}, {"Sent"}, "PendingRemoval")
            BY <2>1, <2>5 DEF Sender!After
        <3>2. /\ OwnRowsOK' /\ \A x : x # e => SameFor(x)
              /\ \A S : Sender!Has(ownRows', e, S) <=> (IF row.state \in {"Sent"} THEN "PendingRemoval" ELSE row.state) \in S
            BY <1>3, <1>5, <2>1, <3>1
        <3>3. row.state \notin Sender!Adding
            BY <1>2, <2>2, <2>5 DEF Sender!ClickFirst, Sender!ClickJobs
        <3> QED BY <1>3, <2>2, <2>5, <3>2, <3>3 DEF BeingAdded, BeingRemoved, IsSent, Sender!ClickJobs
    <2>6. CASE job.kind = "addFailed"
        <3>1. ownRows' = (ownRows \ {row}) \cup Sender!Changed({row}, Sender!States, "ErrorOnAddition")
            BY <2>1, <2>6 DEF Sender!After
        <3>2. /\ OwnRowsOK' /\ \A x : x # e => SameFor(x)
              /\ \A S : Sender!Has(ownRows', e, S) <=>
                        (IF row.state \in Sender!States THEN "ErrorOnAddition" ELSE row.state) \in S
            <4>1. "ErrorOnAddition" \in Sender!States
                BY <1>3
            <4> QED BY <1>5, <2>1, <3>1, <4>1
        <3>3. row.state \in Sender!Adding
            BY <1>2, <2>2, <2>6 DEF Sender!FailedFirst, Sender!Awaited
        <3>4. SameFor(e)
            BY <1>3, <2>2, <3>2, <3>3 DEF SameFor, BeingAdded, BeingRemoved, IsSent
        <3> QED BY <2>6, <3>2, <3>4 DEF Sender!ClickJobs
    <2>7. CASE job.kind = "removeFailed"
        <3>1. ownRows' = (ownRows \ {row}) \cup Sender!Changed({row}, {"Sent"}, "ErrorOnRemoval")
            BY <2>1, <2>7 DEF Sender!After
        <3>2. /\ OwnRowsOK' /\ \A x : x # e => SameFor(x)
              /\ \A S : Sender!Has(ownRows', e, S) <=> (IF row.state \in {"Sent"} THEN "ErrorOnRemoval" ELSE row.state) \in S
            BY <1>3, <1>5, <2>1, <3>1
        <3>3. row.state \in Sender!Removing
            BY <1>2, <2>2, <2>7 DEF Sender!FailedFirst, Sender!Awaited
        <3>4. SameFor(e)
            BY <1>3, <2>2, <3>2, <3>3 DEF SameFor, BeingAdded, BeingRemoved, IsSent
        <3> QED BY <2>7, <3>2, <3>4 DEF Sender!ClickJobs
    <2> QED BY <1>9, <2>3, <2>4, <2>5, <2>6, <2>7 DEF Sender!LooksForRow
<1> QED BY <1>2, <1>6, <1>7, <1>8, <1>9 DEF Sender!JobKinds, Sender!LooksForRow

-----------------------------------------------------------------------------
(* The queues of the sending client.                                       *)

LEMMA AppendedElements ==
    ASSUME NEW S, NEW q \in Seq(S), NEW x \in S
    PROVE  /\ Append(q, x) \in Seq(S)
           /\ DOMAIN q = 1 .. Len(q) /\ Len(q) \in Nat /\ DOMAIN Append(q, x) = 1 .. Len(q) + 1
           /\ \A k \in DOMAIN q : Append(q, x)[k] = q[k]
           /\ Append(q, x)[Len(q) + 1] = x
    OBVIOUS

LEMMA RemainingElements ==
    ASSUME NEW S, NEW q \in Seq(S), q # <<>>
    PROVE  /\ Tail(q) \in Seq(S)
           /\ DOMAIN q = 1 .. Len(q) /\ Len(q) \in Nat \ {0} /\ DOMAIN Tail(q) = 1 .. Len(q) - 1
           /\ \A k \in DOMAIN Tail(q) : k + 1 \in DOMAIN q /\ k \in Nat \ {0} /\ Tail(q)[k] = q[k + 1]
    OBVIOUS

LEMMA AppendedPair ==
    ASSUME NEW S, NEW x \in S, NEW y \in S
    PROVE  Append(<<x>>, y) = <<x, y>>
<1>1. Append(<<x>>, y) \in Seq(S) /\ <<x, y>> \in Seq(S) /\ Len(Append(<<x>>, y)) = Len(<<x, y>>)
    OBVIOUS
<1>2. \A k \in 1..2 : Append(<<x>>, y)[k] = <<x, y>>[k]
    OBVIOUS
<1> QED BY <1>1, <1>2, SeqEqual

Event == [kind : {"messageUpdated", "add", "remove", "fetch"}, emoji : Emojis, before : SUBSET Sender!Reaction]
JobRecord == [kind : Sender!JobKinds, emoji : Emojis, before : SUBSET Sender!Reaction]
Message == [emojis : SUBSET Emojis, click : {"add", "remove", "resend", "all"}, emoji : Emojis]

LEMMA QueuesType == Sender!QueuesOK <=> jobs \in Seq(JobRecord) /\ events \in Seq(Event) /\ sendings \in Seq(Message)
    BY DEF Sender!QueuesOK, Event, JobRecord, Message

\* What a change reports: the changed message if it has changed, then itself if it is a click.
LEMMA ReportedEvents ==
    ASSUME events \in Seq(Event), NEW job \in JobRecord, NEW after, after \subseteq Sender!Reaction,
           events' = Sender!Reported(job, after)
    PROVE  LET update == [kind |-> "messageUpdated", emoji |-> job.emoji, before |-> after]
               updated == IF after = ownRows THEN events ELSE Append(events, update)
           IN  /\ update \in Event /\ update.kind = "messageUpdated" /\ update.before = after
               /\ updated \in Seq(Event)
               /\ events' = IF job.kind \in {"add", "remove"} THEN Append(updated, job) ELSE updated
<1> DEFINE update == [kind |-> "messageUpdated", emoji |-> job.emoji, before |-> after]
           updated == IF after = ownRows THEN events ELSE Append(events, update)
<1>1. update \in Event /\ update.kind = "messageUpdated" /\ update.before = after
    BY DEF JobRecord, Event
<1>2. updated \in Seq(Event) /\ updated = events \o (IF after = ownRows THEN <<>> ELSE <<update>>)
    BY <1>1
<1>3. job.kind \in {"add", "remove"} => job \in Event
    BY DEF JobRecord, Event
<1>4. events' = updated \o (IF job.kind \in {"add", "remove"} THEN <<job>> ELSE <<>>)
    BY <1>2 DEF Sender!Reported
<1> HIDE DEF updated
<1>5. events' = IF job.kind \in {"add", "remove"} THEN Append(updated, job) ELSE updated
    <2>1. CASE job.kind \in {"add", "remove"}
        <3>1. events' = updated \o <<job>> /\ job \in Event
            BY <1>3, <1>4, <2>1
        <3> QED BY <1>2, <2>1, <3>1
    <2>2. CASE job.kind \notin {"add", "remove"}
        <3>1. events' = updated \o <<>>
            BY <1>4, <2>2
        <3> QED BY <1>2, <2>2, <3>1
    <2> QED BY <2>1, <2>2
<1> QED BY <1>1, <1>2, <1>5 DEF updated

\* What a change leaves of the queues, and what is wanted after it.
LEMMA RunChangeFacts ==
    ASSUME Sender!RoundInv, Sender!RunChange
    PROVE  /\ jobs \in Seq(JobRecord) /\ jobs # <<>> /\ jobs' = Tail(jobs) /\ Head(jobs) = jobs[1] /\ 1 \in DOMAIN jobs
           /\ Head(jobs).kind \in Sender!JobKinds \ {"fetch"} /\ Head(jobs).emoji \in Emojis
           /\ UNCHANGED <<model, sendings, connected, contact, clicks, failures, disconnections>>
           /\ OwnRowsOK /\ OwnRowsOK' /\ missing' = FALSE
           /\ jobs' \in Seq(JobRecord) /\ events' \in Seq(Event)
<1> USE DEF Sender!RoundInv
<1>1. jobs \in Seq(JobRecord) /\ events \in Seq(Event)
    BY QueuesType
<1>2. jobs # <<>> /\ jobs' = Tail(jobs) /\ Head(jobs).kind # "fetch"
      /\ UNCHANGED <<model, sendings, connected, contact, clicks, failures, disconnections>>
    BY DEF Sender!RunChange, Sender!counters
<1>3. Head(jobs) \in JobRecord /\ Head(jobs) = jobs[1] /\ 1 \in DOMAIN jobs
    BY <1>1, <1>2
<1>4. OwnRowsOK /\ OwnRowsOK' /\ missing' = FALSE
    BY ChangedRows, JobEffects DEF OwnRowsOK, Sender!TypeOK
<1>5. events' \in Seq(Event)
    <2>1. events' = Sender!Reported(Head(jobs), ownRows') /\ ownRows' \subseteq Sender!Reaction
        BY <1>4, ChangedRows DEF OwnRowsOK
    <2> DEFINE update == [kind |-> "messageUpdated", emoji |-> Head(jobs).emoji, before |-> ownRows']
               updated == IF ownRows' = ownRows THEN events ELSE Append(events, update)
    <2>2. updated \in Seq(Event)
          /\ events' = IF Head(jobs).kind \in {"add", "remove"} THEN Append(updated, Head(jobs)) ELSE updated
        BY <1>1, <1>3, <2>1, ReportedEvents
    <2>3. Head(jobs).kind \in {"add", "remove"} => Head(jobs) \in Event
        BY <1>3 DEF JobRecord, Event
    <2> HIDE DEF updated
    <2> QED BY <2>2, <2>3
<1> QED BY <1>1, <1>2, <1>3, <1>4, <1>5 DEF JobRecord

\* A job that is not that of a click changes neither what is wanted nor what is awaited, unless it is
\* a success; it reports the changed rows at most.
LEMMA ResultChange ==
    ASSUME Sender!RoundInv, Sender!RunChange, Head(jobs).kind \notin Sender!ClickJobs
    PROVE  /\ Sender!Wanted(ownRows') = Sender!Wanted(ownRows)
           /\ Head(jobs).kind # "sent" =>
                /\ \A e, S : S \in {Sender!Adding, Sender!Removing} =>
                       (Sender!Has(ownRows', e, S) <=> Sender!Has(ownRows, e, S))
                /\ Sender!Reached(ownRows')
                     = Sender!Reached(ownRows)
           /\ Head(jobs).kind = "sent" =>
                Sender!Reached(ownRows') = Sender!Wanted(ownRows')
<1> USE DEF Sender!RoundInv
<1>1. OwnRowsOK /\ OwnRowsOK'
    BY RunChangeFacts
<1>2. /\ Sender!Wanted(ownRows) = {e \in Emojis : BeingAdded(ownRows, e) \/ IsSent(ownRows, e)}
      /\ Sender!Reached(ownRows)
           = {e \in Emojis : BeingRemoved(ownRows, e) \/ IsSent(ownRows, e)}
    BY <1>1, RowSets, OwnRowsAreRows
<1>3. /\ Sender!Wanted(ownRows') = {e \in Emojis : BeingAdded(ownRows', e) \/ IsSent(ownRows', e)}
      /\ Sender!Reached(ownRows')
           = {e \in Emojis : BeingRemoved(ownRows', e) \/ IsSent(ownRows', e)}
    BY <1>1, RowSets, OwnRowsAreRows
<1>4. CASE Head(jobs).kind = "sent"
    <2>1. \A x : ~BeingAdded(ownRows', x) /\ ~BeingRemoved(ownRows', x)
                 /\ (IsSent(ownRows', x) <=> BeingAdded(ownRows, x) \/ IsSent(ownRows, x))
        BY <1>4, JobEffects
    <2> QED BY <1>2, <1>3, <1>4, <2>1
<1>5. CASE Head(jobs).kind # "sent"
    <2>1. \A x : SameFor(x)
        BY <1>5, JobEffects
    <2>2. \A x : /\ BeingAdded(ownRows', x) <=> BeingAdded(ownRows, x)
                 /\ BeingRemoved(ownRows', x) <=> BeingRemoved(ownRows, x)
                 /\ IsSent(ownRows', x) <=> IsSent(ownRows, x)
        BY <2>1 DEF SameFor
    <2>3. \A e, S : S \in {Sender!Adding, Sender!Removing} =>
              (Sender!Has(ownRows', e, S) <=> Sender!Has(ownRows, e, S))
        BY <2>2 DEF BeingAdded, BeingRemoved
    <2> QED BY <1>2, <1>3, <1>5, <2>2, <2>3
<1> QED BY <1>4, <1>5

-----------------------------------------------------------------------------
(* The steps of the sending client keep RoundInv.                          *)

\* The events after a job that is not that of a click.
LEMMA ResultEvents ==
    ASSUME Sender!RoundInv, Sender!RunChange, Head(jobs).kind \notin Sender!ClickJobs
    PROVE  \/ ownRows' = ownRows /\ events' = events
           \/ \E update \in Event : /\ update.kind = "messageUpdated" /\ update.before = ownRows'
                                    /\ events' = Append(events, update)
<1>1. Head(jobs) \in JobRecord /\ events \in Seq(Event) /\ ownRows' \subseteq Sender!Reaction
      /\ events' = Sender!Reported(Head(jobs), ownRows')
    <2>1. jobs \in Seq(JobRecord) /\ jobs # <<>> /\ OwnRowsOK'
        BY RunChangeFacts
    <2> QED BY <2>1, QueuesType, ChangedRows DEF Sender!RoundInv, OwnRowsOK
<1>2. Head(jobs).kind \notin {"add", "remove"}
    BY DEF Sender!ClickJobs
<1> DEFINE update == [kind |-> "messageUpdated", emoji |-> Head(jobs).emoji, before |-> ownRows']
<1>3. /\ update \in Event /\ update.kind = "messageUpdated" /\ update.before = ownRows'
      /\ events' = IF ownRows' = ownRows THEN events ELSE Append(events, update)
    BY <1>1, <1>2, ReportedEvents
<1> HIDE DEF update
<1> QED BY <1>3

LEMMA ResultStep ==
    ASSUME Sender!RoundInv, Sender!RunChange, Head(jobs).kind \notin Sender!ClickJobs
    PROVE  Sender!RoundInv'
<1> USE DEF Sender!RoundInv
<1> DEFINE job == Head(jobs)
<1>1. /\ jobs \in Seq(JobRecord) /\ jobs # <<>> /\ jobs' = Tail(jobs) /\ job = jobs[1] /\ 1 \in DOMAIN jobs
      /\ job.kind \in Sender!JobKinds \ {"fetch"}
      /\ UNCHANGED <<model, sendings, connected, contact, clicks, failures, disconnections>>
      /\ OwnRowsOK' /\ missing' = FALSE
      /\ jobs' \in Seq(JobRecord) /\ events' \in Seq(Event)
    BY RunChangeFacts
<1>2. \A k \in DOMAIN jobs' : k + 1 \in DOMAIN jobs /\ k \in Nat \ {0} /\ jobs'[k] = jobs[k + 1]
    BY <1>1, RemainingElements
<1>2a. \A k \in DOMAIN jobs : k # 1 => k - 1 \in DOMAIN jobs' /\ jobs'[k - 1] = jobs[k] /\ k \in Nat
    BY <1>1, RemainingElements
<1>3. events \in Seq(Event) /\ sendings \in Seq(Message)
    BY QueuesType
<1>4. \/ ownRows' = ownRows /\ events' = events
      \/ \E update \in Event : /\ update.kind = "messageUpdated" /\ update.before = ownRows'
                               /\ events' = Append(events, update)
    BY ResultEvents
<1>5. /\ DOMAIN events = 1 .. Len(events) /\ Len(events) \in Nat
      /\ \A k \in DOMAIN events' : k \in DOMAIN events => events'[k] = events[k]
      /\ \A k \in DOMAIN events' : k \notin DOMAIN events => events'[k].kind = "messageUpdated"
      /\ DOMAIN events \subseteq DOMAIN events' /\ DOMAIN events' \subseteq Nat
    BY <1>3, <1>4, AppendedElements
<1>6. /\ Sender!Wanted(ownRows') = Sender!Wanted(ownRows)
      /\ job.kind # "sent" =>
           /\ \A e, S : S \in {Sender!Adding, Sender!Removing} =>
                  (Sender!Has(ownRows', e, S) <=> Sender!Has(ownRows, e, S))
           /\ Sender!Reached(ownRows') = Sender!Reached(ownRows)
      /\ job.kind = "sent" => Sender!Reached(ownRows') = Sender!Wanted(ownRows')
    BY ResultChange
<1>7. Sender!TypeOK'
    <2>1. \A i \in DOMAIN events' : events'[i] \in Event
        BY <1>1
    <2>2. \A i \in DOMAIN events' : events'[i].before \subseteq Sender!Reaction
        BY <2>1 DEF Event
    <2> QED BY <1>1, <2>2 DEF Sender!TypeOK, OwnRowsOK
<1>8. Sender!QueuesOK' /\ Sender!OneRowPerEmoji' /\ Sender!NothingMissing'
    BY <1>1, <1>3 DEF Sender!QueuesOK, JobRecord, Event, Message, OwnRowsOK, Sender!NothingMissing
<1>9. Sender!ModelFollows'
    <2>1. CASE ownRows' = ownRows /\ events' = events
        BY <1>1, <2>1 DEF Sender!ModelFollows
    <2>2. ASSUME NEW update \in Event, update.kind = "messageUpdated", update.before = ownRows',
                 events' = Append(events, update)
          PROVE  Sender!ModelFollows'
        <3>1. /\ DOMAIN events' = 1 .. Len(events) + 1 /\ Len(events) \in Nat
              /\ events'[Len(events) + 1] = update
            BY <1>3, <2>2, AppendedElements
        <3>2. ASSUME NEW k \in DOMAIN events',
                     \A l \in DOMAIN events' : l > k => events'[l].kind # "messageUpdated"
              PROVE  events'[k].before = ownRows'
            <4>1. k = Len(events) + 1
                BY <2>2, <3>1, <3>2
            <4> QED BY <2>2, <3>1, <4>1
        <3>3. Len(events) + 1 \in DOMAIN events' /\ events'[Len(events) + 1].kind = "messageUpdated"
            BY <2>2, <3>1
        <3> QED BY <3>2, <3>3 DEF Sender!ModelFollows
    <2> QED BY <1>4, <2>1, <2>2
<1>10. Sender!ClickFirst'
    BY <1>2 DEF Sender!ClickFirst
<1>11. \A k \in DOMAIN events' : events'[k].kind \notin {"add", "remove"}
    BY <1>1, <1>5 DEF Sender!ContinuedFirst, Sender!OnlyFetches
<1>12. Sender!ContinuedFirst'
    BY <1>11 DEF Sender!ContinuedFirst
\* What is awaited stays so, if the job is not a success.
<1>13. ASSUME job.kind # "sent", NEW kind, NEW emoji, Sender!Awaited(kind, emoji)
       PROVE  Sender!Has(ownRows', emoji, IF kind \in {"add", "addFailed"} THEN Sender!Adding ELSE Sender!Removing)
    BY <1>6, <1>13 DEF Sender!Awaited
<1>14. Sender!SentFirst'
    <2> SUFFICES ASSUME NEW k \in DOMAIN sendings, sendings[k].click \in {"add", "remove"}
                 PROVE  /\ k = 1 /\ Sender!NoneSent'
                        /\ Sender!Has(ownRows', sendings[k].emoji,
                                      IF sendings[k].click \in {"add", "addFailed"} THEN Sender!Adding
                                      ELSE Sender!Removing)
        BY <1>1 DEF Sender!SentFirst, Sender!Awaited
    <2>1. k = 1 /\ Sender!NoneSent /\ Sender!Awaited(sendings[k].click, sendings[k].emoji)
        BY DEF Sender!SentFirst
    <2>2. Sender!NoneSent' /\ job.kind # "sent"
        BY <1>1, <1>2, <2>1 DEF Sender!NoneSent
    <2> QED BY <1>13, <2>1, <2>2
<1>15. Sender!FailedFirst'
    <2> SUFFICES ASSUME NEW k \in DOMAIN jobs', jobs'[k].kind \in {"addFailed", "removeFailed"}
                 PROVE  /\ \A l \in DOMAIN jobs' : jobs'[l].kind = "sent" => k < l
                        /\ Sender!Has(ownRows', jobs'[k].emoji,
                                      IF jobs'[k].kind \in {"add", "addFailed"} THEN Sender!Adding
                                      ELSE Sender!Removing)
        BY DEF Sender!FailedFirst, Sender!Awaited
    <2>1. k + 1 \in DOMAIN jobs /\ jobs[k + 1] = jobs'[k] /\ k \in Nat \ {0}
        BY <1>2
    <2>2. /\ \A l \in DOMAIN jobs : jobs[l].kind = "sent" => k + 1 < l
          /\ Sender!Awaited(jobs'[k].kind, jobs'[k].emoji)
        BY <2>1 DEF Sender!FailedFirst
    <2>3. job.kind # "sent"
        BY <1>1, <2>1, <2>2
    <2>4. \A l \in DOMAIN jobs' : jobs'[l].kind = "sent" => k < l
        BY <1>2, <2>1, <2>2
    <2> QED BY <1>13, <2>2, <2>3, <2>4
<1>16. Sender!WantedIsSent'
    <2>1. \A k \in DOMAIN events' :
              events'[k].kind = "fetch" => Sender!Wanted(events'[k].before) = Sender!Wanted(ownRows')
        BY <1>5, <1>6 DEF Sender!WantedIsSent
    <2>2. \A k \in DOMAIN sendings : sendings[k].emojis = Sender!Wanted(ownRows')
        BY <1>6 DEF Sender!WantedIsSent
    <2> QED BY <1>1, <1>11, <2>1, <2>2 DEF Sender!WantedIsSent
<1>17. Sender!ContactFollows'
    <2> SUFFICES contact = IF Sender!NoneSent' THEN Sender!Reached(ownRows') ELSE Sender!Wanted(ownRows')
        BY <1>1 DEF Sender!ContactFollows
    <2>1. CASE Sender!NoneSent
        <3>1. Sender!NoneSent' /\ job.kind # "sent"
            BY <1>1, <1>2, <2>1 DEF Sender!NoneSent
        <3> QED BY <1>6, <2>1, <3>1 DEF Sender!ContactFollows
    <2>2. CASE ~Sender!NoneSent
        <3>1. contact = Sender!Wanted(ownRows')
            BY <1>6, <2>2 DEF Sender!ContactFollows
        <3>2. CASE job.kind = "sent"
            BY <1>6, <3>1, <3>2
        <3>3. CASE job.kind # "sent"
            <4>1. ~Sender!NoneSent'
                BY <1>1, <1>2a, <2>2, <3>3 DEF Sender!NoneSent
            <4> QED BY <3>1, <4>1
        <3> QED BY <3>2, <3>3
    <2> QED BY <2>1, <2>2
<1> QED BY <1>7, <1>8, <1>9, <1>10, <1>12, <1>14, <1>15, <1>16, <1>17

\* The events after the job of a click: at most the changed rows, and then the click if it has
\* something to send.
LEMMA ClickEvents ==
    ASSUME Sender!RoundInv, Sender!RunChange, Head(jobs).kind \in Sender!ClickJobs
    PROVE  LET job == Head(jobs)
           IN  /\ \A k \in DOMAIN events' : k = 1 \/ k = 2
               /\ \A k \in DOMAIN events' : \/ /\ events'[k].kind = "messageUpdated" /\ events'[k].before = ownRows'
                                               /\ k = 1 /\ ownRows' # ownRows
                                            \/ /\ events'[k] = job /\ job.kind \in {"add", "remove"}
                                               /\ \A l \in DOMAIN events' : l <= k
               /\ ownRows' # ownRows => 1 \in DOMAIN events' /\ events'[1].kind = "messageUpdated"
<1> USE DEF Sender!RoundInv
<1> DEFINE job == Head(jobs)
           update == [kind |-> "messageUpdated", emoji |-> job.emoji, before |-> ownRows']
           updated == IF ownRows' = ownRows THEN events ELSE Append(events, update)
<1>1. /\ jobs \in Seq(JobRecord) /\ jobs # <<>> /\ job = jobs[1] /\ 1 \in DOMAIN jobs /\ OwnRowsOK'
    BY RunChangeFacts
<1>2. events = <<>> /\ events \in Seq(Event) /\ job \in JobRecord
    BY <1>1, QueuesType DEF Sender!ClickFirst
<1>3. events' = Sender!Reported(job, ownRows') /\ ownRows' \subseteq Sender!Reaction
    BY <1>1, ChangedRows DEF OwnRowsOK
<1>4. /\ update \in Event /\ update.kind = "messageUpdated" /\ update.before = ownRows'
      /\ events' = IF job.kind \in {"add", "remove"} THEN Append(updated, job) ELSE updated
    BY <1>2, <1>3, ReportedEvents
<1>5. job.kind \in {"add", "remove"} => job \in Event /\ job.kind # "messageUpdated"
    BY <1>2 DEF JobRecord, Event
<1> HIDE DEF update, job
<1>6. updated = IF ownRows' = ownRows THEN <<>> ELSE <<update>>
    BY <1>2
<1> HIDE DEF updated
<1>7. CASE ownRows' = ownRows
    <2>1. events' = IF job.kind \in {"add", "remove"} THEN <<job>> ELSE <<>>
        BY <1>4, <1>6, <1>7
    <2> QED BY <1>4, <1>5, <1>7, <2>1 DEF job
<1>8. CASE ownRows' # ownRows
    <2>1. events' = IF job.kind \in {"add", "remove"} THEN <<update, job>> ELSE <<update>>
        <3>1. updated = <<update>>
            BY <1>6, <1>8
        <3>2. job.kind \in {"add", "remove"} => Append(<<update>>, job) = <<update, job>>
            BY <1>4, <1>5, AppendedPair
        <3> QED BY <1>4, <3>1, <3>2
    <2> QED BY <1>4, <1>5, <1>8, <2>1 DEF job
<1> QED BY <1>7, <1>8

\* The job of a click keeps RoundInv: what it wants is what its continuation will send.
LEMMA ClickStep ==
    ASSUME Sender!RoundInv, Sender!RunChange, Head(jobs).kind \in Sender!ClickJobs
    PROVE  Sender!RoundInv'
<1> USE DEF Sender!RoundInv
<1> DEFINE job == Head(jobs)
           e == job.emoji
<1>1. /\ jobs \in Seq(JobRecord) /\ jobs # <<>> /\ jobs' = Tail(jobs) /\ job = jobs[1] /\ 1 \in DOMAIN jobs
      /\ e \in Emojis
      /\ UNCHANGED <<model, sendings, connected, contact, clicks, failures, disconnections>>
      /\ OwnRowsOK /\ OwnRowsOK' /\ missing' = FALSE
      /\ jobs' \in Seq(JobRecord) /\ events' \in Seq(Event)
    BY RunChangeFacts
<1>2. \A k \in DOMAIN jobs' : k + 1 \in DOMAIN jobs /\ k \in Nat \ {0} /\ jobs'[k] = jobs[k + 1]
    BY <1>1, RemainingElements
<1>3. events = <<>> /\ sendings = <<>> /\ model = ownRows
    BY <1>1 DEF Sender!ClickFirst, Sender!ModelFollows
<1>4. \A k \in DOMAIN jobs' : jobs'[k].kind = "fetch"
    BY <1>1, <1>2 DEF Sender!ClickFirst
<1>5. Sender!NoneSent /\ Sender!NoneSent'
    <2>1. \A k \in DOMAIN jobs : k # 1 => jobs[k].kind = "fetch"
        BY <1>1, RemainingElements DEF Sender!ClickFirst
    <2> QED BY <1>1, <1>4, <2>1 DEF Sender!NoneSent, Sender!ClickJobs
<1>6. /\ \A k \in DOMAIN events' : k = 1 \/ k = 2
      /\ \A k \in DOMAIN events' : \/ /\ events'[k].kind = "messageUpdated" /\ events'[k].before = ownRows'
                                      /\ k = 1 /\ ownRows' # ownRows
                                   \/ /\ events'[k] = job /\ job.kind \in {"add", "remove"}
                                      /\ \A l \in DOMAIN events' : l <= k
      /\ ownRows' # ownRows => 1 \in DOMAIN events' /\ events'[1].kind = "messageUpdated"
    BY ClickEvents
<1>7. Sender!TypeOK'
    <2>1. \A i \in DOMAIN events' : events'[i] \in Event
        BY <1>1
    <2>2. \A i \in DOMAIN events' : events'[i].before \subseteq Sender!Reaction
        BY <2>1 DEF Event
    <2> QED BY <1>1, <2>2 DEF Sender!TypeOK, OwnRowsOK
<1>8. Sender!QueuesOK' /\ Sender!OneRowPerEmoji' /\ Sender!NothingMissing'
    BY <1>1, <1>3, QueuesType
       DEF Sender!QueuesOK, JobRecord, Event, Message, OwnRowsOK, Sender!NothingMissing
<1>9. Sender!ModelFollows'
    BY <1>1, <1>3, <1>6 DEF Sender!ModelFollows
<1>10. Sender!ClickFirst' /\ Sender!FailedFirst' /\ Sender!SentFirst'
    BY <1>1, <1>3, <1>4 DEF Sender!ClickFirst, Sender!ClickJobs, Sender!FailedFirst, Sender!SentFirst
\* What the job makes of the emojis.
<1>11. /\ Sender!Wanted(ownRows) = {x \in Emojis : BeingAdded(ownRows, x) \/ IsSent(ownRows, x)}
       /\ Sender!Reached(ownRows) = {x \in Emojis : BeingRemoved(ownRows, x) \/ IsSent(ownRows, x)}
       /\ Sender!Wanted(ownRows') = {x \in Emojis : BeingAdded(ownRows', x) \/ IsSent(ownRows', x)}
       /\ Sender!Reached(ownRows') = {x \in Emojis : BeingRemoved(ownRows', x) \/ IsSent(ownRows', x)}
       /\ Sender!Has(ownRows, e, Sender!States)
            <=> BeingAdded(ownRows, e) \/ BeingRemoved(ownRows, e) \/ IsSent(ownRows, e)
    BY <1>1, RowSets, OwnRowsAreRows
<1>12. \A x : x # e => /\ BeingAdded(ownRows', x) <=> BeingAdded(ownRows, x)
                       /\ BeingRemoved(ownRows', x) <=> BeingRemoved(ownRows, x)
                       /\ IsSent(ownRows', x) <=> IsSent(ownRows, x)
    BY JobEffects DEF SameFor, Sender!ClickJobs
<1>13. /\ job.kind = "add" => ~Sender!Has(ownRows, e, Sender!States) /\ job.before = ownRows
       /\ job.kind # "add" => Sender!Has(ownRows, e, Sender!States)
       /\ job.kind = "remove" => ~BeingAdded(ownRows, e)
    BY <1>1 DEF Sender!ClickFirst, BeingAdded
<1>14. /\ job.kind = "add" => BeingAdded(ownRows', e) /\ ~BeingRemoved(ownRows', e) /\ ~IsSent(ownRows', e)
       /\ job.kind = "undoRemoval" =>
             /\ ~BeingRemoved(ownRows', e)
             /\ IsSent(ownRows', e) <=> BeingRemoved(ownRows, e) \/ IsSent(ownRows, e)
       /\ job.kind = "undoAddition" =>
             /\ BeingRemoved(ownRows', e) <=> BeingRemoved(ownRows, e)
             /\ IsSent(ownRows', e) <=> IsSent(ownRows, e)
       /\ job.kind = "remove" => ~BeingAdded(ownRows', e) /\ BeingRemoved(ownRows', e) /\ ~IsSent(ownRows', e)
    BY JobEffects
<1>15. Sender!Reached(ownRows') = Sender!Reached(ownRows)
    <2>1. BeingRemoved(ownRows', e) \/ IsSent(ownRows', e) <=> BeingRemoved(ownRows, e) \/ IsSent(ownRows, e)
        BY <1>11, <1>13, <1>14 DEF Sender!ClickJobs
    <2> HIDE DEF e, job
    <2> QED BY <1>11, <1>12, <2>1
<1>16. Sender!ContactFollows'
    BY <1>1, <1>5, <1>15 DEF Sender!ContactFollows
<1>17. job.kind = "add" => Sender!Wanted(job.before) \cup {e} = Sender!Wanted(ownRows')
    <2> SUFFICES ASSUME job.kind = "add"
                 PROVE  Sender!Wanted(ownRows) \cup {e} = Sender!Wanted(ownRows')
        BY <1>13
    <2>1. BeingAdded(ownRows', e)
        BY <1>14
    <2> HIDE DEF e, job
    <2> QED BY <1>1, <1>11, <1>12, <2>1
<1>18. Sender!WantedIsSent'
    BY <1>1, <1>3, <1>6, <1>17 DEF Sender!WantedIsSent
<1>19. Sender!ContinuedFirst'
    <2>1. \A k \in DOMAIN events' : events'[k].kind \in {"add", "remove"} =>
              /\ events'[k] = job /\ job.kind \in {"add", "remove"} /\ \A l \in DOMAIN events' : l <= k
              /\ k \in {1, 2}
        BY <1>6
    <2>2. \A k \in DOMAIN events' : events'[k].kind \in {"add", "remove"} =>
              \A l \in DOMAIN events' : l > k => events'[l].kind = "fetch"
        BY <1>6, <2>1
    <2>2a. \A k \in DOMAIN events' : events'[k].kind \in {"add", "remove"} =>
              \A l \in DOMAIN events' : l < k => events'[l].kind = "messageUpdated"
        BY <1>6, <2>1
    <2>3. job.kind \in {"add", "remove"} =>
              Sender!Has(ownRows', e, IF job.kind \in {"add", "addFailed"} THEN Sender!Adding ELSE Sender!Removing)
        BY <1>14 DEF BeingAdded, BeingRemoved
    <2> HIDE DEF e
    <2>4. \A k \in DOMAIN events' : events'[k].kind \in {"add", "remove"} =>
              Sender!Has(ownRows', events'[k].emoji,
                         IF events'[k].kind \in {"add", "addFailed"} THEN Sender!Adding ELSE Sender!Removing)
        BY <2>1, <2>3 DEF e
    <2> QED BY <1>1, <1>3, <1>4, <2>2, <2>2a, <2>4 DEF Sender!ContinuedFirst, Sender!OnlyFetches, Sender!Awaited
<1> QED BY <1>7, <1>8, <1>9, <1>10, <1>16, <1>18, <1>19

\* What is fetched for a login are the rows of this moment.
LEMMA FetchStep == ASSUME Sender!RoundInv, Sender!RunFetch PROVE Sender!RoundInv'
<1> USE DEF Sender!RoundInv
<1> DEFINE fetched == [Head(jobs) EXCEPT !.before = ownRows]
<1>1. /\ jobs \in Seq(JobRecord) /\ events \in Seq(Event) /\ sendings \in Seq(Message)
      /\ jobs # <<>> /\ Head(jobs).kind = "fetch" /\ jobs' = Tail(jobs)
      /\ UNCHANGED <<ownRows, model, sendings, connected, contact, missing, clicks, failures, disconnections>>
      /\ events' = events \/ events' = Append(events, fetched)
    BY QueuesType DEF Sender!RunFetch, Sender!counters
<1>2. /\ Head(jobs) \in JobRecord /\ Head(jobs) = jobs[1] /\ 1 \in DOMAIN jobs
      /\ jobs' \in Seq(JobRecord)
      /\ \A k \in DOMAIN jobs' : k + 1 \in DOMAIN jobs /\ k \in Nat \ {0} /\ jobs'[k] = jobs[k + 1]
      /\ \A k \in DOMAIN jobs : k # 1 => k - 1 \in DOMAIN jobs' /\ jobs'[k - 1] = jobs[k] /\ k \in Nat
    BY <1>1, RemainingElements
<1>3. fetched \in Event /\ fetched.kind = "fetch" /\ fetched.before = ownRows
    BY <1>1, <1>2 DEF JobRecord, Event, Sender!TypeOK
<1> HIDE DEF fetched
<1>4. /\ events' \in Seq(Event) /\ DOMAIN events \subseteq DOMAIN events'
      /\ \A k \in DOMAIN events' : k \in Nat
      /\ \A k \in DOMAIN events : events'[k] = events[k]
      /\ \A k \in DOMAIN events' : k \notin DOMAIN events =>
            events'[k].kind = "fetch" /\ events'[k].before = ownRows /\ \A l \in DOMAIN events : l < k
    <2>1. CASE events' = events
        BY <1>1, <2>1
    <2>2. CASE events' = Append(events, fetched)
        <3>1. /\ events' \in Seq(Event)
              /\ DOMAIN events = 1 .. Len(events) /\ Len(events) \in Nat /\ DOMAIN events' = 1 .. Len(events) + 1
              /\ \A k \in DOMAIN events : events'[k] = events[k]
              /\ events'[Len(events) + 1] = fetched
            BY <1>1, <1>3, <2>2, AppendedElements
        <3> QED BY <1>3, <3>1
    <2> QED BY <1>1, <2>1, <2>2
<1>5. Sender!TypeOK'
    <2>1. \A k \in DOMAIN events' : events'[k] \in Event
        BY <1>4
    <2>2. \A k \in DOMAIN events' : events'[k].before \subseteq Sender!Reaction
        BY <2>1 DEF Event
    <2> QED BY <1>1, <2>2 DEF Sender!TypeOK
<1>6. Sender!QueuesOK' /\ Sender!OneRowPerEmoji' /\ Sender!NothingMissing'
    BY <1>1, <1>2, <1>4
       DEF Sender!QueuesOK, JobRecord, Event, Message, Sender!OneRowPerEmoji, Sender!NothingMissing
<1>7. Sender!ModelFollows'
    <2>1. (\A k \in DOMAIN events' : events'[k].kind # "messageUpdated") => model' = ownRows'
        BY <1>1, <1>4 DEF Sender!ModelFollows
    <2>2. ASSUME NEW k \in DOMAIN events', events'[k].kind = "messageUpdated",
                 \A l \in DOMAIN events' : l > k => events'[l].kind # "messageUpdated"
          PROVE  events'[k].before = ownRows'
        BY <1>1, <1>4, <2>2 DEF Sender!ModelFollows
    <2> QED BY <2>1, <2>2 DEF Sender!ModelFollows
<1>8. Sender!ClickFirst'
    BY <1>2 DEF Sender!ClickFirst
<1>9. Sender!ContinuedFirst'
    <2> SUFFICES ASSUME NEW k \in DOMAIN events', events'[k].kind \in {"add", "remove"}
                 PROVE  /\ Sender!OnlyFetches' /\ sendings' = <<>>
                        /\ \A l \in DOMAIN events' : l < k => events'[l].kind = "messageUpdated"
                        /\ \A l \in DOMAIN events' : l > k => events'[l].kind = "fetch"
                        /\ Sender!Has(ownRows', events'[k].emoji,
                                      IF events'[k].kind \in {"add", "addFailed"} THEN Sender!Adding
                                      ELSE Sender!Removing)
        BY DEF Sender!ContinuedFirst, Sender!Awaited
    <2>1. k \in DOMAIN events /\ events'[k] = events[k]
        BY <1>4
    <2>2. /\ Sender!OnlyFetches /\ sendings = <<>>
          /\ \A l \in DOMAIN events : l < k => events[l].kind = "messageUpdated"
          /\ \A l \in DOMAIN events : l > k => events[l].kind = "fetch"
          /\ Sender!Awaited(events[k].kind, events[k].emoji)
        BY <2>1 DEF Sender!ContinuedFirst
    <2>3. Sender!OnlyFetches'
        BY <1>2, <2>2 DEF Sender!OnlyFetches
    <2>4. \A l \in DOMAIN events' : l < k => events'[l].kind = "messageUpdated"
        <3>1. \A l \in DOMAIN events' : l \notin DOMAIN events => k < l /\ l \in Nat /\ k \in Nat
            BY <1>4, <2>1
        <3> QED BY <1>4, <2>2, <3>1
    <2>5. \A l \in DOMAIN events' : l > k => events'[l].kind = "fetch"
        BY <1>4, <2>2
    <2> QED BY <1>1, <2>1, <2>2, <2>3, <2>4, <2>5 DEF Sender!Awaited
<1>10. Sender!NoneSent' <=> Sender!NoneSent
    BY <1>1, <1>2 DEF Sender!NoneSent
<1>11. Sender!SentFirst'
    BY <1>1, <1>10 DEF Sender!SentFirst, Sender!Awaited
<1>12. Sender!FailedFirst'
    BY <1>1, <1>2 DEF Sender!FailedFirst, Sender!Awaited
<1>13. Sender!WantedIsSent'
    BY <1>1, <1>4 DEF Sender!WantedIsSent
<1>14. Sender!ContactFollows'
    BY <1>1, <1>10 DEF Sender!ContactFollows
<1> QED BY <1>5, <1>6, <1>7, <1>8, <1>9, <1>11, <1>12, <1>13, <1>14

\* What the handling of an event leaves alone.
LEMMA HandledFacts ==
    ASSUME Sender!RoundInv, NEW kind, Sender!Handled(kind)
    PROVE  /\ jobs \in Seq(JobRecord) /\ events \in Seq(Event) /\ sendings \in Seq(Message)
           /\ Head(events) \in Event /\ Head(events) = events[1] /\ 1 \in DOMAIN events /\ events[1].kind = kind
           /\ events' \in Seq(Event)
           /\ \A k \in DOMAIN events' : k + 1 \in DOMAIN events /\ k \in Nat \ {0} /\ events'[k] = events[k + 1]
           /\ \A k \in DOMAIN events : k # 1 => k - 1 \in DOMAIN events' /\ events'[k - 1] = events[k] /\ k \in Nat
           /\ UNCHANGED <<ownRows, jobs, connected, contact, missing, clicks, failures, disconnections>>
           /\ \A k \in DOMAIN jobs : jobs[k].kind \notin Sender!ClickJobs
           /\ Sender!NoneSent' <=> Sender!NoneSent
<1> USE DEF Sender!RoundInv
<1>1. /\ jobs \in Seq(JobRecord) /\ events \in Seq(Event) /\ sendings \in Seq(Message)
      /\ events # <<>> /\ Head(events).kind = kind /\ events' = Tail(events)
      /\ UNCHANGED <<ownRows, jobs, connected, contact, missing, clicks, failures, disconnections>>
    BY QueuesType DEF Sender!Handled, Sender!counters
<1>2. Head(events) \in Event /\ Head(events) = events[1] /\ 1 \in DOMAIN events /\ events[1].kind = kind
    BY <1>1
<1>3. /\ events' \in Seq(Event)
      /\ \A k \in DOMAIN events' : k + 1 \in DOMAIN events /\ k \in Nat \ {0} /\ events'[k] = events[k + 1]
      /\ \A k \in DOMAIN events : k # 1 => k - 1 \in DOMAIN events' /\ events'[k - 1] = events[k] /\ k \in Nat
    BY <1>1, RemainingElements
<1>4. \A k \in DOMAIN jobs : jobs[k].kind \notin Sender!ClickJobs
    BY <1>1 DEF Sender!ClickFirst
<1>5. Sender!NoneSent' <=> Sender!NoneSent
    BY <1>1 DEF Sender!NoneSent
<1> QED BY <1>1, <1>2, <1>3, <1>4, <1>5

\* The parts of RoundInv that depend on neither the model nor the sendings.
LEMMA HandledKeeps ==
    ASSUME Sender!RoundInv, NEW kind, Sender!Handled(kind),
           sendings' \in Seq(Message), model' \subseteq Sender!Reaction
    PROVE  /\ Sender!TypeOK' /\ Sender!QueuesOK' /\ Sender!OneRowPerEmoji' /\ Sender!NothingMissing'
           /\ Sender!ClickFirst' /\ Sender!FailedFirst' /\ Sender!ContactFollows'
<1> USE DEF Sender!RoundInv
<1>1. /\ jobs \in Seq(JobRecord) /\ events' \in Seq(Event)
      /\ UNCHANGED <<ownRows, jobs, connected, contact, missing, clicks, failures, disconnections>>
      /\ \A k \in DOMAIN jobs : jobs[k].kind \notin Sender!ClickJobs
      /\ Sender!NoneSent' <=> Sender!NoneSent
    BY HandledFacts
<1>2. Sender!TypeOK'
    <2>1. \A k \in DOMAIN events' : events'[k] \in Event
        BY <1>1
    <2>2. \A k \in DOMAIN sendings' : sendings'[k] \in Message
        OBVIOUS
    <2>3. /\ \A k \in DOMAIN events' : events'[k].before \subseteq Sender!Reaction
          /\ \A k \in DOMAIN sendings' : sendings'[k].emojis \subseteq Emojis
        BY <2>1, <2>2 DEF Event, Message
    <2> QED BY <1>1, <2>3 DEF Sender!TypeOK
<1>3. Sender!QueuesOK' /\ Sender!OneRowPerEmoji' /\ Sender!NothingMissing'
    BY <1>1 DEF Sender!QueuesOK, JobRecord, Event, Message, Sender!OneRowPerEmoji, Sender!NothingMissing
<1>4. Sender!ClickFirst' /\ Sender!FailedFirst'
    BY <1>1 DEF Sender!ClickFirst, Sender!FailedFirst, Sender!Awaited
<1>5. Sender!ContactFollows'
    BY <1>1 DEF Sender!ContactFollows
<1> QED BY <1>2, <1>3, <1>4, <1>5

LEMMA MessageUpdatedStep == ASSUME Sender!RoundInv, Sender!MessageUpdated PROVE Sender!RoundInv'
<1> USE DEF Sender!RoundInv
<1>1. Sender!Handled("messageUpdated") /\ model' = Head(events).before /\ UNCHANGED sendings
    BY DEF Sender!MessageUpdated
<1>2. /\ sendings \in Seq(Message)
      /\ Head(events) \in Event /\ Head(events) = events[1] /\ 1 \in DOMAIN events
      /\ events[1].kind = "messageUpdated"
      /\ \A k \in DOMAIN events' : k + 1 \in DOMAIN events /\ k \in Nat \ {0} /\ events'[k] = events[k + 1]
      /\ \A k \in DOMAIN events : k # 1 => k - 1 \in DOMAIN events' /\ events'[k - 1] = events[k] /\ k \in Nat
      /\ UNCHANGED <<ownRows, jobs, connected, contact, missing, clicks, failures, disconnections>>
      /\ Sender!NoneSent' <=> Sender!NoneSent
    BY <1>1, HandledFacts
<1>3. /\ Sender!TypeOK' /\ Sender!QueuesOK' /\ Sender!OneRowPerEmoji' /\ Sender!NothingMissing'
      /\ Sender!ClickFirst' /\ Sender!FailedFirst' /\ Sender!ContactFollows'
    BY <1>1, <1>2, HandledKeeps DEF Event
<1>4. Sender!ModelFollows'
    <2>1. ASSUME \A k \in DOMAIN events' : events'[k].kind # "messageUpdated"
          PROVE  model' = ownRows'
        <3>1. \A l \in DOMAIN events : l > 1 => events[l].kind # "messageUpdated"
            BY <1>2, <2>1
        <3> QED BY <1>1, <1>2, <3>1 DEF Sender!ModelFollows
    <2>2. ASSUME NEW k \in DOMAIN events', events'[k].kind = "messageUpdated",
                 \A l \in DOMAIN events' : l > k => events'[l].kind # "messageUpdated"
          PROVE  events'[k].before = ownRows'
        <3>1. \A l \in DOMAIN events : l > k + 1 => events[l].kind # "messageUpdated"
            <4> SUFFICES ASSUME NEW l \in DOMAIN events, l > k + 1 PROVE events[l].kind # "messageUpdated"
                OBVIOUS
            <4>1. l \in Nat /\ k \in Nat \ {0}
                BY <1>2
            <4>2. l - 1 \in DOMAIN events' /\ events'[l - 1] = events[l] /\ l - 1 > k
                BY <1>2, <4>1
            <4> QED BY <2>2, <4>2
        <3> QED BY <1>2, <2>2, <3>1 DEF Sender!ModelFollows
    <2> QED BY <2>1, <2>2 DEF Sender!ModelFollows
<1>5. Sender!ContinuedFirst'
    <2> SUFFICES ASSUME NEW k \in DOMAIN events', events'[k].kind \in {"add", "remove"}
                 PROVE  /\ Sender!OnlyFetches' /\ sendings' = <<>>
                        /\ \A l \in DOMAIN events' : l < k => events'[l].kind = "messageUpdated"
                        /\ \A l \in DOMAIN events' : l > k => events'[l].kind = "fetch"
                        /\ Sender!Has(ownRows', events'[k].emoji,
                                      IF events'[k].kind \in {"add", "addFailed"} THEN Sender!Adding
                                      ELSE Sender!Removing)
        BY DEF Sender!ContinuedFirst, Sender!Awaited
    <2>1. k + 1 \in DOMAIN events /\ events'[k] = events[k + 1] /\ k \in Nat
        BY <1>2
    <2>2. /\ Sender!OnlyFetches /\ sendings = <<>>
          /\ \A l \in DOMAIN events : l < k + 1 => events[l].kind = "messageUpdated"
          /\ \A l \in DOMAIN events : l > k + 1 => events[l].kind = "fetch"
          /\ Sender!Awaited(events[k + 1].kind, events[k + 1].emoji)
        BY <2>1 DEF Sender!ContinuedFirst
    <2> QED BY <1>1, <1>2, <2>1, <2>2 DEF Sender!OnlyFetches, Sender!Awaited
<1>6. Sender!SentFirst'
    BY <1>1, <1>2 DEF Sender!SentFirst, Sender!Awaited
<1>7. Sender!WantedIsSent'
    BY <1>1, <1>2 DEF Sender!WantedIsSent
<1> QED BY <1>3, <1>4, <1>5, <1>6, <1>7

\* The continuation of a click sends what the rows want.
LEMMA ContinuationStep == ASSUME Sender!RoundInv, Sender!Added \/ Sender!Removed PROVE Sender!RoundInv'
<1> USE DEF Sender!RoundInv
<1> DEFINE event == Head(events)
           emojis == IF event.kind = "add" THEN Sender!Wanted(event.before) \cup {event.emoji}
                     ELSE Sender!Wanted(model)
           message == [emojis |-> emojis, click |-> event.kind, emoji |-> event.emoji]
<1>1. /\ event.kind \in {"add", "remove"} /\ Sender!Handled(event.kind) /\ UNCHANGED model
      /\ sendings' = sendings \/ sendings' = Append(sendings, message)
    BY DEF Sender!Added, Sender!Removed, Sender!Handled, Sender!Send
<1>2. /\ sendings \in Seq(Message) /\ jobs \in Seq(JobRecord)
      /\ event \in Event /\ event = events[1] /\ 1 \in DOMAIN events
      /\ \A k \in DOMAIN events' : k + 1 \in DOMAIN events /\ k \in Nat \ {0} /\ events'[k] = events[k + 1]
      /\ \A k \in DOMAIN events : k # 1 => k - 1 \in DOMAIN events' /\ events'[k - 1] = events[k] /\ k \in Nat
      /\ UNCHANGED <<ownRows, jobs, connected, contact, missing, clicks, failures, disconnections>>
      /\ Sender!NoneSent' <=> Sender!NoneSent
    BY <1>1, HandledFacts
<1>3. /\ Sender!OnlyFetches /\ sendings = <<>>
      /\ \A l \in DOMAIN events : l > 1 => events[l].kind = "fetch"
      /\ Sender!Awaited(event.kind, event.emoji)
    BY <1>1, <1>2 DEF Sender!ContinuedFirst
<1>4. \A k \in DOMAIN events' : events'[k].kind = "fetch"
    BY <1>2, <1>3
\* Nothing updates the model anymore.
<1>5. model = ownRows
    <2>1. \A k \in DOMAIN events : events[k].kind # "messageUpdated"
        <3> SUFFICES ASSUME NEW k \in DOMAIN events PROVE events[k].kind # "messageUpdated"
            OBVIOUS
        <3>1. k = 1 \/ k > 1
            BY DEF Sender!QueuesOK
        <3> QED BY <1>1, <1>2, <1>3, <3>1
    <2> QED BY <2>1 DEF Sender!ModelFollows
<1>6. emojis = Sender!Wanted(ownRows)
    BY <1>1, <1>2, <1>5 DEF Sender!WantedIsSent
<1>7. emojis \subseteq Emojis
    BY <1>6, RowSets, OwnRowsAreRows DEF OwnRowsOK, Sender!TypeOK
<1> HIDE DEF emojis
<1>8. message \in Message /\ message.emojis = Sender!Wanted(ownRows)
      /\ message.click = event.kind /\ message.emoji = event.emoji
    BY <1>1, <1>2, <1>6, <1>7 DEF Message, Event
<1> HIDE DEF message
<1>9. /\ sendings' \in Seq(Message)
      /\ \A k \in DOMAIN sendings' : k = 1 /\ sendings'[k] = message
    <2>1. sendings' = <<>> \/ sendings' = <<message>>
        BY <1>1, <1>3
    <2>2. CASE sendings' = <<>>
        BY <2>2
    <2>3. CASE sendings' = <<message>>
        BY <1>8, <2>3
    <2> QED BY <2>1, <2>2, <2>3
<1>10. /\ Sender!TypeOK' /\ Sender!QueuesOK' /\ Sender!OneRowPerEmoji' /\ Sender!NothingMissing'
       /\ Sender!ClickFirst' /\ Sender!FailedFirst' /\ Sender!ContactFollows'
    BY <1>1, <1>9, HandledKeeps DEF Sender!TypeOK
<1>11. Sender!ModelFollows'
    BY <1>1, <1>2, <1>4, <1>5 DEF Sender!ModelFollows
<1>12. Sender!ContinuedFirst'
    BY <1>4 DEF Sender!ContinuedFirst
<1>13. Sender!NoneSent
    BY <1>3 DEF Sender!OnlyFetches, Sender!NoneSent
<1>14. Sender!SentFirst'
    BY <1>2, <1>3, <1>8, <1>9, <1>13 DEF Sender!SentFirst, Sender!Awaited
<1>15. Sender!WantedIsSent'
    <2>1. \A k \in DOMAIN events' : Sender!Wanted(events'[k].before) = Sender!Wanted(ownRows)
        BY <1>2, <1>4 DEF Sender!WantedIsSent
    <2> QED BY <1>2, <1>4, <1>8, <1>9, <2>1 DEF Sender!WantedIsSent
<1> QED BY <1>10, <1>11, <1>12, <1>14, <1>15

LEMMA SendPendingStep == ASSUME Sender!RoundInv, Sender!SendPending PROVE Sender!RoundInv'
<1> USE DEF Sender!RoundInv
<1> DEFINE event == Head(events)
           message == [emojis |-> Sender!Wanted(event.before), click |-> "all", emoji |-> event.emoji]
<1>1. Sender!Handled("fetch") /\ UNCHANGED model /\ sendings' = Append(sendings, message)
    BY DEF Sender!SendPending, Sender!Send
<1>2. /\ sendings \in Seq(Message) /\ jobs \in Seq(JobRecord) /\ events \in Seq(Event)
      /\ event \in Event /\ event = events[1] /\ 1 \in DOMAIN events /\ events[1].kind = "fetch"
      /\ \A k \in DOMAIN events' : k + 1 \in DOMAIN events /\ k \in Nat \ {0} /\ events'[k] = events[k + 1]
      /\ \A k \in DOMAIN events : k # 1 => k - 1 \in DOMAIN events' /\ events'[k - 1] = events[k] /\ k \in Nat
      /\ UNCHANGED <<ownRows, jobs, connected, contact, missing, clicks, failures, disconnections>>
      /\ Sender!NoneSent' <=> Sender!NoneSent
    BY <1>1, HandledFacts
<1>3. message.emojis = Sender!Wanted(ownRows) /\ message.click = "all" /\ message.emoji = event.emoji
    BY <1>2 DEF Sender!WantedIsSent
<1>4. Sender!Wanted(ownRows) \subseteq Emojis
    BY RowSets, OwnRowsAreRows DEF OwnRowsOK, Sender!TypeOK
<1>5. message \in Message
    BY <1>2, <1>3, <1>4 DEF Message, Event
<1> HIDE DEF message
<1>6. /\ sendings' \in Seq(Message)
      /\ \A k \in DOMAIN sendings' : (k \in DOMAIN sendings /\ sendings'[k] = sendings[k]) \/ sendings'[k] = message
    BY <1>1, <1>2, <1>5, AppendedElements
<1>7. /\ Sender!TypeOK' /\ Sender!QueuesOK' /\ Sender!OneRowPerEmoji' /\ Sender!NothingMissing'
      /\ Sender!ClickFirst' /\ Sender!FailedFirst' /\ Sender!ContactFollows'
    BY <1>1, <1>6, HandledKeeps DEF Sender!TypeOK
<1>8. Sender!ModelFollows'
    <2>1. (\A k \in DOMAIN events' : events'[k].kind # "messageUpdated") => model' = ownRows'
        <3> SUFFICES ASSUME \A k \in DOMAIN events' : events'[k].kind # "messageUpdated" PROVE model' = ownRows'
            OBVIOUS
        <3>1. \A k \in DOMAIN events : events[k].kind # "messageUpdated"
            BY <1>2
        <3> QED BY <1>1, <1>2, <3>1 DEF Sender!ModelFollows
    <2>2. ASSUME NEW k \in DOMAIN events', events'[k].kind = "messageUpdated",
                 \A l \in DOMAIN events' : l > k => events'[l].kind # "messageUpdated"
          PROVE  events'[k].before = ownRows'
        <3>1. \A l \in DOMAIN events : l > k + 1 => events[l].kind # "messageUpdated"
            <4> SUFFICES ASSUME NEW l \in DOMAIN events, l > k + 1 PROVE events[l].kind # "messageUpdated"
                OBVIOUS
            <4>1. l \in Nat /\ k \in Nat \ {0}
                BY <1>2
            <4>2. l - 1 \in DOMAIN events' /\ events'[l - 1] = events[l] /\ l - 1 > k
                BY <1>2, <4>1
            <4> QED BY <2>2, <4>2
        <3> QED BY <1>2, <2>2, <3>1 DEF Sender!ModelFollows
    <2> QED BY <2>1, <2>2 DEF Sender!ModelFollows
\* A click's continuation does not wait behind a login's.
<1>9. Sender!ContinuedFirst'
    <2>1. ASSUME NEW k \in DOMAIN events', events'[k].kind \in {"add", "remove"} PROVE FALSE
        <3>1. k + 1 \in DOMAIN events /\ events[k + 1].kind \in {"add", "remove"} /\ 1 < k + 1
            BY <1>2, <2>1
        <3> QED BY <1>2, <3>1 DEF Sender!ContinuedFirst
    <2> QED BY <2>1 DEF Sender!ContinuedFirst
<1>10. Sender!SentFirst'
    BY <1>2, <1>3, <1>6 DEF Sender!SentFirst, Sender!Awaited
<1>11. Sender!WantedIsSent'
    BY <1>2, <1>3, <1>6 DEF Sender!WantedIsSent
<1> QED BY <1>7, <1>8, <1>9, <1>10, <1>11

-----------------------------------------------------------------------------
(* The connection.                                                         *)

LEMMA ConnectStep == ASSUME Sender!RoundInv, Sender!Connect PROVE Sender!RoundInv'
<1> USE DEF Sender!RoundInv
<1>1. PICK e \in Emojis : jobs' = Append(jobs, [kind |-> "fetch", emoji |-> e, before |-> model])
    BY DEF Sender!Connect, Sender!Job
<1> DEFINE job == [kind |-> "fetch", emoji |-> e, before |-> model]
<1>2. /\ connected' = TRUE
      /\ UNCHANGED <<ownRows, model, events, sendings, contact, missing, clicks, failures, disconnections>>
    BY DEF Sender!Connect, Sender!counters
<1>3. job \in JobRecord /\ job.kind = "fetch"
    BY DEF JobRecord, Sender!JobKinds, Sender!TypeOK
<1>4. jobs' = Append(jobs, job) /\ jobs \in Seq(JobRecord)
    BY <1>1, QueuesType
<1> HIDE DEF job
<1>5. /\ jobs' \in Seq(JobRecord) /\ DOMAIN jobs \subseteq DOMAIN jobs'
      /\ \A k \in DOMAIN jobs : jobs'[k] = jobs[k]
      /\ \A k \in DOMAIN jobs' : k \notin DOMAIN jobs => jobs'[k].kind = "fetch"
    BY <1>3, <1>4, AppendedElements
<1>6. Sender!TypeOK' /\ Sender!QueuesOK' /\ Sender!OneRowPerEmoji' /\ Sender!NothingMissing'
    BY <1>2, <1>5
       DEF Sender!TypeOK, Sender!QueuesOK, JobRecord, Sender!OneRowPerEmoji, Sender!NothingMissing
<1>7. Sender!ModelFollows' /\ Sender!WantedIsSent'
    BY <1>2 DEF Sender!ModelFollows, Sender!WantedIsSent
<1>8. Sender!ClickFirst'
    <2> SUFFICES ASSUME NEW k \in DOMAIN jobs', jobs'[k].kind \in Sender!ClickJobs
                 PROVE  /\ k = 1 /\ events' = <<>> /\ sendings' = <<>>
                        /\ \A l \in DOMAIN jobs' : l > 1 => jobs'[l].kind = "fetch"
                        /\ jobs'[k].kind = "add" =>
                              ~Sender!Has(ownRows', jobs'[k].emoji, Sender!States) /\ jobs'[k].before = ownRows'
                        /\ jobs'[k].kind # "add" => Sender!Has(ownRows', jobs'[k].emoji, Sender!States)
                        /\ jobs'[k].kind = "remove" => ~Sender!Has(ownRows', jobs'[k].emoji, Sender!Adding)
        BY DEF Sender!ClickFirst
    <2>1. k \in DOMAIN jobs /\ jobs'[k] = jobs[k]
        BY <1>5 DEF Sender!ClickJobs
    <2> QED BY <1>2, <1>5, <2>1 DEF Sender!ClickFirst
<1>9. /\ Sender!OnlyFetches => Sender!OnlyFetches'
      /\ Sender!NoneSent' <=> Sender!NoneSent
    BY <1>5 DEF Sender!OnlyFetches, Sender!NoneSent
<1>10. Sender!ContinuedFirst' /\ Sender!SentFirst'
    BY <1>2, <1>9 DEF Sender!ContinuedFirst, Sender!SentFirst, Sender!Awaited
<1>11. Sender!FailedFirst'
    BY <1>2, <1>5 DEF Sender!FailedFirst, Sender!Awaited
<1>12. Sender!ContactFollows'
    BY <1>2, <1>9 DEF Sender!ContactFollows
<1> QED BY <1>6, <1>7, <1>8, <1>10, <1>11, <1>12

\* The result of the oldest sending becomes a job.
LEMMA AnswerStep == ASSUME Sender!RoundInv, Sender!SendingSucceeded \/ Sender!SendingFailed PROVE Sender!RoundInv'
<1> USE DEF Sender!RoundInv
<1> DEFINE s == Head(sendings)
           kind == IF Sender!SendingSucceeded THEN "sent"
                   ELSE IF s.click = "add" THEN "addFailed"
                   ELSE IF s.click = "remove" THEN "removeFailed" ELSE "failed"
           job == [kind |-> kind, emoji |-> s.emoji, before |-> model]
<1>1. /\ jobs \in Seq(JobRecord) /\ events \in Seq(Event) /\ sendings \in Seq(Message) /\ sendings # <<>>
      /\ sendings' = Tail(sendings)
      /\ UNCHANGED <<ownRows, model, events, connected, missing, clicks, disconnections>>
    BY QueuesType DEF Sender!SendingSucceeded, Sender!SendingFailed, Sender!counters
<1>2. /\ s \in Message /\ s = sendings[1] /\ 1 \in DOMAIN sendings
      /\ sendings' \in Seq(Message)
      /\ \A k \in DOMAIN sendings' : k + 1 \in DOMAIN sendings /\ k \in Nat \ {0} /\ sendings'[k] = sendings[k + 1]
    BY <1>1, RemainingElements
<1>3. jobs' = Append(jobs, job)
    <2>1. CASE Sender!SendingSucceeded
        BY <2>1 DEF Sender!SendingSucceeded, Sender!Job
    <2>2. CASE ~Sender!SendingSucceeded
        <3>1. jobs' = Append(jobs, Sender!FailedJob(s))
            BY <2>2 DEF Sender!SendingFailed
        <3>2. Sender!FailedJob(s) = job
            BY <2>2 DEF Sender!FailedJob, Sender!Job
        <3> QED BY <3>1, <3>2
    <2> QED BY <2>1, <2>2
<1>4. /\ contact' = IF Sender!SendingSucceeded THEN s.emojis ELSE contact
      /\ failures' \in 0..MaxFailures
    <2>1. CASE Sender!SendingSucceeded
        BY <2>1 DEF Sender!SendingSucceeded, Sender!counters, Sender!TypeOK
    <2>2. CASE ~Sender!SendingSucceeded
        BY <2>2, SenderConstantsAssumption DEF Sender!SendingFailed, Sender!TypeOK, SenderConstantsAssumption
    <2> QED BY <2>1, <2>2
<1>5. /\ kind = "sent" <=> Sender!SendingSucceeded
      /\ kind \in {"sent", "addFailed", "removeFailed", "failed"}
      /\ kind = "addFailed" => s.click = "add"
      /\ kind = "removeFailed" => s.click = "remove"
    OBVIOUS
<1> HIDE DEF kind
<1>6. job \in JobRecord /\ job.kind = kind /\ job.emoji = s.emoji
    BY <1>2, <1>5 DEF JobRecord, Message, Sender!JobKinds, Sender!TypeOK
<1> HIDE DEF job
<1>7. /\ jobs' \in Seq(JobRecord) /\ DOMAIN jobs \subseteq DOMAIN jobs' /\ DOMAIN jobs' \subseteq Nat
      /\ \A k \in DOMAIN jobs : jobs'[k] = jobs[k]
      /\ \A k \in DOMAIN jobs' : k \notin DOMAIN jobs => jobs'[k] = job /\ \A l \in DOMAIN jobs : l < k
      /\ \E k \in DOMAIN jobs' : jobs'[k] = job
    <2>1. /\ jobs' \in Seq(JobRecord) /\ DOMAIN jobs = 1 .. Len(jobs) /\ Len(jobs) \in Nat
          /\ DOMAIN jobs' = 1 .. Len(jobs) + 1 /\ jobs'[Len(jobs) + 1] = job
          /\ \A k \in DOMAIN jobs : jobs'[k] = jobs[k]
        BY <1>1, <1>3, <1>6, AppendedElements
    <2> QED BY <2>1
\* While something is sent, no click waits.
<1>8. /\ \A k \in DOMAIN jobs : jobs[k].kind \notin Sender!ClickJobs
      /\ \A k \in DOMAIN events : events[k].kind \notin {"add", "remove"}
    BY <1>1 DEF Sender!ClickFirst, Sender!ContinuedFirst
<1>9. s.emojis = Sender!Wanted(ownRows)
    BY <1>2 DEF Sender!WantedIsSent
<1>10. Sender!TypeOK'
    <2>1. \A k \in DOMAIN sendings' : sendings'[k] \in Message
        BY <1>2
    <2>2. \A k \in DOMAIN sendings' : sendings'[k].emojis \subseteq Emojis
        BY <2>1 DEF Message
    <2>3. contact' \subseteq Emojis
        BY <1>2, <1>4 DEF Message, Sender!TypeOK
    <2> QED BY <1>1, <1>4, <2>2, <2>3 DEF Sender!TypeOK
<1>11. Sender!QueuesOK' /\ Sender!OneRowPerEmoji' /\ Sender!NothingMissing'
    BY <1>1, <1>2, <1>7
       DEF Sender!QueuesOK, JobRecord, Message, Sender!OneRowPerEmoji, Sender!NothingMissing
<1>12. Sender!ModelFollows'
    BY <1>1 DEF Sender!ModelFollows
<1>13. Sender!ClickFirst'
    <2>1. kind \notin Sender!ClickJobs
        BY <1>5 DEF Sender!ClickJobs
    <2> QED BY <1>6, <1>7, <1>8, <2>1 DEF Sender!ClickFirst
<1>14. Sender!ContinuedFirst'
    BY <1>1, <1>8 DEF Sender!ContinuedFirst
<1>15. Sender!SentFirst'
    <2>1. \A k \in DOMAIN sendings' : sendings'[k].click \notin {"add", "remove"}
        BY <1>2 DEF Sender!SentFirst
    <2> QED BY <2>1 DEF Sender!SentFirst
<1>16. Sender!FailedFirst'
    <2> SUFFICES ASSUME NEW k \in DOMAIN jobs', jobs'[k].kind \in {"addFailed", "removeFailed"}
                 PROVE  /\ \A l \in DOMAIN jobs' : jobs'[l].kind = "sent" => k < l
                        /\ Sender!Has(ownRows', jobs'[k].emoji,
                                      IF jobs'[k].kind \in {"add", "addFailed"} THEN Sender!Adding
                                      ELSE Sender!Removing)
        BY DEF Sender!FailedFirst, Sender!Awaited
    <2>1. CASE k \in DOMAIN jobs
        BY <1>1, <1>7, <2>1 DEF Sender!FailedFirst, Sender!Awaited
    <2>2. CASE k \notin DOMAIN jobs
        <3>1. jobs'[k] = job /\ kind \in {"addFailed", "removeFailed"}
            BY <1>6, <1>7, <2>2
        <3>2. Sender!NoneSent /\ Sender!Awaited(s.click, s.emoji)
            BY <1>2, <1>5, <3>1 DEF Sender!SentFirst
        <3>3. \A l \in DOMAIN jobs' : jobs'[l].kind # "sent"
            BY <1>6, <1>7, <3>1, <3>2 DEF Sender!NoneSent
        <3> QED BY <1>1, <1>5, <1>6, <3>1, <3>2, <3>3 DEF Sender!Awaited
    <2> QED BY <2>1, <2>2
<1>17. Sender!WantedIsSent'
    BY <1>1, <1>2 DEF Sender!WantedIsSent
<1>18. Sender!ContactFollows'
    <2>1. CASE kind = "sent"
        <3>1. ~Sender!NoneSent'
            BY <1>6, <1>7, <2>1 DEF Sender!NoneSent
        <3> QED BY <1>1, <1>4, <1>5, <1>9, <2>1, <3>1 DEF Sender!ContactFollows
    <2>2. CASE kind # "sent"
        <3>1. Sender!NoneSent' <=> Sender!NoneSent
            BY <1>6, <1>7, <2>2 DEF Sender!NoneSent
        <3> QED BY <1>1, <1>4, <1>5, <2>2, <3>1 DEF Sender!ContactFollows
    <2> QED BY <2>1, <2>2
<1> QED BY <1>10, <1>11, <1>12, <1>13, <1>14, <1>15, <1>16, <1>17, <1>18

-----------------------------------------------------------------------------
(* The clicks of a user who waits.                                         *)

\* A click starts a round: nothing is under way, so the model has the rows.
LEMMA ClickedStep ==
    ASSUME Waits, Sender!RoundInv, NEW e \in Emojis,
           \/ Sender!AddMessageReaction(e)
           \/ Sender!RemoveMessageReaction(e)
           \/ Sender!ResendMessageReactions(e)
    PROVE  Sender!RoundInv'
<1> USE DEF Sender!RoundInv
<1>1. /\ jobs = <<>> /\ events = <<>> /\ sendings = <<>>
      /\ clicks < MaxClicks /\ clicks' = clicks + 1
      /\ UNCHANGED <<ownRows, model, events, connected, contact, missing, failures, disconnections>>
    BY DEF Sender!AddMessageReaction, Sender!RemoveMessageReaction, Sender!ResendMessageReactions, Sender!Clicked,
           Sender!Idle
<1>2. model = ownRows
    BY <1>1 DEF Sender!ModelFollows
<1> DEFINE job(kind) == [kind |-> kind, emoji |-> e, before |-> model]
           message == [emojis |-> Sender!Wanted(model), click |-> "resend", emoji |-> e]
<1>3. PICK kind \in {"add", "undoRemoval", "undoAddition", "remove", "resend"} :
          /\ jobs' = Append(jobs, job(kind))
          /\ kind = "add" => ~Sender!Has(model, e, Sender!States)
          /\ kind \in {"undoRemoval", "undoAddition", "remove"} => Sender!Has(model, e, Sender!States)
          /\ kind = "remove" => ~Sender!Has(model, e, Sender!Adding)
          /\ \/ sendings' = sendings
             \/ kind = "resend" /\ sendings' = Append(sendings, message)
    <2>1. CASE Sender!AddMessageReaction(e)
        BY <2>1 DEF Sender!AddMessageReaction, Sender!Job
    <2>2. CASE Sender!RemoveMessageReaction(e)
        <3>1. Sender!Has(model, e, Sender!States)
            BY <2>2 DEF Sender!RemoveMessageReaction, Sender!Has
        <3> QED BY <2>2, <3>1 DEF Sender!RemoveMessageReaction, Sender!Job
    <2>3. CASE Sender!ResendMessageReactions(e)
        BY <2>3 DEF Sender!ResendMessageReactions, Sender!Job, Sender!Send
    <2> QED BY <2>1, <2>2, <2>3
<1>4. job(kind) \in JobRecord /\ job(kind).kind = kind /\ job(kind).emoji = e /\ job(kind).before = ownRows
    BY <1>2 DEF JobRecord, Sender!JobKinds, Sender!TypeOK
<1>5. Sender!Wanted(ownRows) \subseteq Emojis
    BY RowSets, OwnRowsAreRows DEF OwnRowsOK, Sender!TypeOK
<1>6. /\ message \in Message /\ message.emojis = Sender!Wanted(ownRows) /\ message.click = "resend"
    BY <1>2, <1>5 DEF Message
<1>7. /\ jobs' = Append(<<>>, job(kind))
      /\ sendings' = <<>> \/ (kind = "resend" /\ sendings' = Append(<<>>, message))
    <2>1. sendings' = sendings \/ (kind = "resend" /\ sendings' = Append(sendings, message))
        BY <1>3
    <2> HIDE DEF job, message
    <2> QED BY <1>1, <1>3, <2>1
<1> HIDE DEF job, message
<1>8. jobs' \in Seq(JobRecord) /\ DOMAIN jobs' = {1} /\ jobs'[1] = job(kind)
    BY <1>4, <1>7
<1>9. /\ sendings' \in Seq(Message)
      /\ \A k \in DOMAIN sendings' : sendings'[k] = message
      /\ kind # "resend" => sendings' = <<>>
    <2>1. CASE sendings' = <<>>
        BY <2>1
    <2>2. CASE kind = "resend" /\ sendings' = Append(<<>>, message)
        BY <1>6, <2>2
    <2> QED BY <1>7, <2>1, <2>2
<1>10. Sender!TypeOK'
    <2>1. clicks' \in 0..MaxClicks
        BY <1>1, SenderConstantsAssumption DEF Sender!TypeOK, SenderConstantsAssumption
    <2>2. \A k \in DOMAIN sendings' : sendings'[k].emojis \subseteq Emojis
        BY <1>5, <1>6, <1>9
    <2> QED BY <1>1, <2>1, <2>2 DEF Sender!TypeOK
<1>11. Sender!QueuesOK' /\ Sender!OneRowPerEmoji' /\ Sender!NothingMissing'
    BY <1>1, <1>8, <1>9
       DEF Sender!QueuesOK, JobRecord, Message, Sender!OneRowPerEmoji, Sender!NothingMissing
<1>12. Sender!ModelFollows'
    BY <1>1 DEF Sender!ModelFollows
<1>13. Sender!ClickFirst'
    <2>1. kind \in Sender!ClickJobs =>
              /\ sendings' = <<>>
              /\ kind # "add" => kind \in {"undoRemoval", "undoAddition", "remove"}
        BY <1>9 DEF Sender!ClickJobs
    <2> QED BY <1>1, <1>2, <1>3, <1>4, <1>8, <2>1 DEF Sender!ClickFirst
<1>14. Sender!ContinuedFirst'
    BY <1>1 DEF Sender!ContinuedFirst
<1>15. Sender!NoneSent /\ Sender!NoneSent'
    BY <1>1, <1>4, <1>8 DEF Sender!NoneSent
<1>16. Sender!SentFirst'
    BY <1>6, <1>9 DEF Sender!SentFirst
<1>17. Sender!FailedFirst'
    BY <1>4, <1>8 DEF Sender!FailedFirst
<1>18. Sender!WantedIsSent'
    BY <1>1, <1>6, <1>9 DEF Sender!WantedIsSent
<1>19. Sender!ContactFollows'
    BY <1>1, <1>15 DEF Sender!ContactFollows
<1> QED BY <1>10, <1>11, <1>12, <1>13, <1>14, <1>16, <1>17, <1>18, <1>19

-----------------------------------------------------------------------------
(* The theorems about the sending client and about both.                   *)

LEMMA RoundInit == ExchangeInit => Sender!RoundInv
<1> SUFFICES ASSUME Sender!Init PROVE Sender!RoundInv
    BY DEF ExchangeInit
<1> USE DEF Sender!Init
<1>1. Sender!TypeOK
    <2>1. clicks \in 0..MaxClicks /\ failures \in 0..MaxFailures /\ disconnections \in 0..MaxDisconnections
        BY SenderConstantsAssumption DEF SenderConstantsAssumption
    <2>2. DOMAIN events = {} /\ DOMAIN sendings = {}
        OBVIOUS
    <2> QED BY <2>1, <2>2 DEF Sender!TypeOK
<1>2. Sender!QueuesOK
    BY DEF Sender!QueuesOK
<1>3. Sender!OneRowPerEmoji /\ Sender!NothingMissing /\ Sender!ModelFollows
    BY DEF Sender!OneRowPerEmoji, Sender!NothingMissing, Sender!ModelFollows
<1>4. Sender!ClickFirst /\ Sender!ContinuedFirst /\ Sender!SentFirst /\ Sender!FailedFirst /\ Sender!WantedIsSent
    BY DEF Sender!ClickFirst, Sender!ContinuedFirst, Sender!SentFirst, Sender!FailedFirst, Sender!WantedIsSent
<1>5. Sender!ContactFollows
    BY DEF Sender!ContactFollows, Sender!NoneSent, Sender!Reached
<1> QED BY <1>1, <1>2, <1>3, <1>4, <1>5 DEF Sender!RoundInv

LEMMA ConnectionOnly ==
    ASSUME Sender!RoundInv, connected' \in BOOLEAN, disconnections' \in 0..MaxDisconnections,
           UNCHANGED <<ownRows, model, jobs, events, sendings, contact, missing, clicks, failures>>
    PROVE  Sender!RoundInv'
<1> USE DEF Sender!RoundInv
<1>1. Sender!TypeOK' /\ Sender!QueuesOK' /\ Sender!OneRowPerEmoji' /\ Sender!NothingMissing'
    BY DEF Sender!TypeOK, Sender!QueuesOK, Sender!OneRowPerEmoji, Sender!NothingMissing
<1>2. Sender!ModelFollows' /\ Sender!ClickFirst' /\ Sender!WantedIsSent'
    BY DEF Sender!ModelFollows, Sender!ClickFirst, Sender!WantedIsSent
<1>3. Sender!ContinuedFirst' /\ Sender!SentFirst' /\ Sender!FailedFirst' /\ Sender!ContactFollows'
    BY DEF Sender!ContinuedFirst, Sender!SentFirst, Sender!FailedFirst, Sender!ContactFollows, Sender!NoneSent,
           Sender!OnlyFetches, Sender!Awaited
<1> QED BY <1>1, <1>2, <1>3

LEMMA RoundKept ==
    ASSUME Waits, Sender!RoundInv, [ExchangeNext]_exchangeVars
    PROVE  Sender!RoundInv'
<1>1. CASE Sender!Local
    <2>1. CASE Sender!Thread
        <3>1. CASE Sender!RunChange
            BY <3>1, ClickStep, ResultStep
        <3> QED BY <2>1, <3>1, FetchStep, MessageUpdatedStep, ContinuationStep, SendPendingStep DEF Sender!Thread
    <2>2. CASE Sender!Disconnect
        <3>1. /\ UNCHANGED <<ownRows, model, jobs, events, sendings, contact, missing, clicks, failures>>
              /\ connected' = FALSE /\ disconnections' = disconnections + 1 /\ disconnections < MaxDisconnections
            BY <2>2 DEF Sender!Disconnect, Sender!queues
        <3>2. disconnections' \in 0..MaxDisconnections
            BY <3>1, SenderConstantsAssumption DEF Sender!RoundInv, Sender!TypeOK, SenderConstantsAssumption
        <3> QED BY <3>1, <3>2, ConnectionOnly
    <2> QED BY <1>1, <2>1, <2>2, ClickedStep, ConnectStep, AnswerStep DEF Sender!Local
<1>2. CASE Accepted
    BY <1>2, AnswerStep DEF Accepted
<1>3. CASE UNCHANGED senderVars
    BY <1>3, ConnectionOnly DEF senderVars, Sender!RoundInv, Sender!TypeOK
<1> QED BY <1>1, <1>2, <1>3 DEF ExchangeNext, exchangeVars

\* For a user who waits for the effects of a click, each round of a click, its changes of the rows
\* and its message is in order, over logins, failures and disconnections.
LEMMA RoundInvariant == ASSUME Waits PROVE ExchangeSpec => []Sender!RoundInv
    BY RoundInit, RoundKept, PTL DEF ExchangeSpec

\* Each change of a reaction finds its row, and when nothing is under way, the model shows the rows
\* (MessageModel's changes, MessageDb::messageUpdated()).
THEOREM SenderCorrect == ASSUME Waits PROVE ExchangeSpec => []SenderInv
<1>1. Sender!RoundInv => SenderInv
    BY DEF Sender!RoundInv, SenderInv, Sender!ModelIsCurrent, Sender!Idle, Sender!ModelFollows
<1> QED BY <1>1, RoundInvariant, PTL

\* What the contact has got is what the server has accepted last.
ContactIsLast == contact = IF history = <<>> THEN {} ELSE history[Len(history)]

LEMMA ContactInvariant == ExchangeSpec => []ContactIsLast
<1>1. ExchangeInit => ContactIsLast
    BY DEF ExchangeInit, Init, Sender!Init, ContactIsLast
<1>2. RowsInv /\ ContactIsLast /\ [ExchangeNext]_exchangeVars => ContactIsLast'
    <2> SUFFICES ASSUME RowsInv, ContactIsLast, [ExchangeNext]_exchangeVars
                 PROVE  ContactIsLast'
        OBVIOUS
    <2>1. CASE Sender!Local /\ UNCHANGED vars
        <3>1. UNCHANGED contact
            BY <2>1 DEF Sender!Local, Sender!Thread, Sender!AddMessageReaction, Sender!RemoveMessageReaction,
                        Sender!ResendMessageReactions, Sender!Clicked, Sender!RunChange, Sender!RunFetch,
                        Sender!MessageUpdated, Sender!Added, Sender!Removed, Sender!SendPending, Sender!Handled,
                        Sender!Connect, Sender!SendingFailed, Sender!Disconnect
        <3> QED BY <2>1, <3>1 DEF vars, ContactIsLast
    <2>2. CASE Accepted
        <3>1. PICK emojis \in SUBSET Emojis : contact' = emojis /\ history' = Append(history, emojis)
            BY <2>2 DEF Accepted, React
        <3>2. history \in Seq(SUBSET Emojis)
            BY DEF RowsInv, TypeOK
        <3>3. Len(history') = Len(history) + 1 /\ history'[Len(history) + 1] = emojis /\ history' # <<>>
            BY <3>1, <3>2
        <3> QED BY <3>1, <3>3 DEF ContactIsLast
    <2>3. CASE UNCHANGED <<history, contact>>
        BY <2>3 DEF ContactIsLast
    <2>4. Arrival => UNCHANGED history
        BY DEF Arrival, StoreMessage, Receive
    <2> QED BY <2>1, <2>2, <2>3, <2>4 DEF ExchangeNext, exchangeVars, vars, senderVars
<1>3. ExchangeSpec => []RowsInv
    BY ExchangeImplementsReceiver, RowsCorrect, PTL
<1> QED BY <1>1, <1>2, <1>3, PTL DEF ExchangeSpec

\* If the user waits and the reactions arrive in order, the contact is shown each reaction that the
\* sender sees as sent and none that the sender no longer sees, once nothing is under way, however
\* many clicks, failures and disconnections there were.
THEOREM SidesAgree == ASSUME Waits, InOrder PROVE ExchangeSpec => []BothSidesAgree
<1>1. ASSUME RowsInv, NewestInv, Sender!RoundInv, ContactIsLast
      PROVE  BothSidesAgree
    <2> SUFFICES ASSUME Sender!Idle, newest = Len(history)
                 PROVE  /\ \A r \in ownRows : r.state = "Sent" => r.emoji \in Shown
                        /\ Shown \subseteq {r.emoji : r \in ownRows}
        BY DEF BothSidesAgree
    <2>1. history \in Seq(SUBSET Emojis)
        BY <1>1 DEF RowsInv, TypeOK
    <2>2. Shown = contact
        <3>1. CASE history = <<>>
            <4>1. rows = {}
                BY <1>1, <3>1 DEF RowsInv, TypeOK, NewestInv, Row
            <4> QED BY <1>1, <3>1, <4>1 DEF Shown, ContactIsLast
        <3>2. CASE history # <<>>
            BY <1>1, <2>1, <3>2 DEF NewestInv, NewestShown, ContactIsLast
        <3> QED BY <3>1, <3>2
    <2>3. contact = Sender!Reached(ownRows)
        BY <1>1 DEF Sender!RoundInv, Sender!ContactFollows, Sender!NoneSent, Sender!Idle
    <2> QED BY <2>2, <2>3 DEF Sender!Reached, Sender!Adding
<1>2. ExchangeSpec => []RowsInv
    BY ExchangeImplementsReceiver, RowsCorrect, PTL
<1>3. ExchangeSpec => []NewestInv
    BY ExchangeImplementsReceiver, NewestInvariant, PTL
<1> QED BY <1>1, <1>2, <1>3, RoundInvariant, ContactInvariant, PTL

=============================================================================
