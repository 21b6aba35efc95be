------------------------ MODULE FileTransfer_proofs ------------------------
(***************************************************************************)
(* Proofs about FileTransfer for any set of files and any number of        *)
(* cancellations, repetitions, failures, connections and terminations: a   *)
(* message is not sent before each of its files was uploaded, and a file   *)
(* is only shown as being transferred while it is.                         *)
(***************************************************************************)
EXTENDS FileTransfer, TLAPS, FiniteSetTheorems

\* Jobs that may be queued: that a file is done is only stored after its transfer.
PlainJobs == [kind : {"add", "fetchPending", "fetchDownloads"}]
StateUpdates == [kind : {"state"}, file : Files, to : TransferStates \ {"Done"}]
Ends == [kind : {"finished"}, file : Files, n : Nat, to : {"Pending", "CanceledByUser", "Failed"}]
Successes == [kind : {"finished"}, file : uploaded, n : Nat, to : {"Done"}]
Settlements == [kind : {"settle"}, to : {"Sent", "Error"}]
OwnJobs == IF row.own THEN [kind : {"fetchMessage"}] ELSE [kind : {"notDownloaded"}]
SafeJobs == PlainJobs \cup StateUpdates \cup Ends \cup Successes \cup Settlements \cup OwnJobs

\* States of files of which those of an own message are only done if they were uploaded.
SafeStates == {s \in [Files -> TransferStates] :
                  row.own => \A f \in Files : s[f] = "Done" => f \in uploaded}

SafeResults ==
    IF row.own
    THEN [kind : {"pending", "message"}, files : SafeStates]
         \cup [kind : {"uploaded"}, key : Files \X Nat, ok : BOOLEAN]
    ELSE [kind : {"added"}] \cup [kind : {"downloads"}, files : SUBSET Files]

TransfersOK ==
    /\ transfers \subseteq Transfers
    /\ started \in [Files -> Nat]
    /\ cache \in [Files -> [n : Nat, byUser : BOOLEAN]]
    /\ \A f \in Files : cache[f].n <= started[f]
    /\ \A t \in transfers : t.n \in 1..started[t.file]

JoinsOK == \A j \in joins : j.open # {} /\ j.open \subseteq Files \X Nat /\ j.ok \in BOOLEAN

RestOK ==
    /\ connection \in {"Disconnected", "Connected", "Discovered"}
    /\ support \in {"Unknown", "Supported"}
    /\ canceled \subseteq Files

\* What is stored, queued and handed over is justified by the finished uploads.
IInv ==
    /\ TransfersOK /\ JoinsOK /\ RestOK
    /\ row \in Rows /\ row.state \in SafeStates
    /\ uploaded \subseteq Files
    /\ sent \in BOOLEAN /\ SentWithFiles
    /\ jobs \in Seq(SafeJobs)
    /\ results \in Seq(SafeResults)

-----------------------------------------------------------------------------
(* Lemmas.                                                                 *)

\* SetToSeq() enumerates a finite set.
LEMMA SetToSeqFacts ==
    ASSUME NEW S, IsFiniteSet(S)
    PROVE  SetToSeq(S) \in Seq(S)
  <1>1. Cardinality(S) \in Nat /\ \E f : f \in Bijection(1..Cardinality(S), S)
    BY FS_CardinalityType DEF ExistsBijection
  <1>2. \E f \in [1..Cardinality(S) -> S] : IsInjective(f)
    BY <1>1 DEF Bijection, Injection, IsInjective
  <1>3. SetToSeq(S) \in [1..Cardinality(S) -> S]
    BY <1>2 DEF SetToSeq
  <1> QED
    BY <1>1, <1>3

LEMMA Concatenation ==
    ASSUME NEW X, NEW p \in Seq(X), NEW q \in Seq(X), NEW r \in Seq(X)
    PROVE  p \o q \in Seq(X) /\ p \o q \o r \in Seq(X)
  OBVIOUS

\* Marking files as being transferred or pending does not claim that they are done.
LEMMA StateJobsSafe ==
    ASSUME NEW S \in SUBSET Files, NEW state \in TransferStates \ {"Done"}
    PROVE  StateJobs(S, state) \in Seq(SafeJobs)
  <1> DEFINE s == SetToSeq(S)
  <1>1. s \in Seq(S)
    BY SetToSeqFacts, ConstantsAssumption, FS_Subset
  <1>2. Len(s) \in Nat /\ \A i \in 1..Len(s) : s[i] \in Files
    BY <1>1
  <1>3. \A i \in 1..Len(s) : [kind |-> "state", file |-> s[i], to |-> state] \in StateUpdates
    BY <1>2 DEF StateUpdates
  <1>4. \A i \in 1..Len(s) : [kind |-> "state", file |-> s[i], to |-> state] \in SafeJobs
    BY <1>3 DEF SafeJobs
  <1> HIDE DEF s
  <1>5. [i \in 1..Len(s) |-> [kind |-> "state", file |-> s[i], to |-> state]] \in Seq(SafeJobs)
    BY <1>2, <1>4
  <1> QED
    BY <1>5 DEF StateJobs, s

\* The numbers of started transfers only grow, and the cache knows the new ones.
LEMMA StartTyped ==
    ASSUME TransfersOK, NEW S \in SUBSET Files, Start(S)
    PROVE  TransfersOK'
  <1>1. started' \in [Files -> Nat] /\ \A f \in Files : started[f] <= started'[f]
    BY DEF TransfersOK, Start
  <1>2. cache' \in [Files -> [n : Nat, byUser : BOOLEAN]]
    BY DEF TransfersOK, Start
  <1>3. \A f \in Files : cache'[f].n <= started'[f]
    BY DEF TransfersOK, Start
  <1>4. ASSUME NEW t \in transfers' PROVE t \in Transfers /\ t.n \in 1..started'[t.file]
    <2>1. CASE t \in transfers
      <3>1. t \in Transfers /\ t.file \in Files /\ t.n \in 1..started[t.file]
        BY <2>1 DEF TransfersOK, Transfers
      <3> QED
        BY <3>1, <1>1 DEF TransfersOK
    <2>2. CASE t \notin transfers
      <3>1. PICK f \in S : t = [file |-> f, n |-> started[f] + 1, stopped |-> FALSE]
        BY <1>4, <2>2 DEF Start
      <3>2. started[f] \in Nat /\ started'[f] = started[f] + 1
        BY DEF TransfersOK, Start
      <3> QED
        BY <3>1, <3>2 DEF Transfers
    <2> QED
      BY <2>1, <2>2
  <1> QED
    BY <1>1, <1>2, <1>3, <1>4 DEF TransfersOK

LEMMA TransfersUnchanged ==
    ASSUME TransfersOK, UNCHANGED <<started, transfers, cache>>
    PROVE  TransfersOK'
  BY DEF TransfersOK

\* What may be queued only depends on the uploaded files and on who has sent the message.
LEMMA SafeUnchanged ==
    ASSUME UNCHANGED <<uploaded, row.own>>
    PROVE  SafeJobs' = SafeJobs /\ SafeStates' = SafeStates /\ SafeResults' = SafeResults
  BY DEF SafeJobs, SafeStates, SafeResults, PlainJobs, StateUpdates, Ends, Successes, Settlements, OwnJobs

\* Further uploads leave what is queued justified.
LEMMA SafeGrows ==
    ASSUME uploaded \subseteq uploaded', UNCHANGED row.own
    PROVE  /\ Seq(SafeJobs) \subseteq Seq(SafeJobs')
           /\ SafeStates \subseteq SafeStates'
           /\ Seq(SafeResults) \subseteq Seq(SafeResults')
  <1>1. SafeJobs \subseteq SafeJobs'
    <2>1. Successes \subseteq Successes'
      BY DEF Successes
    <2>2. UNCHANGED <<PlainJobs, StateUpdates, Ends, Settlements, OwnJobs>>
      BY DEF PlainJobs, StateUpdates, Ends, Settlements, OwnJobs
    <2> QED
      BY <2>1, <2>2 DEF SafeJobs
  <1>2. SafeStates \subseteq SafeStates'
    BY DEF SafeStates
  <1>3. SafeResults \subseteq SafeResults'
    <2>1. [kind : {"pending", "message"}, files : SafeStates]
          \subseteq [kind : {"pending", "message"}, files : SafeStates']
      BY <1>2
    <2> QED
      BY <2>1 DEF SafeResults
  <1>4. \A A, B : A \subseteq B => Seq(A) \subseteq Seq(B)
    OBVIOUS
  <1> QED
    BY <1>1, <1>2, <1>3, <1>4

\* A message is handed to the stream after all files are done, which own files are by being uploaded.
LEMMA TransmitCorrect ==
    ASSUME IInv, row.own, NEW files \in SafeStates, Uploaded(files),
           NEW earlier \in Seq(SafeJobs), Transmit(earlier)
    PROVE  /\ jobs' \in Seq(SafeJobs) /\ TransfersOK' /\ JoinsOK'
           /\ sent' \in BOOLEAN /\ (sent' => uploaded = Files)
  <1>1. \A to \in {"Sent", "Error"} : <<[kind |-> "settle", to |-> to]>> \in Seq(SafeJobs)
    BY DEF SafeJobs, Settlements
  <1>2. jobs' \in Seq(SafeJobs)
    BY <1>1 DEF Transmit, IInv
  <1>3. uploaded = Files
    BY DEF SafeStates, Uploaded, IInv
  <1>4. TransfersOK' /\ JoinsOK'
    BY DEF Transmit, IInv, TransfersOK, JoinsOK
  <1>5. sent' \in BOOLEAN
    BY DEF Transmit, IInv, connected
  <1> QED
    BY <1>2, <1>3, <1>4, <1>5

LEMMA SendFileTasksCorrect ==
    ASSUME IInv, NEW S \in SUBSET Files, NEW earlier \in Seq(SafeJobs), SendFileTasks(S, earlier)
    PROVE  jobs' \in Seq(SafeJobs) /\ TransfersOK'
  <1>1. jobs' \in Seq(SafeJobs)
    <2>1. StateJobs(S, "Transferring") \in Seq(SafeJobs)
      BY StateJobsSafe DEF TransferStates
    <2>2. jobs \in Seq(SafeJobs)
      BY DEF IInv
    <2>3. jobs' \in {jobs \o earlier, jobs \o earlier \o StateJobs(S, "Transferring")}
      BY DEF SendFileTasks
    <2> DEFINE q == StateJobs(S, "Transferring")
    <2> HIDE DEF q
    <2>4. q \in Seq(SafeJobs) /\ jobs' \in {jobs \o earlier, jobs \o earlier \o q}
      BY <2>1, <2>3 DEF q
    <2>5. jobs \o earlier \in Seq(SafeJobs) /\ jobs \o earlier \o q \in Seq(SafeJobs)
      BY <2>2, <2>4, Concatenation
    <2> QED
      BY <2>4, <2>5
  <1>2. TransfersOK'
    BY StartTyped, TransfersUnchanged DEF SendFileTasks, IInv
  <1> QED
    BY <1>1, <1>2

LEMMA SendPendingFilesCorrect ==
    ASSUME IInv, NEW files \in SafeStates, NEW earlier \in Seq(SafeJobs),
           SendPendingFiles(files, earlier)
    PROVE  /\ jobs' \in Seq(SafeJobs) /\ TransfersOK' /\ JoinsOK' /\ UNCHANGED sent
  <1> DEFINE S == {f \in Files : files[f] = "Pending"}
             new == [open |-> {<<f, started[f] + 1>> : f \in S},
                     ok   |-> \A f \in Files \ S : files[f] = "Done"]
  <1>1. jobs' \in Seq(SafeJobs) /\ TransfersOK'
    BY SendFileTasksCorrect DEF SendPendingFiles
  <1>2. \A f \in Files : started[f] + 1 \in Nat
    BY DEF IInv, TransfersOK
  <1>3. S \subseteq Files /\ new.open = {<<f, started[f] + 1>> : f \in S} /\ new.ok \in BOOLEAN
    OBVIOUS
  <1>4. joins' = joins \/ (S # {} /\ joins' = joins \cup {new})
    BY DEF SendPendingFiles
  <1> HIDE DEF new, S
  <1>5. S # {} => new.open # {} /\ new.open \subseteq Files \X Nat
    <2>1. \A f \in S : <<f, started[f] + 1>> \in new.open
      BY <1>3
    <2>2. \A k \in new.open : k \in Files \X Nat
      <3> TAKE k \in new.open
      <3>1. PICK f \in S : k = <<f, started[f] + 1>>
        BY <1>3
      <3>2. f \in Files /\ started[f] + 1 \in Nat
        BY <1>2, <1>3
      <3> QED
        BY <3>1, <3>2
    <2> QED
      BY <2>1, <2>2
  <1>6. JoinsOK'
    BY <1>4, <1>3, <1>5 DEF JoinsOK, IInv
  <1> QED
    BY <1>1, <1>6 DEF SendPendingFiles

LEMMA SendPendingMessageCorrect ==
    ASSUME IInv, row.own, NEW files \in SafeStates, NEW earlier \in Seq(SafeJobs),
           SendPendingMessage(files, earlier)
    PROVE  /\ jobs' \in Seq(SafeJobs) /\ TransfersOK' /\ JoinsOK'
           /\ sent' \in BOOLEAN /\ (sent' => uploaded = Files)
  <1>1. CASE ~connected
    <2>1. jobs' = jobs \o earlier /\ UNCHANGED <<started, transfers, cache, joins, sent>>
      BY <1>1 DEF SendPendingMessage
    <2>2. TransfersOK' /\ JoinsOK'
      BY <2>1, TransfersUnchanged DEF JoinsOK, IInv
    <2> QED
      BY <2>1, <2>2, Concatenation DEF IInv, SentWithFiles
  <1>2. CASE connected /\ Uploaded(files)
    BY <1>2, TransmitCorrect DEF SendPendingMessage
  <1>3. CASE connected /\ ~Uploaded(files)
    BY <1>3, SendPendingFilesCorrect DEF SendPendingMessage, IInv, SentWithFiles
  <1> QED
    BY <1>1, <1>2, <1>3

LEMMA DownloadFilesCorrect ==
    ASSUME IInv, NEW S \in SUBSET Files, NEW broken, DownloadFiles(S, broken)
    PROVE  jobs' \in Seq(SafeJobs) /\ TransfersOK'
  <1>1. /\ StateJobs(S \ broken, "Transferring") \in Seq(SafeJobs)
        /\ StateJobs(S, "Pending") \in Seq(SafeJobs)
    BY StateJobsSafe DEF TransferStates
  <1>2. jobs' \in Seq(SafeJobs)
    <2>1. jobs' \in {jobs \o StateJobs(S \ broken, "Transferring"), jobs \o StateJobs(S, "Pending")}
      BY DEF DownloadFiles
    <2> QED
      BY <1>1, <2>1, Concatenation DEF IInv
  <1>3. TransfersOK'
    BY StartTyped, TransfersUnchanged DEF DownloadFiles, IInv
  <1> QED
    BY <1>2, <1>3

-----------------------------------------------------------------------------
(* The user.                                                               *)

LEMMA InitCorrect == Init => IInv
  <1> SUFFICES ASSUME Init PROVE IInv
    OBVIOUS
  <1>1. row \in Rows /\ row.state \in SafeStates
    <2>1. PICK own \in Directions :
             row = [stored |-> FALSE, own |-> own, delivery |-> "Pending",
                    state |-> [f \in Files |-> "Pending"], local |-> [f \in Files |-> own]]
      BY DEF Init
    <2>2. own \in BOOLEAN
      BY ConstantsAssumption
    <2>3. [f \in Files |-> "Pending"] \in SafeStates
      BY DEF SafeStates, TransferStates
    <2>4. [f \in Files |-> own] \in [Files -> BOOLEAN]
      BY <2>2
    <2> QED
      BY <2>1, <2>2, <2>3, <2>4 DEF Rows, SafeStates
  <1>2. TransfersOK /\ JoinsOK /\ RestOK
    BY DEF Init, TransfersOK, JoinsOK, RestOK
  <1>3. jobs \in Seq(SafeJobs) /\ results \in Seq(SafeResults)
    BY DEF Init
  <1> QED
    BY <1>1, <1>2, <1>3 DEF Init, IInv, SentWithFiles

LEMMA ComposeCorrect == IInv /\ Compose => IInv'
  <1> SUFFICES ASSUME IInv, Compose PROVE IInv'
    OBVIOUS
  <1>1. <<[kind |-> "add"]>> \in Seq(SafeJobs)
    BY DEF SafeJobs, PlainJobs
  <1>2. /\ jobs' \in Seq(SafeJobs) /\ TransfersOK' /\ JoinsOK'
        /\ sent' \in BOOLEAN /\ (sent' => uploaded = Files)
    BY <1>1, SendPendingMessageCorrect DEF Compose, IInv
  <1>3. UNCHANGED <<row, results, uploaded, SafeJobs, SafeStates, SafeResults>>
    BY SafeUnchanged DEF Compose
  <1>4. RestOK'
    BY DEF Compose, IInv, RestOK
  <1> QED
    BY <1>2, <1>3, <1>4 DEF IInv, SentWithFiles

LEMMA CancelCorrect == ASSUME NEW f \in Files PROVE IInv /\ Cancel(f) => IInv'
  <1> SUFFICES ASSUME IInv, Cancel(f) PROVE IInv'
    OBVIOUS
  <1>1. UNCHANGED <<row, results, uploaded, joins, sent, SafeJobs, SafeStates, SafeResults>>
    BY SafeUnchanged DEF Cancel
  <1>2. jobs' \in Seq(SafeJobs)
    <2>1. [kind |-> "state", file |-> f, to |-> "CanceledByUser"] \in SafeJobs
      BY DEF SafeJobs, StateUpdates, TransferStates
    <2> QED
      BY <2>1 DEF Cancel, IInv
  <1>3. TransfersOK'
    <2>1. CASE cache[f].n = 0
      BY <2>1, TransfersUnchanged DEF Cancel, IInv
    <2>2. CASE cache[f].n # 0
      <3>1. cache' = [cache EXCEPT ![f].byUser = TRUE] /\ UNCHANGED started
        BY <2>2 DEF Cancel
      <3>2. cache' \in [Files -> [n : Nat, byUser : BOOLEAN]] /\ \A g \in Files : cache'[g].n = cache[g].n
        BY <3>1 DEF IInv, TransfersOK
      <3>3. transfers' = {[t EXCEPT !.stopped = @ \/ (t.file = f /\ t.n = cache[f].n)] : t \in transfers}
        BY <2>2 DEF Cancel
      <3>4. \A t \in transfers : t \in Transfers /\ t.n \in 1..started[t.file]
        BY DEF IInv, TransfersOK
      <3>5. ASSUME NEW t \in transfers, NEW b \in BOOLEAN
            PROVE  /\ [t EXCEPT !.stopped = b] \in Transfers
                   /\ [t EXCEPT !.stopped = b].n = t.n /\ [t EXCEPT !.stopped = b].file = t.file
        BY <3>4 DEF Transfers
      <3>6. \A u \in transfers' : u \in Transfers /\ u.n \in 1..started[u.file]
        <4> SUFFICES ASSUME NEW u \in transfers' PROVE u \in Transfers /\ u.n \in 1..started[u.file]
          OBVIOUS
        <4>1. PICK t \in transfers :
                 u = [t EXCEPT !.stopped = @ \/ (t.file = f /\ t.n = cache[f].n)]
          BY <3>3
        <4>2. (t.stopped \/ (t.file = f /\ t.n = cache[f].n)) \in BOOLEAN
          OBVIOUS
        <4>3. PICK b \in BOOLEAN : u = [t EXCEPT !.stopped = b]
          BY <4>1, <4>2
        <4> QED
          BY <4>3, <3>4, <3>5
      <3> QED
        BY <3>1, <3>2, <3>6 DEF IInv, TransfersOK
    <2> QED
      BY <2>1, <2>2
  <1>4. RestOK' /\ JoinsOK'
    BY DEF Cancel, IInv, RestOK, JoinsOK
  <1> QED
    BY <1>1, <1>2, <1>3, <1>4 DEF IInv, SentWithFiles

LEMMA UploadAgainCorrect == ASSUME NEW f \in Files PROVE IInv /\ UploadAgain(f) => IInv'
  <1> SUFFICES ASSUME IInv, UploadAgain(f) PROVE IInv'
    OBVIOUS
  <1>1. UNCHANGED <<row, results, uploaded, joins, sent, SafeJobs, SafeStates, SafeResults>>
    BY SafeUnchanged DEF UploadAgain
  <1>2. jobs' \in Seq(SafeJobs) /\ TransfersOK'
    <2>1. {f} \in SUBSET Files /\ <<>> \in Seq(SafeJobs)
      OBVIOUS
    <2> QED
      BY <2>1, SendFileTasksCorrect DEF UploadAgain
  <1>3. RestOK' /\ JoinsOK'
    BY DEF UploadAgain, IInv, RestOK, JoinsOK
  <1> QED
    BY <1>1, <1>2, <1>3 DEF IInv, SentWithFiles

LEMMA DownloadAgainCorrect == ASSUME NEW f \in Files PROVE IInv /\ DownloadAgain(f) => IInv'
  <1> SUFFICES ASSUME IInv, DownloadAgain(f) PROVE IInv'
    OBVIOUS
  <1>1. UNCHANGED <<row, results, uploaded, joins, sent, SafeJobs, SafeStates, SafeResults>>
    BY SafeUnchanged DEF DownloadAgain
  <1>2. jobs' \in Seq(SafeJobs) /\ TransfersOK'
    BY DownloadFilesCorrect DEF DownloadAgain
  <1>3. RestOK' /\ JoinsOK'
    BY DEF DownloadAgain, IInv, RestOK, JoinsOK
  <1> QED
    BY <1>1, <1>2, <1>3 DEF IInv, SentWithFiles

-----------------------------------------------------------------------------
(* QXmpp.                                                                  *)

LEMMA ReceiveCorrect == IInv /\ Receive => IInv'
  <1> SUFFICES ASSUME IInv, Receive PROVE IInv'
    OBVIOUS
  <1>1. UNCHANGED <<row, results, uploaded, joins, sent, SafeJobs, SafeStates, SafeResults>>
    BY SafeUnchanged DEF Receive
  <1>2. [kind |-> "add"] \in SafeJobs
    BY DEF SafeJobs, PlainJobs
  <1>3. jobs' \in Seq(SafeJobs) /\ TransfersOK' /\ RestOK' /\ JoinsOK'
    BY <1>2 DEF Receive, IInv, TransfersOK, RestOK, JoinsOK
  <1> QED
    BY <1>1, <1>3 DEF IInv, SentWithFiles

\* That a file of an own message is done is queued when its upload succeeds.
LEMMA TransferFinishedCorrect == ASSUME NEW t \in transfers PROVE IInv /\ TransferFinished(t) => IInv'
  <1> SUFFICES ASSUME IInv, TransferFinished(t) PROVE IInv'
    OBVIOUS
  <1>1. t \in Transfers /\ t.file \in Files /\ t.n \in Nat
    BY DEF IInv, TransfersOK, Transfers
  <1>2. UNCHANGED <<row, results, joins, sent, started>> /\ RestOK'
    BY DEF TransferFinished, IInv, RestOK
  <1>3. uploaded \subseteq uploaded' /\ uploaded' \subseteq Files
    BY <1>1 DEF TransferFinished, IInv
  <1>4. PICK to \in TransferStates \ {"Transferring"} :
           /\ jobs' = Append(jobs, [kind |-> "finished", file |-> t.file, n |-> t.n, to |-> to])
           /\ to = "Done" => t.file \in uploaded'
    <2>1. PICK outcome \in {"Done", "Failed", "Pending"} :
             /\ uploaded' = IF outcome = "Done" THEN uploaded \cup {t.file} ELSE uploaded
             /\ jobs' = Append(jobs, [kind |-> "finished", file |-> t.file, n |-> t.n,
                                      to |-> IF outcome # "Done" /\ cache[t.file].byUser
                                             THEN "CanceledByUser" ELSE outcome])
      BY DEF TransferFinished
    <2> QED
      BY <2>1 DEF TransferStates
  <1>5. [kind |-> "finished", file |-> t.file, n |-> t.n, to |-> to] \in SafeJobs'
    <2>1. CASE to = "Done"
      BY <2>1, <1>1, <1>4 DEF SafeJobs, Successes
    <2>2. CASE to # "Done"
      BY <2>2, <1>1, <1>4 DEF SafeJobs, Ends, TransferStates
    <2> QED
      BY <2>1, <2>2
  <1>6. jobs' \in Seq(SafeJobs') /\ results' \in Seq(SafeResults') /\ row'.state \in SafeStates'
    <2>1. jobs \in Seq(SafeJobs') /\ results \in Seq(SafeResults') /\ row.state \in SafeStates'
      BY SafeGrows, <1>2, <1>3 DEF IInv
    <2> QED
      BY <2>1, <1>2, <1>4, <1>5
  <1>7. TransfersOK'
    <2>1. transfers' \subseteq transfers
      BY DEF TransferFinished
    <2>2. cache' = [cache EXCEPT ![t.file] = [n |-> 0, byUser |-> FALSE]]
      BY DEF TransferFinished
    <2>3. cache' \in [Files -> [n : Nat, byUser : BOOLEAN]] /\ \A f \in Files : cache'[f].n <= started[f]
      BY <2>2, <1>1 DEF IInv, TransfersOK
    <2> QED
      BY <2>1, <2>3, <1>2 DEF IInv, TransfersOK
  <1> QED
    BY <1>2, <1>3, <1>6, <1>7 DEF IInv, SentWithFiles, JoinsOK

LEMMA ConnectCorrect == IInv /\ Connect => IInv'
  <1> SUFFICES ASSUME IInv, Connect PROVE IInv'
    OBVIOUS
  <1>1. UNCHANGED <<row, results, uploaded, joins, sent, SafeJobs, SafeStates, SafeResults>>
    BY SafeUnchanged DEF Connect
  <1>2. [kind |-> "fetchDownloads"] \in SafeJobs
    BY DEF SafeJobs, PlainJobs
  <1>3. jobs' \in Seq(SafeJobs) /\ TransfersOK' /\ RestOK' /\ JoinsOK'
    BY <1>2 DEF Connect, IInv, TransfersOK, RestOK, JoinsOK
  <1> QED
    BY <1>1, <1>3 DEF IInv, SentWithFiles

LEMMA ServicesDiscoveredCorrect == IInv /\ ServicesDiscovered => IInv'
  <1> SUFFICES ASSUME IInv, ServicesDiscovered PROVE IInv'
    OBVIOUS
  <1>1. UNCHANGED <<row, results, uploaded, joins, sent, SafeJobs, SafeStates, SafeResults>>
    BY SafeUnchanged DEF ServicesDiscovered
  <1>2. [kind |-> "fetchPending"] \in SafeJobs
    BY DEF SafeJobs, PlainJobs
  <1>3. jobs' \in Seq(SafeJobs) /\ TransfersOK' /\ RestOK' /\ JoinsOK'
    BY <1>2 DEF ServicesDiscovered, IInv, TransfersOK, RestOK, JoinsOK
  <1> QED
    BY <1>1, <1>3 DEF IInv, SentWithFiles

LEMMA DisconnectCorrect == IInv /\ Disconnect => IInv'
  <1> SUFFICES ASSUME IInv, Disconnect PROVE IInv'
    OBVIOUS
  <1>1. UNCHANGED <<row, jobs, results, uploaded, joins, sent, SafeJobs, SafeStates, SafeResults>>
    BY SafeUnchanged DEF Disconnect
  <1>2. /\ transfers' = {[t EXCEPT !.stopped = @ \/ t.n = cache[t.file].n] : t \in transfers}
        /\ UNCHANGED <<started, cache>>
    BY DEF Disconnect
  <1>3. \A t \in transfers : t \in Transfers /\ t.n \in 1..started[t.file]
    BY DEF IInv, TransfersOK
  <1>4. ASSUME NEW t \in transfers, NEW b \in BOOLEAN
        PROVE  LET u == [t EXCEPT !.stopped = b] IN u \in Transfers /\ u.n \in 1..started[u.file]
    BY <1>3 DEF Transfers
  <1>5. \A u \in transfers' : u \in Transfers /\ u.n \in 1..started[u.file]
    <2> TAKE u \in transfers'
    <2>1. PICK t \in transfers : u = [t EXCEPT !.stopped = @ \/ t.n = cache[t.file].n]
      BY <1>2
    <2>2. (t.stopped \/ t.n = cache[t.file].n) \in BOOLEAN
      OBVIOUS
    <2>3. PICK b \in BOOLEAN : u = [t EXCEPT !.stopped = b]
      BY <2>1, <2>2
    <2> QED
      BY <2>3, <1>4
  <1>6. TransfersOK' /\ JoinsOK' /\ RestOK'
    BY <1>1, <1>2, <1>5 DEF Disconnect, IInv, TransfersOK, JoinsOK, RestOK
  <1> QED
    BY <1>1, <1>6 DEF IInv, SentWithFiles

-----------------------------------------------------------------------------
(* The database thread.                                                    *)

\* A job changes the row as it was justified when it was queued.
LEMMA RowAfterCorrect ==
    ASSUME IInv, NEW job \in SafeJobs
    PROVE  /\ RowAfter(job) \in Rows /\ RowAfter(job).own = row.own
           /\ RowAfter(job).state \in SafeStates
  <1>1. row \in Rows /\ row.state \in SafeStates
    BY DEF IInv
  <1>2. CASE job.kind = "add"
    <2>1. RowAfter(job) = [row EXCEPT !.stored = TRUE]
      BY <1>2 DEF RowAfter
    <2> QED
      BY <1>1, <2>1 DEF Rows
  <1>3. CASE job.kind \in {"state", "finished"} /\ row.stored
    <2>1. /\ job.file \in Files /\ job.to \in TransferStates
          /\ job.to = "Done" => job.file \in uploaded
      BY <1>3 DEF IInv, SafeJobs, PlainJobs, StateUpdates, Ends, Successes, Settlements, OwnJobs,
         TransferStates
    <2>2. RowAfter(job) = [row EXCEPT !.state[job.file] = job.to, !.local[job.file] = @ \/ job.to = "Done"]
      BY <1>3 DEF RowAfter
    <2> DEFINE state == [row.state EXCEPT ![job.file] = job.to]
               local == [row.local EXCEPT ![job.file] = @ \/ job.to = "Done"]
    <2>3. RowAfter(job) = [row EXCEPT !.state = state, !.local = local]
      BY <2>2
    <2>4. state \in SafeStates
      BY <1>1, <2>1 DEF SafeStates
    <2>5. local \in [Files -> BOOLEAN]
      BY <1>1, <2>1 DEF Rows
    <2> HIDE DEF state, local
    <2>6. state \in [Files -> TransferStates]
      BY <2>4 DEF SafeStates
    <2> QED
      BY <1>1, <2>3, <2>4, <2>5, <2>6 DEF Rows
  <1>4. CASE job.kind = "notDownloaded"
    <2>1. ~row.own
      BY <1>4 DEF SafeJobs, PlainJobs, StateUpdates, Ends, Successes, Settlements, OwnJobs
    <2>2. RowAfter(job) = [row EXCEPT !.state = [f \in Files |-> "Done"]]
      BY <1>4 DEF RowAfter
    <2> QED
      BY <1>1, <2>1, <2>2 DEF Rows, SafeStates, TransferStates
  <1>5. CASE job.kind = "settle" /\ row.stored
    <2>1. job.to \in {"Sent", "Error"}
      BY <1>5 DEF SafeJobs, PlainJobs, StateUpdates, Ends, Successes, Settlements, OwnJobs
    <2>2. RowAfter(job) = [row EXCEPT !.delivery = job.to]
      BY <1>5 DEF RowAfter
    <2> QED
      BY <1>1, <2>1, <2>2 DEF Rows
  <1>6. CASE ~(job.kind \in {"add", "notDownloaded"} \/ (job.kind \in {"state", "finished", "settle"} /\ row.stored))
    <2>1. RowAfter(job) = row
      BY <1>6 DEF RowAfter
    <2> QED
      BY <1>1, <2>1
  <1> QED
    BY <1>2, <1>3, <1>4, <1>5, <1>6

\* What the main thread is told is about the stored states.
LEMMA ResultsCorrect ==
    ASSUME IInv, NEW job \in SafeJobs
    PROVE  ResultsOf(job) \in Seq(SafeResults)
  <1>1. row \in Rows /\ row.state \in SafeStates /\ row.own \in BOOLEAN
    BY DEF IInv, Rows
  <1>2. CASE job.kind = "add" /\ ~row.own
    BY <1>2 DEF ResultsOf, SafeResults
  <1>3. CASE job.kind = "finished" /\ row.own
    <2>1. job.file \in Files /\ job.n \in Nat
      BY <1>3 DEF IInv, SafeJobs, PlainJobs, StateUpdates, Ends, Successes, Settlements, OwnJobs
    <2>2. (job.to = "Done") \in BOOLEAN
      OBVIOUS
    <2>3. [kind |-> "uploaded", key |-> <<job.file, job.n>>, ok |-> job.to = "Done"] \in SafeResults
      BY <1>3, <2>1, <2>2 DEF SafeResults
    <2> QED
      BY <1>3, <2>3 DEF ResultsOf
  <1>4. CASE job.kind = "fetchPending" /\ row.own /\ row.stored /\ row.delivery = "Pending"
    <2>1. [kind |-> "pending", files |-> row.state] \in SafeResults
      BY <1>1, <1>4 DEF SafeResults
    <2> QED
      BY <1>4, <2>1 DEF ResultsOf
  <1>5. CASE job.kind = "fetchDownloads" /\ ~row.own /\ row.stored
    BY <1>5 DEF ResultsOf, SafeResults
  <1>6. CASE job.kind = "fetchMessage"
    <2>1. row.own
      BY <1>6 DEF SafeJobs, PlainJobs, StateUpdates, Ends, Successes, Settlements, OwnJobs
    <2>2. [kind |-> "message", files |-> row.state] \in SafeResults
      BY <1>1, <2>1 DEF SafeResults
    <2> QED
      BY <1>6, <2>2 DEF ResultsOf
  <1>7. CASE ~(\/ job.kind = "add" /\ ~row.own
               \/ job.kind = "finished" /\ row.own
               \/ job.kind = "fetchPending" /\ row.own /\ row.stored /\ row.delivery = "Pending"
               \/ job.kind = "fetchDownloads" /\ ~row.own /\ row.stored
               \/ job.kind = "fetchMessage")
    <2>1. ResultsOf(job) = <<>>
      BY <1>7 DEF ResultsOf
    <2> QED
      BY <2>1
  <1> QED
    BY <1>2, <1>3, <1>4, <1>5, <1>6, <1>7

LEMMA RunJobCorrect == IInv /\ RunJob => IInv'
  <1> SUFFICES ASSUME IInv, RunJob PROVE IInv'
    OBVIOUS
  <1>1. jobs \in Seq(SafeJobs) /\ jobs # <<>> /\ jobs' = Tail(jobs)
    BY DEF IInv, RunJob
  <1>2. Head(jobs) \in SafeJobs /\ jobs' \in Seq(SafeJobs)
    BY <1>1
  <1>3. /\ row' \in Rows /\ row'.own = row.own /\ row'.state \in SafeStates
        /\ results' \in Seq(SafeResults)
    <2>1. ResultsOf(Head(jobs)) \in Seq(SafeResults) /\ results \in Seq(SafeResults)
      BY <1>2, ResultsCorrect DEF IInv
    <2>2. results' = results \o ResultsOf(Head(jobs))
      BY DEF RunJob
    <2>3. results' \in Seq(SafeResults)
      BY <2>1, <2>2, Concatenation
    <2>4. row' = RowAfter(Head(jobs))
      BY DEF RunJob
    <2> QED
      BY <1>2, <2>3, <2>4, RowAfterCorrect
  <1>4. UNCHANGED <<uploaded, sent, SafeJobs, SafeStates, SafeResults>>
    BY <1>3, SafeUnchanged DEF RunJob
  <1>5. TransfersOK' /\ JoinsOK' /\ RestOK'
    BY DEF RunJob, IInv, TransfersOK, JoinsOK, RestOK
  <1> QED
    BY <1>2, <1>3, <1>4, <1>5 DEF IInv, SentWithFiles

-----------------------------------------------------------------------------
(* Continuations in the main thread.                                       *)

LEMMA HandlesCorrect ==
    ASSUME IInv, NEW kind, Handles(kind)
    PROVE  Head(results) \in SafeResults /\ Head(results).kind = kind /\ results' \in Seq(SafeResults)
  <1>1. results \in Seq(SafeResults) /\ results # <<>> /\ results' = Tail(results)
    BY DEF IInv, Handles
  <1> QED
    BY <1>1 DEF Handles

LEMMA MessageAddedCorrect == IInv /\ MessageAdded => IInv'
  <1> SUFFICES ASSUME IInv, MessageAdded PROVE IInv'
    OBVIOUS
  <1>1. UNCHANGED <<row, uploaded, joins, sent, SafeJobs, SafeStates, SafeResults>>
    BY SafeUnchanged DEF MessageAdded
  <1>2. ~row.own /\ results' \in Seq(SafeResults)
    <2>1. Head(results) \in SafeResults /\ Head(results).kind = "added" /\ results' \in Seq(SafeResults)
      BY HandlesCorrect DEF MessageAdded
    <2> QED
      BY <2>1 DEF SafeResults
  <1>3. jobs' \in Seq(SafeJobs) /\ TransfersOK'
    <2>1. CASE AutomaticDownloads
      BY <2>1, DownloadFilesCorrect DEF MessageAdded
    <2>2. CASE ~AutomaticDownloads
      <3>1. [kind |-> "notDownloaded"] \in SafeJobs
        BY <1>2 DEF SafeJobs, OwnJobs
      <3>2. jobs' = Append(jobs, [kind |-> "notDownloaded"]) /\ UNCHANGED <<started, transfers, cache>>
        BY <2>2 DEF MessageAdded
      <3> QED
        BY <3>1, <3>2, TransfersUnchanged DEF IInv
    <2> QED
      BY <2>1, <2>2
  <1>4. RestOK' /\ JoinsOK'
    BY DEF MessageAdded, IInv, RestOK, JoinsOK
  <1> QED
    BY <1>1, <1>2, <1>3, <1>4 DEF IInv, SentWithFiles

LEMMA PendingDownloadsCorrect == IInv /\ PendingDownloads => IInv'
  <1> SUFFICES ASSUME IInv, PendingDownloads PROVE IInv'
    OBVIOUS
  <1>1. UNCHANGED <<row, uploaded, joins, sent, SafeJobs, SafeStates, SafeResults>>
    BY SafeUnchanged DEF PendingDownloads
  <1>2. Head(results).files \in SUBSET Files /\ results' \in Seq(SafeResults)
    <2>1. Head(results) \in SafeResults /\ Head(results).kind = "downloads" /\ results' \in Seq(SafeResults)
      BY HandlesCorrect DEF PendingDownloads
    <2> QED
      BY <2>1 DEF SafeResults
  <1>3. jobs' \in Seq(SafeJobs) /\ TransfersOK'
    BY <1>2, DownloadFilesCorrect DEF PendingDownloads
  <1>4. RestOK' /\ JoinsOK'
    BY DEF PendingDownloads, IInv, RestOK, JoinsOK
  <1> QED
    BY <1>1, <1>2, <1>3, <1>4 DEF IInv, SentWithFiles

LEMMA PendingMessageCorrect == IInv /\ PendingMessage => IInv'
  <1> SUFFICES ASSUME IInv, PendingMessage PROVE IInv'
    OBVIOUS
  <1>1. UNCHANGED <<row, uploaded, SafeJobs, SafeStates, SafeResults>>
    BY SafeUnchanged DEF PendingMessage
  <1>2. row.own /\ Head(results).files \in SafeStates /\ results' \in Seq(SafeResults)
    <2>1. Head(results) \in SafeResults /\ Head(results).kind = "pending" /\ results' \in Seq(SafeResults)
      BY HandlesCorrect DEF PendingMessage
    <2> QED
      BY <2>1 DEF SafeResults
  <1>3. /\ jobs' \in Seq(SafeJobs) /\ TransfersOK' /\ JoinsOK'
        /\ sent' \in BOOLEAN /\ (sent' => uploaded = Files)
    <2>1. <<>> \in Seq(SafeJobs)
      OBVIOUS
    <2> QED
      BY <1>2, <2>1, SendPendingMessageCorrect DEF PendingMessage
  <1>4. RestOK'
    BY DEF PendingMessage, IInv, RestOK
  <1> QED
    BY <1>1, <1>2, <1>3, <1>4 DEF IInv, SentWithFiles

LEMMA UploadStoredCorrect == IInv /\ UploadStored => IInv'
  <1> SUFFICES ASSUME IInv, UploadStored PROVE IInv'
    OBVIOUS
  <1>1. UNCHANGED <<row, uploaded, sent, SafeJobs, SafeStates, SafeResults>>
    BY SafeUnchanged DEF UploadStored
  <1>2. row.own /\ Head(results).ok \in BOOLEAN /\ results' \in Seq(SafeResults)
    <2>1. Head(results) \in SafeResults /\ Head(results).kind = "uploaded" /\ results' \in Seq(SafeResults)
      BY HandlesCorrect DEF UploadStored
    <2> QED
      BY <2>1 DEF SafeResults
  <1>3. jobs' \in Seq(SafeJobs)
    <2>1. [kind |-> "fetchMessage"] \in SafeJobs
      BY <1>2 DEF SafeJobs, OwnJobs
    <2>2. jobs' \in {jobs, Append(jobs, [kind |-> "fetchMessage"])}
      BY DEF UploadStored
    <2> QED
      BY <2>1, <2>2 DEF IInv
  <1>4. JoinsOK'
    <2> DEFINE key == Head(results).key
               ok == Head(results).ok
               group == {j \in joins : key \in j.open}
               rest == {[open |-> j.open \ {key}, ok |-> j.ok /\ ok] : j \in group}
    <2>1. joins' = (joins \ group) \cup {j \in rest : j.open # {}}
      BY DEF UploadStored
    <2>2. \A j \in joins : j.open # {} /\ j.open \subseteq Files \X Nat /\ j.ok \in BOOLEAN
      BY DEF IInv, JoinsOK
    <2>3. ASSUME NEW k \in rest PROVE k.open \subseteq Files \X Nat /\ k.ok \in BOOLEAN
      <3>1. PICK j \in joins : k = [open |-> j.open \ {key}, ok |-> j.ok /\ ok]
        OBVIOUS
      <3>2. k.open \subseteq j.open /\ k.ok = (j.ok /\ ok)
        BY <3>1
      <3> QED
        BY <2>2, <3>2
    <2> HIDE DEF rest, group
    <2> QED
      BY <2>1, <2>2, <2>3 DEF JoinsOK
  <1>5. TransfersOK' /\ RestOK'
    BY DEF UploadStored, IInv, TransfersOK, RestOK
  <1> QED
    BY <1>1, <1>2, <1>3, <1>4, <1>5 DEF IInv, SentWithFiles

LEMMA MaybeSendCorrect == IInv /\ MaybeSend => IInv'
  <1> SUFFICES ASSUME IInv, MaybeSend PROVE IInv'
    OBVIOUS
  <1>1. UNCHANGED <<row, uploaded, SafeJobs, SafeStates, SafeResults>>
    BY SafeUnchanged DEF MaybeSend
  <1>2. row.own /\ Head(results).files \in SafeStates /\ results' \in Seq(SafeResults)
    <2>1. Head(results) \in SafeResults /\ Head(results).kind = "message" /\ results' \in Seq(SafeResults)
      BY HandlesCorrect DEF MaybeSend
    <2> QED
      BY <2>1 DEF SafeResults
  <1>3. /\ jobs' \in Seq(SafeJobs) /\ TransfersOK' /\ JoinsOK'
        /\ sent' \in BOOLEAN /\ (sent' => uploaded = Files)
    <2>1. CASE Uploaded(Head(results).files)
      <3>1. <<>> \in Seq(SafeJobs) /\ Transmit(<<>>)
        BY <2>1 DEF MaybeSend
      <3> QED
        BY <1>2, <2>1, <3>1, TransmitCorrect
    <2>2. CASE ~Uploaded(Head(results).files)
      <3>1. UNCHANGED <<jobs, sent, started, transfers, cache, joins>>
        BY <2>2 DEF MaybeSend
      <3> QED
        BY <3>1 DEF IInv, TransfersOK, JoinsOK, SentWithFiles
    <2> QED
      BY <2>1, <2>2
  <1>4. RestOK'
    BY DEF MaybeSend, IInv, RestOK
  <1> QED
    BY <1>1, <1>2, <1>3, <1>4 DEF IInv, SentWithFiles

LEMMA RestartCorrect == IInv /\ Restart => IInv'
  <1> SUFFICES ASSUME IInv, Restart PROVE IInv'
    OBVIOUS
  <1>1. UNCHANGED <<row, uploaded, sent, SafeJobs, SafeStates, SafeResults>>
    BY SafeUnchanged DEF Restart
  <1>2. jobs' = <<>> /\ results' = <<>>
    BY DEF Restart
  <1>3. TransfersOK'
    <2>1. cache' = [f \in Files |-> [n |-> 0, byUser |-> FALSE]] /\ transfers' = {} /\ UNCHANGED started
      BY DEF Restart
    <2> QED
      BY <2>1 DEF IInv, TransfersOK
  <1>4. JoinsOK' /\ RestOK'
    BY DEF Restart, IInv, JoinsOK, RestOK
  <1> QED
    BY <1>1, <1>2, <1>3, <1>4 DEF IInv, SentWithFiles

-----------------------------------------------------------------------------
(* Files shown as being transferred.                                       *)

Running(f) == \E t \in transfers : t.file = f

\* The job shows the file as being transferred.
Marks(job, f) == job.kind = "state" /\ job.file = f /\ job.to = "Transferring"

Unmarked(f, q) == \A i \in 1..Len(q) : ~Marks(q[i], f)

\* The end of a transfer of the file is queued, and no start after it.
Ended(f, q) == \E i \in 1..Len(q) : /\ q[i].kind = "finished" /\ q[i].file = f
                                     /\ \A k \in 1..Len(q) : k > i => ~Marks(q[k], f)

Quiet(f, q) == (row.state[f] # "Transferring" /\ Unmarked(f, q)) \/ Ended(f, q)

\* As long as the application is not terminated, a file that nothing transfers is not shown as being
\* transferred once the jobs are run.
ShownInv ==
    /\ DOMAIN counts = {"composed", "cancels", "repeats", "failures", "connections", "restarts"}
    /\ counts.restarts \in Nat
    /\ counts.restarts = 0 =>
          /\ ~row.stored => \A f \in Files : row.state[f] # "Transferring"
          /\ \A f \in Files : Running(f) \/ Quiet(f, jobs)

\* Counting other events than terminations.
LEMMA Counting ==
    ASSUME ShownInv, NEW event \in {"composed", "cancels", "repeats", "failures", "connections"},
           NEW n, counts' = [counts EXCEPT ![event] = n]
    PROVE  DOMAIN counts' = DOMAIN counts /\ counts'.restarts = counts.restarts
  BY DEF ShownInv

\* Jobs that do not mark a file leave it quiet.
LEMMA QuietConcat ==
    ASSUME NEW f, NEW q \in Seq(SafeJobs), NEW r \in Seq(SafeJobs), Quiet(f, q), Unmarked(f, r)
    PROVE  Quiet(f, q \o r)
  <1> DEFINE s == q \o r
  <1>1. /\ Len(s) = Len(q) + Len(r) /\ Len(q) \in Nat /\ Len(r) \in Nat
        /\ \A i \in 1..Len(q) : s[i] = q[i]
        /\ \A i \in 1..Len(s) : i \notin 1..Len(q) => i - Len(q) \in 1..Len(r) /\ s[i] = r[i - Len(q)]
    OBVIOUS
  <1>2. \A i \in 1..Len(q) : i \in 1..Len(s)
    BY <1>1
  <1> HIDE DEF s
  <1>3. \A i \in 1..Len(s) : i \notin 1..Len(q) => ~Marks(s[i], f)
    BY <1>1 DEF Unmarked
  <1>4. CASE row.state[f] # "Transferring" /\ Unmarked(f, q)
    <2>1. Unmarked(f, s)
      BY <1>1, <1>3, <1>4 DEF Unmarked
    <2> QED
      BY <1>4, <2>1 DEF Quiet, s
  <1>5. CASE Ended(f, q)
    <2>1. PICK i \in 1..Len(q) : /\ q[i].kind = "finished" /\ q[i].file = f
                                 /\ \A k \in 1..Len(q) : k > i => ~Marks(q[k], f)
      BY <1>5 DEF Ended
    <2>2. i \in 1..Len(s) /\ s[i].kind = "finished" /\ s[i].file = f
      BY <1>1, <1>2, <2>1
    <2>3. \A k \in 1..Len(s) : k > i => ~Marks(s[k], f)
      BY <1>1, <1>3, <2>1
    <2>4. Ended(f, s)
      BY <2>2, <2>3 DEF Ended
    <2> QED
      BY <2>4 DEF Quiet, s
  <1> QED
    BY <1>4, <1>5 DEF Quiet

LEMMA QuietAppend ==
    ASSUME NEW f, NEW q \in Seq(SafeJobs), NEW job \in SafeJobs, Quiet(f, q), ~Marks(job, f)
    PROVE  Quiet(f, Append(q, job))
  <1>1. Append(q, job) = q \o <<job>> /\ <<job>> \in Seq(SafeJobs)
    OBVIOUS
  <1>2. Unmarked(f, <<job>>)
    BY DEF Unmarked
  <1> QED
    BY <1>1, <1>2, QuietConcat

\* Only the files that are started are marked.
LEMMA StateJobsMark ==
    ASSUME NEW S \in SUBSET Files, NEW state, NEW f, state # "Transferring" \/ f \notin S
    PROVE  Unmarked(f, StateJobs(S, state))
  <1> DEFINE s == SetToSeq(S)
  <1>1. s \in Seq(S)
    BY SetToSeqFacts, ConstantsAssumption, FS_Subset
  <1>2. Len(s) \in Nat /\ \A i \in 1..Len(s) : s[i] \in S
    BY <1>1
  <1> HIDE DEF s
  <1>3. StateJobs(S, state) = [i \in 1..Len(s) |-> [kind |-> "state", file |-> s[i], to |-> state]]
    BY DEF StateJobs, s
  <1> DEFINE q == [i \in 1..Len(s) |-> [kind |-> "state", file |-> s[i], to |-> state]]
  <1>4. Len(q) = Len(s) /\ \A i \in 1..Len(s) : q[i] = [kind |-> "state", file |-> s[i], to |-> state]
    BY <1>2
  <1> HIDE DEF q
  <1>5. ASSUME NEW i \in 1..Len(q) PROVE ~Marks(q[i], f)
    <2>1. q[i] = [kind |-> "state", file |-> s[i], to |-> state] /\ s[i] \in S
      BY <1>2, <1>4
    <2> QED
      BY <2>1 DEF Marks
  <1> QED
    BY <1>3, <1>5 DEF q, Unmarked

\* What is started is running, and nothing else ends.
LEMMA StartRuns ==
    ASSUME NEW S \in SUBSET Files, Start(S)
    PROVE  \A f \in Files : (Running(f) \/ f \in S) => Running(f)'
  <1>1. transfers \subseteq transfers'
    BY DEF Start
  <1>2. ASSUME NEW f \in S PROVE Running(f)'
    <2>1. [file |-> f, n |-> started[f] + 1, stopped |-> FALSE] \in transfers'
      BY DEF Start
    <2> QED
      BY <2>1 DEF Running
  <1> QED
    BY <1>1, <1>2 DEF Running

\* Starting uploads keeps the other files quiet.
LEMMA SendFileTasksShown ==
    ASSUME IInv, ShownInv, counts.restarts = 0,
           NEW S \in SUBSET Files, NEW earlier \in Seq(SafeJobs), \A f \in Files : Unmarked(f, earlier),
           SendFileTasks(S, earlier), UNCHANGED row
    PROVE  \A f \in Files : Running(f)' \/ Quiet(f, jobs)'
  <1> SUFFICES ASSUME NEW f \in Files, ~Running(f)' PROVE Quiet(f, jobs')
    BY DEF Quiet
  <1> DEFINE marks == StateJobs(S, "Transferring")
  <1>1. jobs \in Seq(SafeJobs) /\ marks \in Seq(SafeJobs) /\ jobs \o earlier \in Seq(SafeJobs)
    BY StateJobsSafe, Concatenation DEF IInv, TransferStates
  <1>2. CASE support = "Supported"
    <2>1. Start(S) /\ jobs' = jobs \o earlier \o marks
      BY <1>2 DEF SendFileTasks
    <2>2. f \notin S /\ ~Running(f)
      BY <2>1, StartRuns
    <2>3. Quiet(f, jobs \o earlier)
      BY <1>1, <2>2, QuietConcat DEF ShownInv
    <2>4. Unmarked(f, marks)
      BY <2>2, StateJobsMark
    <2> HIDE DEF marks
    <2> QED
      BY <1>1, <2>1, <2>3, <2>4, QuietConcat
  <1>3. CASE support # "Supported"
    <2>1. jobs' = jobs \o earlier /\ ~Running(f)
      BY <1>3 DEF SendFileTasks, Running
    <2> QED
      BY <1>1, <2>1, QuietConcat DEF ShownInv
  <1> QED
    BY <1>2, <1>3

LEMMA SendPendingMessageShown ==
    ASSUME IInv, ShownInv, counts.restarts = 0, NEW files,
           NEW earlier \in Seq(SafeJobs), \A f \in Files : Unmarked(f, earlier),
           SendPendingMessage(files, earlier), UNCHANGED row
    PROVE  \A f \in Files : Running(f)' \/ Quiet(f, jobs)'
  <1>1. CASE connected /\ ~Uploaded(files)
    <2> DEFINE S == {f \in Files : files[f] = "Pending"}
    <2>1. SendFileTasks(S, earlier)
      BY <1>1 DEF SendPendingMessage, SendPendingFiles
    <2> HIDE DEF S
    <2>2. S \in SUBSET Files
      BY DEF S
    <2> QED
      BY <2>1, <2>2, SendFileTasksShown
  <1>2. CASE ~connected \/ Uploaded(files)
    <2> SUFFICES ASSUME NEW f \in Files, ~Running(f)' PROVE Quiet(f, jobs')
      BY DEF Quiet
    <2>1. ~Running(f) /\ jobs \in Seq(SafeJobs) /\ jobs \o earlier \in Seq(SafeJobs)
      BY <1>2, Concatenation DEF SendPendingMessage, Transmit, Running, IInv
    <2>2. Quiet(f, jobs \o earlier)
      BY <2>1, QuietConcat DEF ShownInv
    <2>3. CASE ~connected
      BY <2>2, <2>3 DEF SendPendingMessage
    <2>4. CASE connected /\ Uploaded(files)
      <3>1. PICK job \in Settlements : jobs' = jobs \o earlier \o <<job>>
        BY <2>4 DEF SendPendingMessage, Transmit, Settlements
      <3>2. <<job>> \in Seq(SafeJobs) /\ Unmarked(f, <<job>>)
        BY <3>1 DEF SafeJobs, Unmarked, Marks, Settlements
      <3> QED
        BY <2>1, <2>2, <3>1, <3>2, QuietConcat
    <2> QED
      BY <1>2, <2>3, <2>4
  <1> QED
    BY <1>1, <1>2

LEMMA DownloadFilesShown ==
    ASSUME IInv, ShownInv, counts.restarts = 0, NEW S \in SUBSET Files, NEW broken,
           DownloadFiles(S, broken), UNCHANGED row
    PROVE  \A f \in Files : Running(f)' \/ Quiet(f, jobs)'
  <1> SUFFICES ASSUME NEW f \in Files, ~Running(f)' PROVE Quiet(f, jobs')
    BY DEF Quiet
  <1>1. /\ StateJobs(S \ broken, "Transferring") \in Seq(SafeJobs)
        /\ StateJobs(S, "Pending") \in Seq(SafeJobs) /\ jobs \in Seq(SafeJobs)
    BY StateJobsSafe DEF TransferStates, IInv
  <1>2. CASE connected
    <2>1. Start(S \ broken) /\ jobs' = jobs \o StateJobs(S \ broken, "Transferring")
      BY <1>2 DEF DownloadFiles
    <2>2. f \notin S \ broken /\ ~Running(f)
      BY <2>1, StartRuns
    <2>3. Unmarked(f, StateJobs(S \ broken, "Transferring"))
      BY <2>2, StateJobsMark
    <2> QED
      BY <1>1, <2>1, <2>2, <2>3, QuietConcat DEF ShownInv
  <1>3. CASE ~connected
    <2>1. jobs' = jobs \o StateJobs(S, "Pending") /\ ~Running(f)
      BY <1>3 DEF DownloadFiles, Running
    <2>2. Unmarked(f, StateJobs(S, "Pending"))
      BY StateJobsMark
    <2> QED
      BY <1>1, <2>1, <2>2, QuietConcat DEF ShownInv
  <1> QED
    BY <1>2, <1>3

\* The user and the connection.
LEMMA ComposeShown == IInv /\ ShownInv /\ Compose => ShownInv'
  <1> SUFFICES ASSUME IInv, ShownInv, Compose PROVE ShownInv'
    OBVIOUS
  <1>1. DOMAIN counts' = DOMAIN counts /\ counts'.restarts = counts.restarts /\ UNCHANGED row
    BY Counting DEF Compose, Counted
  <1>2. <<[kind |-> "add"]>> \in Seq(SafeJobs) /\ \A f \in Files : Unmarked(f, <<[kind |-> "add"]>>)
    BY DEF SafeJobs, PlainJobs, Unmarked, Marks
  <1>3. counts.restarts = 0 => \A f \in Files : Running(f)' \/ Quiet(f, jobs)'
    BY <1>1, <1>2, SendPendingMessageShown DEF Compose
  <1> QED
    BY <1>1, <1>3 DEF ShownInv

LEMMA CancelShown == ASSUME NEW f \in Files PROVE IInv /\ ShownInv /\ Cancel(f) => ShownInv'
  <1> SUFFICES ASSUME IInv, ShownInv, Cancel(f) PROVE ShownInv'
    OBVIOUS
  <1>1. DOMAIN counts' = DOMAIN counts /\ counts'.restarts = counts.restarts /\ UNCHANGED row
    BY Counting DEF Cancel, Counted
  <1>2. [kind |-> "state", file |-> f, to |-> "CanceledByUser"] \in SafeJobs
    BY DEF SafeJobs, StateUpdates, TransferStates
  <1>3. ASSUME NEW g \in Files, counts.restarts = 0, ~Running(g)' PROVE Quiet(g, jobs')
    <2>1. CASE cache[f].n # 0
      <3>1. UNCHANGED jobs
        BY <2>1 DEF Cancel
      <3>2. transfers' = {[t EXCEPT !.stopped = @ \/ (t.file = f /\ t.n = cache[f].n)] : t \in transfers}
        BY <2>1 DEF Cancel
      <3>3. \A t \in transfers : \E u \in transfers' : u.file = t.file
        <4> TAKE t \in transfers
        <4> DEFINE u == [t EXCEPT !.stopped = @ \/ (t.file = f /\ t.n = cache[f].n)]
        <4>1. t \in Transfers
          BY DEF IInv, TransfersOK
        <4>2. u.file = t.file
          BY <4>1 DEF Transfers
        <4>3. u \in transfers'
          BY <3>2
        <4> QED
          BY <4>2, <4>3
      <3>4. ~Running(g)
        BY <1>3, <3>3 DEF Running
      <3> QED
        BY <1>3, <3>1, <3>4 DEF ShownInv
    <2>2. CASE cache[f].n = 0
      <3>1. /\ jobs' = Append(jobs, [kind |-> "state", file |-> f, to |-> "CanceledByUser"])
            /\ ~Running(g)
        BY <1>3, <2>2 DEF Cancel, Running
      <3>2. ~Marks([kind |-> "state", file |-> f, to |-> "CanceledByUser"], g)
        BY DEF Marks
      <3> QED
        BY <1>2, <1>3, <3>1, <3>2, QuietAppend DEF ShownInv, IInv
    <2> QED
      BY <2>1, <2>2
  <1>4. counts.restarts = 0 => \A g \in Files : Running(g)' \/ Quiet(g, jobs)'
    BY <1>1, <1>3 DEF Quiet
  <1> QED
    BY <1>1, <1>4 DEF ShownInv

LEMMA UploadAgainShown == ASSUME NEW f \in Files PROVE IInv /\ ShownInv /\ UploadAgain(f) => ShownInv'
  <1> SUFFICES ASSUME IInv, ShownInv, UploadAgain(f) PROVE ShownInv'
    OBVIOUS
  <1>1. DOMAIN counts' = DOMAIN counts /\ counts'.restarts = counts.restarts /\ UNCHANGED row
    BY Counting DEF UploadAgain, Counted
  <1>2. <<>> \in Seq(SafeJobs) /\ \A g \in Files : Unmarked(g, <<>>)
    BY DEF Unmarked
  <1>3. counts.restarts = 0 => \A g \in Files : Running(g)' \/ Quiet(g, jobs)'
    <2>1. {f} \in SUBSET Files /\ SendFileTasks({f}, <<>>)
      BY DEF UploadAgain
    <2> QED
      BY <1>1, <1>2, <2>1, SendFileTasksShown
  <1> QED
    BY <1>1, <1>3 DEF ShownInv

LEMMA DownloadAgainShown == ASSUME NEW f \in Files PROVE IInv /\ ShownInv /\ DownloadAgain(f) => ShownInv'
  <1> SUFFICES ASSUME IInv, ShownInv, DownloadAgain(f) PROVE ShownInv'
    OBVIOUS
  <1>1. DOMAIN counts' = DOMAIN counts /\ counts'.restarts = counts.restarts /\ UNCHANGED row
    BY Counting DEF DownloadAgain, Counted
  <1>2. counts.restarts = 0 => \A g \in Files : Running(g)' \/ Quiet(g, jobs)'
    <2>1. {f} \in SUBSET Files /\ DownloadFiles({f}, {})
      BY DEF DownloadAgain
    <2> QED
      BY <1>1, <2>1, DownloadFilesShown
  <1> QED
    BY <1>1, <1>2 DEF ShownInv

\* Queueing a job that marks nothing, while transfers go on.
LEMMA QueueingShown ==
    ASSUME IInv, ShownInv, NEW job \in SafeJobs, \A f \in Files : ~Marks(job, f),
           jobs' = Append(jobs, job), UNCHANGED <<row, transfers>>
    PROVE  counts.restarts = 0 => \A f \in Files : Running(f)' \/ Quiet(f, jobs)'
  <1> SUFFICES ASSUME counts.restarts = 0, NEW f \in Files, ~Running(f)' PROVE Quiet(f, jobs')
    BY DEF Quiet
  <1>1. ~Running(f) /\ jobs \in Seq(SafeJobs)
    BY DEF Running, IInv
  <1>2. Quiet(f, jobs)
    BY <1>1 DEF ShownInv
  <1> QED
    BY <1>1, <1>2, QuietAppend

LEMMA ConnectionShown == IInv /\ ShownInv /\ (Receive \/ Connect \/ ServicesDiscovered) => ShownInv'
  <1> SUFFICES ASSUME IInv, ShownInv, Receive \/ Connect \/ ServicesDiscovered PROVE ShownInv'
    OBVIOUS
  <1>1. DOMAIN counts' = DOMAIN counts /\ counts'.restarts = counts.restarts
    BY Counting DEF Receive, Connect, ServicesDiscovered, Counted
  <1>2. PICK job \in PlainJobs : jobs' = Append(jobs, job) /\ UNCHANGED <<row, transfers>>
    BY DEF PlainJobs, Receive, Connect, ServicesDiscovered
  <1>3. job \in SafeJobs /\ \A f \in Files : ~Marks(job, f)
    BY <1>2 DEF SafeJobs, PlainJobs, Marks
  <1>4. counts.restarts = 0 => \A f \in Files : Running(f)' \/ Quiet(f, jobs)'
    BY <1>2, <1>3, QueueingShown
  <1> QED
    BY <1>1, <1>2, <1>4 DEF ShownInv

\* The end of the last transfer of a file is queued after all of its starts.
LEMMA TransferFinishedShown ==
    ASSUME NEW t \in transfers PROVE IInv /\ ShownInv /\ TransferFinished(t) => ShownInv'
  <1> SUFFICES ASSUME IInv, ShownInv, TransferFinished(t) PROVE ShownInv'
    OBVIOUS
  <1>1. DOMAIN counts' = DOMAIN counts /\ counts'.restarts = counts.restarts
    BY Counting DEF TransferFinished
  <1>2. PICK to \in TransferStates :
           jobs' = Append(jobs, [kind |-> "finished", file |-> t.file, n |-> t.n, to |-> to])
    BY DEF TransferFinished, TransferStates
  <1>3. UNCHANGED row /\ jobs \in Seq(SafeJobs) /\ transfers' = transfers \ {t}
    BY DEF TransferFinished, IInv
  <1> DEFINE job == [kind |-> "finished", file |-> t.file, n |-> t.n, to |-> to]
  <1>4. job.kind = "finished" /\ job.file = t.file
    OBVIOUS
  <1> HIDE DEF job
  <1>5. /\ Len(jobs') = Len(jobs) + 1 /\ Len(jobs) \in Nat /\ jobs'[Len(jobs) + 1] = job
        /\ \A i \in 1..Len(jobs) : jobs'[i] = jobs[i]
    BY <1>2, <1>3 DEF job
  <1>6. ASSUME NEW f \in Files, counts.restarts = 0, ~Running(f)' PROVE Quiet(f, jobs')
    <2>1. CASE f = t.file
      <3>1. Len(jobs) + 1 \in 1..Len(jobs') /\ \A k \in 1..Len(jobs') : ~(k > Len(jobs) + 1)
        BY <1>5
      <3>2. Ended(f, jobs')
        BY <1>4, <1>5, <2>1, <3>1 DEF Ended
      <3> QED
        BY <3>2 DEF Quiet
    <2>2. CASE f # t.file
      <3>1. ~Running(f)
        BY <1>3, <1>6, <2>2 DEF Running
      <3>2. Quiet(f, jobs)
        BY <1>6, <3>1 DEF ShownInv
      <3>3. \A k \in 1..Len(jobs') : k \in 1..Len(jobs) \/ (k = Len(jobs) + 1 /\ ~Marks(jobs'[k], f))
        BY <1>4, <1>5 DEF Marks
      <3>4. CASE row.state[f] # "Transferring" /\ Unmarked(f, jobs)
        <4>1. Unmarked(f, jobs')
          BY <1>5, <3>3, <3>4 DEF Unmarked
        <4> QED
          BY <3>4, <4>1 DEF Quiet
      <3>5. CASE Ended(f, jobs)
        <4>1. PICK i \in 1..Len(jobs) : /\ jobs[i].kind = "finished" /\ jobs[i].file = f
                                        /\ \A k \in 1..Len(jobs) : k > i => ~Marks(jobs[k], f)
          BY <3>5 DEF Ended
        <4>2. i \in 1..Len(jobs') /\ jobs'[i] = jobs[i]
          BY <1>5
        <4>3. \A k \in 1..Len(jobs') : k > i => ~Marks(jobs'[k], f)
          BY <1>5, <3>3, <4>1
        <4>4. Ended(f, jobs')
          BY <4>1, <4>2, <4>3 DEF Ended
        <4> QED
          BY <4>4 DEF Quiet
      <3> QED
        BY <3>2, <3>4, <3>5 DEF Quiet
    <2> QED
      BY <2>1, <2>2
  <1>7. counts.restarts = 0 => \A f \in Files : Running(f)' \/ Quiet(f, jobs)'
    BY <1>3, <1>6 DEF Quiet
  <1> QED
    BY <1>1, <1>3, <1>7 DEF ShownInv

LEMMA DisconnectShown == IInv /\ ShownInv /\ Disconnect => ShownInv'
  <1> SUFFICES ASSUME IInv, ShownInv, Disconnect PROVE ShownInv'
    OBVIOUS
  <1>1. /\ transfers' = {[t EXCEPT !.stopped = @ \/ t.n = cache[t.file].n] : t \in transfers}
        /\ UNCHANGED <<row, jobs, counts>>
    BY DEF Disconnect
  <1>2. \A t \in transfers : \E u \in transfers' : u.file = t.file
    <2> TAKE t \in transfers
    <2> DEFINE u == [t EXCEPT !.stopped = @ \/ t.n = cache[t.file].n]
    <2>1. t \in Transfers
      BY DEF IInv, TransfersOK
    <2>2. u.file = t.file
      BY <2>1 DEF Transfers
    <2>3. u \in transfers'
      BY <1>1
    <2> QED
      BY <2>2, <2>3
  <1>3. \A f \in Files : Running(f) => Running(f)'
    BY <1>2 DEF Running
  <1> QED
    BY <1>1, <1>3 DEF ShownInv, Quiet

\* The database thread.
LEMMA RunJobShown == IInv /\ ShownInv /\ RunJob => ShownInv'
  <1> SUFFICES ASSUME IInv, ShownInv, RunJob PROVE ShownInv'
    OBVIOUS
  <1> DEFINE job == Head(jobs)
  <1>1. /\ jobs \in Seq(SafeJobs) /\ jobs # <<>> /\ jobs' = Tail(jobs)
        /\ row' = RowAfter(job) /\ UNCHANGED <<transfers, counts>>
    BY DEF IInv, RunJob
  <1>2. /\ job \in SafeJobs /\ job = jobs[1] /\ Len(jobs) \in Nat \ {0} /\ Len(jobs') = Len(jobs) - 1
        /\ \A i \in 1..Len(jobs') : i + 1 \in 1..Len(jobs) /\ jobs'[i] = jobs[i + 1]
    BY <1>1
  <1> HIDE DEF job
  <1>3. row.state \in [Files -> TransferStates] /\ row \in Rows
    BY DEF IInv, SafeStates
  \* The state of a file afterwards.
  <1>4. ASSUME NEW f \in Files
        PROVE  \/ row'.state[f] = row.state[f] /\ ~(row.stored /\ job.kind \in {"state", "finished"} /\ job.file = f)
               \/ row'.state[f] = "Done"
               \/ row.stored /\ job.kind \in {"state", "finished"} /\ job.file = f /\ row'.state[f] = job.to
    <2>1. CASE job.kind \in {"state", "finished"} /\ row.stored
      <3>1. row' = [row EXCEPT !.state[job.file] = job.to, !.local[job.file] = @ \/ job.to = "Done"]
        BY <1>1, <2>1 DEF RowAfter
      <3>2. row'.state = [row.state EXCEPT ![job.file] = job.to]
        BY <1>3, <3>1 DEF Rows
      <3> QED
        BY <1>3, <2>1, <3>2
    <2>2. CASE job.kind = "notDownloaded"
      <3>1. row'.state = [g \in Files |-> "Done"]
        BY <1>1, <1>3, <2>2 DEF RowAfter, Rows
      <3> QED
        BY <3>1
    <2>3. CASE ~(job.kind \in {"state", "finished"} /\ row.stored) /\ job.kind # "notDownloaded"
      <3>1. row'.state = row.state
        BY <1>1, <1>3, <2>3 DEF RowAfter, Rows
      <3> QED
        BY <2>3, <3>1
    <2> QED
      BY <2>1, <2>2, <2>3
  <1>5. row.stored => row'.stored
    BY <1>1, <1>3 DEF RowAfter, Rows
  <1>6. job.kind = "finished" => job.to # "Transferring"
    BY <1>2 DEF SafeJobs, PlainJobs, StateUpdates, Ends, Successes, Settlements, OwnJobs
  <1>7. ASSUME counts.restarts = 0, ~row'.stored, NEW f \in Files PROVE row'.state[f] # "Transferring"
    <2>1. row.state[f] # "Transferring" /\ ~row.stored
      BY <1>5, <1>7 DEF ShownInv
    <2> QED
      BY <1>4, <2>1
  <1>8. ASSUME counts.restarts = 0, NEW f \in Files, ~Running(f)' PROVE Quiet(f, jobs)'
    <2>1. Quiet(f, jobs)
      BY <1>1, <1>8 DEF Running, ShownInv
    <2>2. CASE row.state[f] # "Transferring" /\ Unmarked(f, jobs)
      <3>1. ~Marks(job, f)
        BY <1>2, <2>2 DEF Unmarked
      <3>2. row'.state[f] # "Transferring"
        BY <1>4, <1>6, <2>2, <3>1 DEF Marks
      <3>3. Unmarked(f, jobs')
        BY <1>2, <2>2 DEF Unmarked
      <3> QED
        BY <3>2, <3>3 DEF Quiet, Unmarked
    <2>3. CASE Ended(f, jobs)
      <3>1. PICK i \in 1..Len(jobs) : /\ jobs[i].kind = "finished" /\ jobs[i].file = f
                                      /\ \A k \in 1..Len(jobs) : k > i => ~Marks(jobs[k], f)
        BY <2>3 DEF Ended
      <3>2. CASE i = 1
        <4>1. Unmarked(f, jobs')
          BY <1>2, <3>1, <3>2 DEF Unmarked
        <4>2. job.kind = "finished" /\ job.file = f
          BY <1>2, <3>1, <3>2
        <4>3. row'.state[f] # "Transferring"
          BY <1>4, <1>6, <1>8, <4>2 DEF ShownInv
        <4> QED
          BY <4>1, <4>3 DEF Quiet, Unmarked
      <3>3. CASE i # 1
        <4>1. i - 1 \in 1..Len(jobs') /\ jobs'[i - 1] = jobs[i]
          BY <1>2, <3>3
        <4>2. \A k \in 1..Len(jobs') : k > i - 1 => ~Marks(jobs'[k], f)
          BY <1>2, <3>1
        <4>3. Ended(f, jobs)'
          BY <3>1, <4>1, <4>2 DEF Ended
        <4> QED
          BY <4>3 DEF Quiet
      <3> QED
        BY <3>2, <3>3
    <2> QED
      BY <2>1, <2>2, <2>3 DEF Quiet
  <1> QED
    BY <1>1, <1>7, <1>8 DEF ShownInv

\* Continuations.
LEMMA MessageAddedShown == IInv /\ ShownInv /\ MessageAdded => ShownInv'
  <1> SUFFICES ASSUME IInv, ShownInv, MessageAdded PROVE ShownInv'
    OBVIOUS
  <1>1. CASE AutomaticDownloads
    <2>1. PICK broken \in SUBSET Files : Breaking(Files, broken) /\ DownloadFiles(Files, broken)
      BY <1>1 DEF MessageAdded
    <2>2. DOMAIN counts' = DOMAIN counts /\ counts'.restarts = counts.restarts /\ UNCHANGED row
      BY <2>1, Counting DEF Breaking, MessageAdded
    <2>3. counts.restarts = 0 => \A f \in Files : Running(f)' \/ Quiet(f, jobs)'
      BY <2>1, <2>2, DownloadFilesShown
    <2> QED
      BY <2>2, <2>3 DEF ShownInv
  <1>2. CASE ~AutomaticDownloads
    <2>1. ~row.own
      <3>1. Head(results) \in SafeResults /\ Head(results).kind = "added"
        BY HandlesCorrect DEF MessageAdded
      <3> QED
        BY <3>1 DEF SafeResults
    <2>2. [kind |-> "notDownloaded"] \in SafeJobs /\ \A f \in Files : ~Marks([kind |-> "notDownloaded"], f)
      BY <2>1 DEF SafeJobs, OwnJobs, Marks
    <2>3. /\ jobs' = Append(jobs, [kind |-> "notDownloaded"])
          /\ UNCHANGED <<transfers, counts, row>>
      BY <1>2 DEF MessageAdded
    <2>4. counts.restarts = 0 => \A f \in Files : Running(f)' \/ Quiet(f, jobs)'
      BY <2>2, <2>3, QueueingShown
    <2> QED
      BY <2>3, <2>4 DEF ShownInv
  <1> QED
    BY <1>1, <1>2

LEMMA PendingDownloadsShown == IInv /\ ShownInv /\ PendingDownloads => ShownInv'
  <1> SUFFICES ASSUME IInv, ShownInv, PendingDownloads PROVE ShownInv'
    OBVIOUS
  <1> DEFINE S == Head(results).files
  <1>1. S \in SUBSET Files
    <2>1. Head(results) \in SafeResults /\ Head(results).kind = "downloads"
      BY HandlesCorrect DEF PendingDownloads
    <2> QED
      BY <2>1 DEF SafeResults
  <1>2. PICK broken \in SUBSET S : Breaking(S, broken) /\ DownloadFiles(S, broken)
    BY DEF PendingDownloads
  <1>3. UNCHANGED row
    BY DEF PendingDownloads
  <1> HIDE DEF S
  <1>4. DOMAIN counts' = DOMAIN counts /\ counts'.restarts = counts.restarts
    BY <1>2, Counting DEF Breaking
  <1>5. counts.restarts = 0 => \A f \in Files : Running(f)' \/ Quiet(f, jobs)'
    BY <1>1, <1>2, <1>3, DownloadFilesShown
  <1> QED
    BY <1>3, <1>4, <1>5 DEF ShownInv

LEMMA PendingMessageShown == IInv /\ ShownInv /\ PendingMessage => ShownInv'
  <1> SUFFICES ASSUME IInv, ShownInv, PendingMessage PROVE ShownInv'
    OBVIOUS
  <1>1. UNCHANGED <<row, counts>> /\ SendPendingMessage(Head(results).files, <<>>)
    BY DEF PendingMessage
  <1>2. <<>> \in Seq(SafeJobs) /\ \A f \in Files : Unmarked(f, <<>>)
    BY DEF Unmarked
  <1>3. counts.restarts = 0 => \A f \in Files : Running(f)' \/ Quiet(f, jobs)'
    BY <1>1, <1>2, SendPendingMessageShown
  <1> QED
    BY <1>1, <1>3 DEF ShownInv

LEMMA UploadStoredShown == IInv /\ ShownInv /\ UploadStored => ShownInv'
  <1> SUFFICES ASSUME IInv, ShownInv, UploadStored PROVE ShownInv'
    OBVIOUS
  <1>1. UNCHANGED <<row, transfers, counts>>
    BY DEF UploadStored
  <1>2. CASE UNCHANGED jobs
    BY <1>1, <1>2 DEF ShownInv, Quiet, Running
  <1>3. CASE jobs' = Append(jobs, [kind |-> "fetchMessage"])
    <2>1. row.own
      <3>1. Head(results) \in SafeResults /\ Head(results).kind = "uploaded"
        BY HandlesCorrect DEF UploadStored
      <3> QED
        BY <3>1 DEF SafeResults
    <2>2. [kind |-> "fetchMessage"] \in SafeJobs /\ \A f \in Files : ~Marks([kind |-> "fetchMessage"], f)
      BY <2>1 DEF SafeJobs, OwnJobs, Marks
    <2>3. counts.restarts = 0 => \A f \in Files : Running(f)' \/ Quiet(f, jobs)'
      BY <1>1, <1>3, <2>2, QueueingShown
    <2> QED
      BY <1>1, <2>3 DEF ShownInv
  <1> QED
    BY <1>2, <1>3 DEF UploadStored

LEMMA MaybeSendShown == IInv /\ ShownInv /\ MaybeSend => ShownInv'
  <1> SUFFICES ASSUME IInv, ShownInv, MaybeSend PROVE ShownInv'
    OBVIOUS
  <1>1. UNCHANGED <<row, transfers, counts>>
    BY DEF MaybeSend, Transmit
  <1>2. CASE UNCHANGED jobs
    BY <1>1, <1>2 DEF ShownInv, Quiet, Running
  <1>3. CASE Transmit(<<>>)
    <2> DEFINE job == [kind |-> "settle", to |-> IF connected THEN "Sent" ELSE "Error"]
    <2>1. job \in Settlements /\ jobs' = jobs \o <<>> \o <<job>>
      BY <1>3 DEF Transmit, Settlements
    <2> HIDE DEF job
    <2>2. job \in SafeJobs /\ \A f \in Files : ~Marks(job, f)
      BY <2>1 DEF SafeJobs, Settlements, Marks
    <2>3. jobs' = Append(jobs, job)
      BY <2>1, <2>2 DEF IInv
    <2>4. counts.restarts = 0 => \A f \in Files : Running(f)' \/ Quiet(f, jobs)'
      BY <1>1, <2>2, <2>3, QueueingShown
    <2> QED
      BY <1>1, <2>4 DEF ShownInv
  <1> QED
    BY <1>2, <1>3 DEF MaybeSend

LEMMA RestartShown == IInv /\ ShownInv /\ Restart => ShownInv'
  <1> SUFFICES ASSUME ShownInv, Restart PROVE ShownInv'
    OBVIOUS
  <1>1. DOMAIN counts' = DOMAIN counts /\ counts'.restarts = counts.restarts + 1
    BY DEF Restart, Counted, ShownInv
  <1> QED
    BY <1>1 DEF ShownInv

LEMMA InitShown == Init => ShownInv
  <1> SUFFICES ASSUME Init PROVE ShownInv
    OBVIOUS
  <1>1. counts = [composed |-> 0, cancels |-> 0, repeats |-> 0, failures |-> 0,
                  connections |-> 0, restarts |-> 0]
    BY DEF Init
  <1>2. \A f \in Files : row.state[f] = "Pending"
    BY DEF Init
  <1>3. \A f \in Files : Unmarked(f, jobs)
    BY DEF Init, Unmarked
  <1> QED
    BY <1>1, <1>2, <1>3 DEF ShownInv, Quiet

-----------------------------------------------------------------------------
(* Theorems.                                                               *)

LEMMA NextCorrect == IInv /\ [Next]_vars => IInv'
  <1> SUFFICES ASSUME IInv, [Next]_vars PROVE IInv'
    OBVIOUS
  <1>1. CASE Next
    BY <1>1, ComposeCorrect, ReceiveCorrect, CancelCorrect, UploadAgainCorrect, DownloadAgainCorrect,
       TransferFinishedCorrect, ConnectCorrect, ServicesDiscoveredCorrect, DisconnectCorrect,
       RunJobCorrect, MessageAddedCorrect, PendingDownloadsCorrect, PendingMessageCorrect,
       UploadStoredCorrect, MaybeSendCorrect, RestartCorrect
       DEF Next
  <1>2. CASE UNCHANGED vars
    <2>1. UNCHANGED <<row, jobs, results, uploaded, sent, SafeJobs, SafeStates, SafeResults>>
      BY <1>2, SafeUnchanged DEF vars
    <2>2. TransfersOK' /\ JoinsOK' /\ RestOK'
      BY <1>2 DEF vars, IInv, TransfersOK, JoinsOK, RestOK
    <2> QED
      BY <2>1, <2>2 DEF IInv, SentWithFiles
  <1> QED
    BY <1>1, <1>2

LEMMA NextShown == IInv /\ ShownInv /\ [Next]_vars => ShownInv'
  <1> SUFFICES ASSUME IInv, ShownInv, [Next]_vars PROVE ShownInv'
    OBVIOUS
  <1>1. CASE Next
    BY <1>1, ComposeShown, ConnectionShown, CancelShown, UploadAgainShown, DownloadAgainShown,
       TransferFinishedShown, DisconnectShown, RunJobShown, MessageAddedShown, PendingDownloadsShown,
       PendingMessageShown, UploadStoredShown, MaybeSendShown, RestartShown
       DEF Next
  <1>2. CASE UNCHANGED vars
    BY <1>2 DEF vars, ShownInv, Quiet, Running
  <1> QED
    BY <1>1, <1>2

\* For any number of files, cancellations, repetitions, failures and connections, all variables have
\* their types, and a file is only shown as being transferred while it is, unless the application
\* was terminated (FileSharingController, MessageDb::updateMessage()).
THEOREM TransfersCorrect == Spec => []TransferInv
  <1>1. IInv => TypeOK
    BY DEF IInv, TypeOK, TransfersOK, JoinsOK, RestOK
  <1>2. ShownInv => TransferringIsRunning
    <2> SUFFICES ASSUME ShownInv, Settled, counts.restarts = 0,
                        NEW f \in Files, row.state[f] = "Transferring"
                 PROVE  Running(f)
      BY DEF TransferringIsRunning, Running
    <2>1. ~Ended(f, jobs)
      BY DEF Settled, Ended
    <2> QED
      BY <2>1 DEF ShownInv, Quiet
  <1>3. IInv /\ ShownInv => TransferInv
    BY <1>1, <1>2 DEF TransferInv
  <1> QED
    BY InitCorrect, InitShown, NextCorrect, NextShown, <1>3, PTL DEF Spec

\* For any number of files, cancellations, repetitions, failures, connections and terminations, a
\* message is not sent before each of its files was uploaded (maybeSendPendingMessage() and
\* sendPendingFiles()).
THEOREM SentCorrect == Spec => []SentWithFiles
  <1>1. IInv => SentWithFiles
    BY DEF IInv
  <1> QED
    BY InitCorrect, NextCorrect, <1>1, PTL DEF Spec

=============================================================================
