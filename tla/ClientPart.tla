------------------------------ MODULE ClientPart ------------------------------
(***************************************************************************)
(* What the parts of the client that follow the server or the database     *)
(* have in common: the database thread runs its jobs in order, what a job  *)
(* returns or emits is handled later by the main thread, in order, and     *)
(* server and client exchange stanzas in order while they are connected.   *)
(***************************************************************************)
EXTENDS Naturals, FiniteSets, SequencesExt

CONSTANTS
    MaxFailures     \* bound on what fails

VARIABLES
    jobs,           \* of the database thread
    results,        \* not yet handled by the main thread
    requests,       \* to the server
    stream,         \* from the server
    connected,
    steps,          \* how often user, network, server and contacts may still do something
    failures

queues == <<jobs, results, requests, stream>>

Step == steps > 0 /\ steps' = steps - 1
Fail == failures < MaxFailures /\ failures' = failures + 1

\* The other elements of a queue of operations, if those of one kind are given up
AllBut(queue, op) ==
    LET kept == {i \in DOMAIN queue : queue[i].op # op}
    IN  [n \in 1..Cardinality(kept) |->
            queue[CHOOSE i \in kept : Cardinality({k \in kept : k <= i}) = n]]

Settled == jobs = <<>> /\ results = <<>>
Quiet == Settled /\ requests = <<>> /\ stream = <<>>

=============================================================================
