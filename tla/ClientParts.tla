------------------------------ MODULE ClientParts ------------------------------
(***************************************************************************)
(* Six parts of the client that keep what the server, the database and the *)
(* user interface have in step: the blocked addresses, the drafts, the     *)
(* list of messages of a chat, the contacts, the migration of an account   *)
(* and the group chats.                                                    *)
(*                                                                         *)
(* Each has its own tables, its own objects of the main thread and its own *)
(* stanzas, so each is checked by itself: one of them runs, the others     *)
(* stay as they are in the beginning.                                      *)
(***************************************************************************)
EXTENDS Blocklist, Drafts, MessageList, Roster, Migration, GroupChats

CONSTANTS
    BlocklistSteps, DraftsSteps, ListSteps, RosterSteps, MigrationSteps, GroupsSteps
                    \* bounds on what user, network, server and contacts do

VARIABLES
    part            \* the one that runs

vars == <<part, blockVars, draftVars, listVars, rosterVars, migrationVars, groupVars, queues,
          connected, steps, failures>>

Steps ==
    [blocklist |-> BlocklistSteps, drafts |-> DraftsSteps, list |-> ListSteps,
     roster |-> RosterSteps, migration |-> MigrationSteps, groups |-> GroupsSteps]

Init ==
    /\ part \in DOMAIN Steps /\ steps = Steps[part]
    /\ BlockInit /\ DraftsInit /\ ListInit
    /\ RosterInit /\ (part # "roster" => rosters = <<Nobody>>)
    /\ MigrationInit /\ (part # "migration" => \A c \in OldContacts : oldAccount.settings[c] = "loud")
    /\ GroupsInit /\ (part # "groups" => channels = NoGroups)
    /\ jobs = <<>> /\ results = <<>> /\ requests = <<>> /\ stream = <<>>
    /\ connected = FALSE /\ failures = 0

Next ==
    /\ \/ /\ part = "blocklist" /\ BlockNext
          /\ UNCHANGED <<draftVars, listVars, rosterVars, migrationVars, groupVars>>
       \/ /\ part = "drafts" /\ DraftsNext
          /\ UNCHANGED <<blockVars, listVars, rosterVars, migrationVars, groupVars>>
          /\ UNCHANGED <<requests, stream, connected, failures>>
       \/ /\ part = "list" /\ ListNext
          /\ UNCHANGED <<blockVars, draftVars, rosterVars, migrationVars, groupVars>>
          /\ UNCHANGED <<requests, stream>>
       \/ /\ part = "roster" /\ RosterNext
          /\ UNCHANGED <<blockVars, draftVars, listVars, migrationVars, groupVars>>
       \/ /\ part = "migration" /\ MigrationNext
          /\ UNCHANGED <<blockVars, draftVars, listVars, rosterVars, groupVars>>
          /\ UNCHANGED <<stream, connected>>
       \/ /\ part = "groups" /\ GroupsNext
          /\ UNCHANGED <<blockVars, draftVars, listVars, rosterVars, migrationVars>>
    /\ UNCHANGED part

Spec == Init /\ [][Next]_vars

-----------------------------------------------------------------------------
(* Properties.                                                             *)

\* What the user sees is what is stored, although pages, jobs and signals overtake user, server and
\* other clients: blocked addresses, contacts and their groups, chats with drafts, and the messages
\* of a chat without a gap or a repetition (BlockingController, RosterModel, MessageModel).
ShownAsStored ==
    /\ part = "blocklist" => BlocklistShown /\ BlocklistStored
    /\ part = "roster" => RosterShown
    /\ part = "drafts" => DraftsListed
    /\ part = "list" => ListContinuous

\* After failures, lost connections and restarts the client ends up with what the server has: its
\* blocklist, a roster version that is not ahead of the items, requests that can be answered, the
\* joined channels; no operation stays shown as running.
ServerFollowed ==
    /\ part = "blocklist" => BlocklistFetched
    /\ part = "roster" => VersionStored /\ AsksAnswerable
    /\ part = "groups" => GroupsStored /\ OperationsEnd /\ InvitedMayJoin /\ NoClash

\* Nothing that the user wrote, chose or exported is lost, gets into another chat or is announced
\* too early: drafts, settings of contacts, the data of an account that moves.
NothingLost ==
    /\ part = "drafts" => DraftsKept
    /\ part = "roster" => ChoicesKept
    /\ part = "migration" => ExportKept /\ ToldOfCompleteMove

=============================================================================
