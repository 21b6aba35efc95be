------------------------------- MODULE Migration -------------------------------
(***************************************************************************)
(* The migration of an account to another one (AccountController,          *)
(* AccountMigrationController): data and settings of the old account are   *)
(* exported, the user adds a new account, the data are imported into it,   *)
(* the settings are applied to its contacts once these are stored, and the *)
(* move is published and told to the contacts.  After an import that fails *)
(* the exported data are kept in a file for another attempt.               *)
(*                                                                         *)
(* Of the settings, one decision per contact stands for all.               *)
(***************************************************************************)
EXTENDS ClientPart

CONSTANTS
    OldContacts

ASSUME MigrationAssumption == IsFiniteSet(OldContacts)

VARIABLES
    migration,      \* m_migrationController: its phase, "none" without one, and m_exportData
    exportFile,     \* diskAccountFilePath(): "none", "broken" or "saved", and what it holds
    oldAccount,     \* its settings for its contacts, and whether it is connected
    newAccount,     \* how far it is added, whether it is connected, whether its next connection
                    \* ends the migration
    imported,       \* contacts that are in the new account's roster on the server
    items,          \* those in table "chats": "absent", "stored" or "shown" by RosterModel as well
    applied,        \* settings of the new account's items, "default" for the others
    awaited,        \* contacts whose settings have not been applied yet by the running migration
    toldOfMove,           \* contacts who were told of the move; whether it is published
    unsaved         \* history: exported data could not be imported and neither be written

migrationVars == <<migration, exportFile, oldAccount, newAccount, imported, items, applied, awaited,
                   toldOfMove, unsaved>>

NoData == [c \in {} |-> {}]
NoMigration == [phase |-> "none", data |-> NoData]
NoFile == [state |-> "none", data |-> NoData]
BrokenFile == [NoFile EXCEPT !.state = "broken"]
Saved(data) == [state |-> "saved", data |-> data]
NoAccount == [state |-> "none", connected |-> FALSE, awaited |-> FALSE]

MigrationInit ==
    /\ migration = NoMigration /\ exportFile = NoFile
    /\ oldAccount \in [settings : [OldContacts -> {"muted", "loud"}], connected : {TRUE}]
    /\ newAccount = NoAccount /\ imported = {}
    /\ items = [c \in OldContacts |-> "absent"] /\ applied = [c \in OldContacts |-> "default"]
    /\ awaited = {} /\ toldOfMove = [contacts |-> {}, published |-> FALSE] /\ unsaved = FALSE

Phase(p) == migration.phase = p
EnterPhase(p) == migration' = [migration EXCEPT !.phase = p]
\* cancelMigration(): the controller is deleted.
CancelMigration == migration' = NoMigration

-----------------------------------------------------------------------------
(* Export.                                                                 *)

\* startMigration() while no account is being added: the data of an earlier attempt are used if
\* there are any.
StartMigration ==
    /\ Phase("none") /\ newAccount.state # "created" /\ Settled /\ Step
    /\ IF ~oldAccount.connected \/ exportFile.state = "broken" THEN UNCHANGED migration
       ELSE IF exportFile.state = "saved"
       THEN migration' = [phase |-> "waiting", data |-> exportFile.data]
       ELSE EnterPhase("exporting")
    /\ UNCHANGED <<exportFile, oldAccount, newAccount, imported, items, applied, awaited,
                   toldOfMove, unsaved, jobs, results, requests, failures>>

\* exportData() returns: exportClientSettings() adds the settings.
Exported ==
    /\ Phase("exporting")
    /\ \/ /\ oldAccount.connected
          /\ migration' = [phase |-> "waiting", data |-> oldAccount.settings]
          /\ UNCHANGED failures
       \/ /\ CancelMigration
          /\ \/ oldAccount.connected /\ Fail
             \/ ~oldAccount.connected /\ UNCHANGED failures
    /\ UNCHANGED <<exportFile, oldAccount, newAccount, imported, items, applied, awaited,
                   toldOfMove, unsaved, jobs, results, requests, steps>>

-----------------------------------------------------------------------------
(* The new account.                                                        *)

\* finalizeMigration()
FinalizeMigration ==
    /\ EnterPhase("importing")
    /\ requests' = <<[op |-> "import"]>>

\* createUninitializedAccount() on the page that is opened after the export; another account is
\* needed for another attempt.
CreateAccount ==
    /\ Phase("waiting") /\ newAccount.state # "created" /\ ~toldOfMove.published /\ Settled
    /\ Step
    /\ newAccount' = [NoAccount EXCEPT !.state = "created"]
    /\ imported' = {}
    /\ items' = [c \in OldContacts |-> "absent"] /\ applied' = [c \in OldContacts |-> "default"]
    /\ UNCHANGED <<migration, exportFile, oldAccount, awaited, toldOfMove, unsaved, jobs, results,
                   requests, failures>>

\* discardUninitializedAccount()
DiscardAccount ==
    /\ newAccount.state = "created" /\ Step
    /\ newAccount' = NoAccount
    /\ CancelMigration
    /\ UNCHANGED <<exportFile, oldAccount, imported, items, applied, awaited, toldOfMove, unsaved,
                   jobs, results, requests, failures>>

\* handleRegistrationSucceeded(), or the first login, stores the account.
StoreAccount(loggedIn) ==
    /\ newAccount.state = "created" /\ Step
    /\ newAccount' = [newAccount EXCEPT !.state = "stored", !.connected = loggedIn]
    /\ jobs' = Append(jobs, [op |-> "add account"])
    /\ UNCHANGED <<migration, exportFile, oldAccount, imported, items, applied, awaited, toldOfMove,
                   unsaved, results, requests, failures>>

\* handleAccountAdded(): the migration goes on with the next connection.
HandleAccountAdded ==
    /\ newAccount' = [newAccount EXCEPT !.awaited = @ \/ ~Phase("none")]
    /\ UNCHANGED <<items, awaited, jobs>>

\* Connections are made and lost.  Requests of a lost connection fail.
ChangeNewConnection ==
    /\ newAccount.state = "stored" /\ Step
    /\ ~(newAccount.awaited /\ Phase("none"))       \* the deleted controller would be used
    /\ newAccount' = [newAccount EXCEPT !.connected = ~@, !.awaited = @ /\ newAccount.connected]
    /\ IF newAccount.awaited /\ ~newAccount.connected THEN FinalizeMigration
       ELSE UNCHANGED <<migration, requests>>
    /\ UNCHANGED <<exportFile, oldAccount, imported, items, applied, awaited, toldOfMove, unsaved,
                   jobs, results, failures>>

ChangeOldConnection ==
    /\ Step
    /\ oldAccount' = [oldAccount EXCEPT !.connected = ~@]
    /\ UNCHANGED <<migration, exportFile, newAccount, imported, items, applied, awaited, toldOfMove,
                   unsaved, jobs, results, requests, failures>>

-----------------------------------------------------------------------------
(* Import.                                                                 *)

\* saveAccountDataToDisk(): the file cannot be opened, cannot be written, or is written.
SavedToDisk ==
    \/ exportFile' = Saved(migration.data) /\ UNCHANGED <<unsaved, failures>>
    \/ exportFile' \in {exportFile, NoFile} /\ unsaved' = TRUE /\ Fail

\* A part of the contacts may be imported before an import fails.
ImportFails ==
    /\ imported' \in {imported \cup C : C \in SUBSET DOMAIN migration.data}
    /\ SavedToDisk
    /\ CancelMigration
    /\ UNCHANGED jobs

\* The file is removed, and the settings of the account are imported.
ImportSucceeds ==
    /\ imported' = imported \cup DOMAIN migration.data
    /\ exportFile' = NoFile /\ unsaved' = FALSE
    /\ EnterPhase("settings")
    /\ jobs' = Append(jobs, [op |-> "update account"])
    /\ UNCHANGED failures

ImportData ==
    /\ Phase("importing") /\ requests # <<>>
    /\ requests' = <<>>
    /\ \/ newAccount.connected /\ ImportSucceeds
       \/ ImportFails
    /\ UNCHANGED <<oldAccount, newAccount, items, applied, awaited, toldOfMove, results, steps>>

\* importClientSettings(): the settings of a contact that is not shown yet wait for its addition.
UpdateItems ==
    /\ awaited' = DOMAIN migration.data
    /\ jobs' = jobs \o SetToSeq({[op |-> "update", contact |-> c] :
                                    c \in {d \in awaited' : items[d] = "shown"}})
    /\ UNCHANGED <<newAccount, items>>

\* itemAdded() is handled by RosterModel and by what waits for it; it is missed by what came later.
ItemAdded(result) ==
    /\ items' = [items EXCEPT ![result.contact] = "shown"]
    /\ jobs' = IF result.contact \in awaited
               THEN Append(jobs, [op |-> "update", contact |-> result.contact]) ELSE jobs
    /\ UNCHANGED <<newAccount, awaited>>

\* The server tells the client about an imported contact: RosterDb adds it.
ContactImported(c) ==
    /\ newAccount.connected /\ c \in imported /\ items[c] = "absent"
    /\ \A i \in DOMAIN jobs : jobs[i] # [op |-> "add", contact |-> c]
    /\ jobs' = Append(jobs, [op |-> "add", contact |-> c])
    /\ UNCHANGED <<migrationVars, results, requests, steps, failures>>

RunMigrationJob ==
    LET job == Head(jobs)
    IN  /\ jobs # <<>>
        /\ jobs' = Tail(jobs)
        /\ \/ /\ job.op = "add account"
              /\ \/ results' = Append(results, job) /\ UNCHANGED failures
                 \/ UNCHANGED results /\ Fail                  \* the password is not stored
              /\ UNCHANGED <<items, applied>>
           \/ /\ job.op = "update account"
              /\ results' = Append(results, job)
              /\ UNCHANGED <<items, applied, failures>>
           \/ /\ job.op = "add"
              /\ items' = [items EXCEPT ![job.contact] = "stored"]
              /\ results' = Append(results, [job EXCEPT !.op = "added"])
              /\ UNCHANGED <<applied, failures>>
           \/ /\ job.op = "update"
              /\ applied' = [applied EXCEPT ![job.contact] = migration.data[job.contact]]
              /\ results' = Append(results, [job EXCEPT !.op = "updated"])
              /\ UNCHANGED <<items, failures>>
        /\ UNCHANGED <<migration, exportFile, oldAccount, newAccount, imported, awaited, toldOfMove,
                       unsaved, requests, steps>>

HandleMigrationResult ==
    LET result == Head(results)
    IN  /\ results # <<>>
        /\ results' = Tail(results)
        /\ \/ result.op = "add account" /\ HandleAccountAdded
           \/ result.op = "update account" /\ UpdateItems
           \/ result.op = "added" /\ ItemAdded(result)
           \/ /\ result.op = "updated"
              /\ awaited' = awaited \ {result.contact}
              /\ UNCHANGED <<newAccount, items, jobs>>
        /\ IF result.op \in {"update account", "updated"} /\ awaited' = {}
           THEN EnterPhase("publishing") ELSE UNCHANGED migration
        /\ UNCHANGED <<exportFile, oldAccount, imported, applied, toldOfMove, unsaved, requests,
                       steps, failures>>

-----------------------------------------------------------------------------
(* The move.                                                               *)

\* A fault: the move is published as soon as the data are imported.
PublishAtOnce == Phase("publishing") \/ Phase("settings")

MayPublish == Phase("publishing")

\* publishStatement() by the old account
Publish ==
    /\ MayPublish
    /\ \/ /\ oldAccount.connected
          /\ toldOfMove' = [toldOfMove EXCEPT !.published = TRUE]
          /\ IF DOMAIN migration.data = {} THEN CancelMigration ELSE EnterPhase("notifying")
          /\ UNCHANGED failures
       \/ /\ CancelMigration
          /\ \/ oldAccount.connected /\ Fail
             \/ ~oldAccount.connected /\ UNCHANGED failures
          /\ UNCHANGED toldOfMove
    /\ UNCHANGED <<exportFile, oldAccount, newAccount, imported, items, applied, awaited, unsaved,
                   jobs, results, requests, steps>>

\* notifyContacts(): all are told, and the first error is reported.
NotifyContacts ==
    /\ Phase("notifying")
    /\ CancelMigration
    /\ \/ /\ newAccount.connected
          /\ toldOfMove' = [toldOfMove EXCEPT !.contacts = OldContacts]
          /\ UNCHANGED failures
       \/ /\ newAccount.connected /\ Fail
          /\ toldOfMove' \in [contacts : SUBSET OldContacts, published : {TRUE}]
       \/ ~newAccount.connected /\ UNCHANGED <<toldOfMove, failures>>
    /\ UNCHANGED <<exportFile, oldAccount, newAccount, imported, items, applied, awaited, unsaved,
                   jobs, results, requests, steps>>

\* The process ends, maybe while the file is written, and is started again.
RestartMigration ==
    /\ Step
    /\ CancelMigration
    /\ exportFile' \in {exportFile} \cup IF Phase("importing") THEN {BrokenFile} ELSE {}
    /\ newAccount' = IF newAccount.state = "stored" /\ [op |-> "add account"] \notin ToSet(jobs)
                     THEN [newAccount EXCEPT !.connected = FALSE, !.awaited = FALSE] ELSE NoAccount
    /\ oldAccount' = [oldAccount EXCEPT !.connected = FALSE]
    /\ items' = [c \in OldContacts |-> IF items[c] = "absent" THEN "absent" ELSE "shown"]
    /\ unsaved' = (unsaved \/ Phase("importing"))
    /\ jobs' = <<>> /\ results' = <<>> /\ requests' = <<>> /\ awaited' = {}
    /\ UNCHANGED <<imported, applied, toldOfMove, failures>>

MigrationNext ==
    \/ StartMigration \/ Exported
    \/ CreateAccount \/ DiscardAccount
    \/ \E loggedIn \in BOOLEAN : StoreAccount(loggedIn)
    \/ ChangeNewConnection \/ ChangeOldConnection
    \/ ImportData
    \/ \E c \in OldContacts : ContactImported(c)
    \/ RunMigrationJob \/ HandleMigrationResult
    \/ Publish \/ NotifyContacts \/ RestartMigration

-----------------------------------------------------------------------------
(* Properties.                                                             *)

\* Nobody is told of a move before the new account has the contacts with the settings of the old
\* one.
ToldOfCompleteMove ==
    /\ toldOfMove.contacts # {} => toldOfMove.published
    /\ toldOfMove.published => imported = OldContacts /\ applied = oldAccount.settings

\* Exported data wait for their import, in the file or in a running migration, until it succeeded
\* or they could not be written.
ExportKept ==
    /\ imported # {} /\ imported # OldContacts /\ ~unsaved =>
          exportFile = Saved(oldAccount.settings) \/ migration.data = oldAccount.settings
    /\ Phase("settings") => migration.data = oldAccount.settings

=============================================================================
