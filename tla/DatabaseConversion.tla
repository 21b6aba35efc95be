------------------------- MODULE DatabaseConversion -------------------------
(***************************************************************************)
(* The creation of the database and its conversion to the latest version   *)
(* (Database.cpp) with what survives the end of the process at any moment: *)
(* the database file, the settings file and the password manager.          *)
(*                                                                         *)
(* The conversion runs in one transaction on the database thread.  The     *)
(* account that versions before 48 kept in the settings file and the       *)
(* password that versions before 51 kept in the settings file or in the    *)
(* database are moved by migrations, that is, between stores of which only *)
(* one takes part in the transaction.                                      *)
(*                                                                         *)
(* The only row that is modelled is that of one account.                   *)
(***************************************************************************)
EXTENDS SchemaHistory

CONSTANTS
    Versions,         \* versions of the database found at the first start
    SettingsStates,   \* what the settings file holds for databases before version 48
    KeychainFails,    \* whether writing to the password manager may fail
    MaxRestarts       \* bound: ends of the process before the conversion is committed

ASSUME ConstantsAssumption ==
    /\ Versions \subseteq 0..Latest
    /\ SettingsStates \subseteq {"noAccount", "enabledAccount", "disabledAccount"}
    /\ KeychainFails \in BOOLEAN
    /\ MaxRestarts \in Nat

Passwords == {"none", "encoded", "plain", "empty"}

VARIABLES
    disk,           \* the database file: [schema, version, account, password]
    db,             \* what the process sees of it within its transaction
    version,        \* DatabasePrivate::version
    settingsFile, settings,   \* the account of the settings: in the file, in the process
    keychain,       \* the password of the account in the password manager
    phase,          \* "off", "converting", "ready", "aborted"
    restarts,
    initially       \* ghost: [account, password] - what the user had at the first start

vars == <<disk, db, version, settingsFile, settings, keychain, phase, restarts, initially>>

\* The row of an account holds what the accounts table held since version 40 ("stored") and what
\* was in the settings file before ("connection"); an account without a row is the empty set.
AccountParts == {"stored", "connection"}

-----------------------------------------------------------------------------
\* A database that a release with the version v has left.
Database(v, account, password) ==
    [schema |-> CASE v = 0 -> NoSchema [] v = Latest -> NewDatabase [] OTHER -> SchemaAt[v],
     version |-> v, account |-> account, password |-> password]

Init ==
    /\ \E v \in Versions, s \in SettingsStates, hadAccount \in BOOLEAN, stored \in BOOLEAN :
        /\ settingsFile = IF v \in 1..47 THEN s ELSE "noAccount"
        /\ v < 48 => ~hadAccount
        /\ stored => v \in 40..47 /\ s # "noAccount"
        /\ disk = Database(v, IF hadAccount THEN AccountParts ELSE IF stored THEN {"stored"} ELSE {},
                           IF ~hadAccount \/ v > 50 THEN "none" ELSE IF v = 50 THEN "plain" ELSE "encoded")
        /\ keychain = IF hadAccount /\ v > 50 THEN "plain" ELSE "none"
        /\ initially = [account |-> disk.account \cup
                                        IF settingsFile = "noAccount" THEN {} ELSE {"connection"},
                        password |-> IF hadAccount /\ v >= 50 THEN "database"
                                     ELSE IF hadAccount \/ settingsFile # "noAccount" THEN "earlier" ELSE "none"]
    /\ db = disk
    /\ settings = settingsFile
    /\ version = 0
    /\ phase = "off"
    /\ restarts = 0

-----------------------------------------------------------------------------
\* createTables(), loadDatabaseInfo(), needToConvert(): tables without "dbinfo" are those of version 1.
Start ==
    /\ phase = "off"
    /\ db' = disk
    /\ settings' = settingsFile
    /\ version' = disk.version
    /\ phase' = IF disk.version < Latest THEN "converting" ELSE "ready"
    /\ UNCHANGED <<disk, settingsFile, keychain, restarts, initially>>

\* convertDatabase() for a file without tables
CreateNew ==
    /\ phase = "converting" /\ version = 0
    /\ db' = [db EXCEPT !.schema = NewDatabase, !.version = Latest]
    /\ version' = Latest
    /\ UNCHANGED <<disk, settingsFile, settings, keychain, phase, restarts, initially>>

\* A fault: as for a column that only a later migration adds and whose value is not its default.
InsertedColumnsOfLater == {"jid", "credentials", "plainAuthAllowed"}

\* The columns of the row inserted for the account of the settings file (createUpdateRecord()):
\* those that differ from their defaults.  The password is no longer one of them.
InsertedColumns ==
    {"jid", "credentials", "userAgentDeviceId"} \cup IF settings = "disabledAccount" THEN {"enabled"} ELSE {}

\* The account of the settings file replaces the stored one.
Import(row) == [row EXCEPT !.account = {"connection"}, !.password = "none"]

\* parseAccountsFromQuery() takes the password from the password manager, not from the table.
DecodePassword(row) == [row EXCEPT !.password = IF row.account = {} THEN "none" ELSE "empty"]

DropPassword(row) == [row EXCEPT !.password = "none"]

\* What the password manager holds once the passwords of the table are written to it.
MovedPassword == IF db.account = {} THEN keychain ELSE IF db.password = "plain" THEN "plain" ELSE "empty"

\* What a migration does to the row of the account.
RowAfter(v, row) ==
    CASE v = 48 /\ settings # "noAccount" -> Import(row)
      [] v = 50 -> DecodePassword(row)
      [] v = 51 -> DropPassword(row)
      [] OTHER -> row

StatementsOf(v) ==
    IF v = 48 /\ settings # "noAccount" THEN Migration(v) \o <<Insert("accounts", InsertedColumns)>>
    ELSE Migration(v)

\* A fault: each statement is committed on its own.
MigrateWithoutTransaction ==
    /\ phase = "converting" /\ version \in 1..(Latest - 1)
    /\ \E schema \in {Executed(StatementsOf(version + 1), db.schema)} :
        /\ schema # NoSchema
        /\ db' = [RowAfter(version + 1, db) EXCEPT !.schema = schema]
    /\ disk' = db'
    /\ version' = version + 1
    /\ UNCHANGED <<settingsFile, settings, keychain, phase, restarts, initially>>

\* A migration whose statements can be executed.  Number 48 removes the settings it has imported,
\* number 51 waits for the password manager before it drops the column.
Migrate ==
    /\ phase = "converting" /\ version \in 1..(Latest - 1)
    /\ \E v \in {version + 1}, schema \in {Executed(StatementsOf(version + 1), db.schema)} :
        /\ schema # NoSchema
        /\ db' = [RowAfter(v, db) EXCEPT !.schema = schema]
        /\ version' = v
        /\ settings' = IF v = 48 THEN "noAccount" ELSE settings
        /\ keychain' = IF v = 51 THEN MovedPassword ELSE keychain
    /\ UNCHANGED <<disk, settingsFile, phase, restarts, initially>>

\* A fault: the settings are removed before the account is inserted.
AbortAfterRemoval ==
    /\ phase = "converting" /\ version \in 1..(Latest - 1)
    /\ \/ Executed(StatementsOf(version + 1), db.schema) = NoSchema
       \/ version + 1 = 51 /\ db.account # {} /\ KeychainFails
    /\ phase' = "aborted"
    /\ settings' = "noAccount" /\ settingsFile' = "noAccount"
    /\ UNCHANGED <<disk, db, version, keychain, restarts, initially>>

\* A failed statement (execQuery()) or a failed write to the password manager (number 51) ends the
\* process: the transaction is rolled back by the next one.
Abort ==
    /\ phase = "converting" /\ version \in 1..(Latest - 1)
    /\ \/ Executed(StatementsOf(version + 1), db.schema) = NoSchema
       \/ version + 1 = 51 /\ db.account # {} /\ KeychainFails
    /\ phase' = "aborted"
    /\ UNCHANGED <<disk, db, version, settingsFile, settings, keychain, restarts, initially>>

\* saveDatabaseInfo(), commit()
SaveAndCommit ==
    /\ phase = "converting" /\ version = Latest
    /\ db' = [db EXCEPT !.version = Latest]
    /\ disk' = db'
    /\ phase' = "ready"
    /\ UNCHANGED <<version, settingsFile, settings, keychain, restarts, initially>>

\* QSettings writes its changes when the event loop of the main thread gets to it.
WriteSettings ==
    /\ phase \in {"converting", "ready"} /\ settingsFile # settings
    /\ settingsFile' = settings
    /\ UNCHANGED <<disk, db, version, settings, keychain, phase, restarts, initially>>

\* The process ends without having committed, or after an abort, and is started again.
Restart ==
    /\ phase \in {"converting", "aborted"} /\ restarts < MaxRestarts
    /\ restarts' = restarts + 1
    /\ db' = disk
    /\ settings' = settingsFile
    /\ version' = 0
    /\ phase' = "off"
    /\ UNCHANGED <<disk, settingsFile, keychain, initially>>

Next == Start \/ CreateNew \/ Migrate \/ Abort \/ SaveAndCommit \/ WriteSettings \/ Restart

Spec == Init /\ [][Next]_vars

-----------------------------------------------------------------------------
(* Properties.                                                             *)

DatabaseType ==
    [schema : {NoSchema, NewDatabase} \cup {SchemaAt[v] : v \in 1..Latest},
     version : 0..Latest, account : SUBSET AccountParts, password : Passwords]

TypeOK ==
    /\ disk \in DatabaseType /\ db \in DatabaseType
    /\ version \in 0..Latest
    /\ {settingsFile, settings} \subseteq {"noAccount", "enabledAccount", "disabledAccount"}
    /\ keychain \in {"none", "plain", "empty"}
    /\ phase \in {"off", "converting", "ready", "aborted"}
    /\ restarts \in 0..MaxRestarts

\* Whenever the process ends, the file holds the tables of the version it says it has, so that the
\* next start applies exactly the missing migrations (transaction(), saveDatabaseInfo(), commit()).
AtomicConversion ==
    IF disk.version = Latest THEN disk.schema \in {NewDatabase, SchemaAt[Latest]}
    ELSE disk = Database(disk.version, disk.account, disk.password)

\* What is compared of two schemas: the tables with their columns and required columns.
Columns(schema) == [t \in DOMAIN schema |-> <<schema[t].columns, schema[t].required>>]
Keys(schema) == [t \in DOMAIN schema |-> schema[t].key]

\* A database converted from any version has the tables and columns of a new one, and columns
\* are required in the one if and only if they are in the other (DatabaseTest::conversion(),
\* which starts with version 3).
ConvertedAsCreated == phase = "ready" => Columns(db.schema) = Columns(NewDatabase)

\* No statement of a migration fails on the tables that the migrations before it have left.
ConversionSucceeds ==
    phase = "aborted" => Executed(StatementsOf(version + 1), db.schema) # NoSchema

\* The password of an account in a database of version 50 or later is always in the database or in
\* the password manager, whenever the process ends or the password manager fails (migration 51).
PasswordKept == initially.password = "database" => disk.password = "plain" \/ keychain = "plain"

\* A process that ends at any point, or a failing password manager, loses nothing.
ConversionInv == TypeOK /\ AtomicConversion /\ PasswordKept

\* The data of an account in the settings and in the database is in one of them whenever the
\* process is started.  It is not: migration 48 removes the settings before the account it has
\* inserted is committed.
AccountKept ==
    phase = "off" => initially.account \subseteq
        disk.account \cup IF settingsFile = "noAccount" THEN {} ELSE {"connection"}

\* The primary keys of a converted database are those of a new one.  They are not: the pre keys of
\* the accounts share one table whose key is only the ID of the pre key in a converted database.
KeysAsCreated == phase = "ready" => Keys(db.schema) = Keys(NewDatabase)

\* Once the account of the settings is imported, it still has its password.  createUpdateRecord()
\* no longer stores it and migration 50 asks the password manager for it.
PasswordImported == phase = "ready" /\ initially.password # "none" => keychain = "plain"

=============================================================================
