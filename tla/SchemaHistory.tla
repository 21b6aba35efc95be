--------------------------- MODULE SchemaHistory ---------------------------
(***************************************************************************)
(* The schema of the SQLite database over all of its versions: the         *)
(* statements of each migration (Database::migrations()), the tables of    *)
(* version 3 (createV3Database()) and the tables of a new database         *)
(* (createNewDatabase()).                                                  *)
(*                                                                         *)
(* A table is the sets of its columns, of those that are NOT NULL and of   *)
(* those in its primary key, and the tables it references.  Types and the  *)
(* order of the columns are left out.  SQLite does not distinguish between *)
(* "Roster" and "roster" or "Messages" and "messages": here their names    *)
(* are in lower case.  A view is a table whose columns are those of its    *)
(* condition.                                                              *)
(***************************************************************************)
EXTENDS Naturals, Sequences, FiniteSets, SequencesExt

Latest == 61

Table(required, optional, key, references) ==
    [columns |-> required \cup optional, required |-> required, key |-> key, references |-> references]

View(columns) == Table({}, columns, {}, {"messages"})

-----------------------------------------------------------------------------
(* Statements.  A rebuild stands for the creation of a temporary table,    *)
(* the copying of the rows and the replacement of the table: columns are   *)
(* added, dropped and made required or optional.                           *)

Create(t, table)      == [kind |-> "create", table |-> t, as |-> table]
RemoveTable(t)        == [kind |-> "remove", table |-> t]
RenameTable(t, u)     == [kind |-> "rename", table |-> t, to |-> u]
RenameColumn(t, c, d) == [kind |-> "column", table |-> t, from |-> c, to |-> d]
Rebuild(t, added, dropped, required, key, references) ==
    [kind |-> "rebuild", table |-> t, added |-> added, dropped |-> dropped, required |-> required,
     key |-> key, references |-> references]
Add(t, columns)          == [kind |-> "add", table |-> t, columns |-> columns, required |-> FALSE]
AddRequired(t, columns)  == [kind |-> "add", table |-> t, columns |-> columns, required |-> TRUE]
Drop(t, columns)         == [kind |-> "drop", table |-> t, columns |-> columns]
Insert(t, columns)       == [kind |-> "insert", table |-> t, columns |-> columns]

\* Whether SQLite can execute a statement.
Executable(s, schema) ==
    /\ (s.kind # "create") = (s.table \in DOMAIN schema)
    /\ CASE s.kind = "rename"  -> s.to \notin DOMAIN schema
         [] s.kind = "column"  -> s.from \in schema[s.table].columns /\ s.to \notin schema[s.table].columns
         [] s.kind = "add"     -> s.columns \cap schema[s.table].columns = {}
         [] s.kind = "drop"    -> s.columns \subseteq schema[s.table].columns \ schema[s.table].key
         [] s.kind = "insert"  -> s.columns \subseteq schema[s.table].columns
         [] s.kind = "rebuild" -> /\ s.dropped \subseteq schema[s.table].columns
                                  /\ s.added \cap schema[s.table].columns = {}
                                  /\ s.required \cup s.key \subseteq
                                         (schema[s.table].columns \ s.dropped) \cup s.added
         [] OTHER -> TRUE

Renamed(S, old, new) == IF old \in S THEN (S \ {old}) \cup {new} ELSE S

\* A renamed table is renamed in the foreign keys of the other tables, too.
AfterRename(schema, old, new) ==
    [t \in Renamed(DOMAIN schema, old, new) |->
        LET table == IF t = new THEN schema[old] ELSE schema[t]
        IN  [table EXCEPT !.references = Renamed(@, old, new)]]

Rebuilt(table, s) ==
    [columns |-> (table.columns \ s.dropped) \cup s.added, required |-> s.required, key |-> s.key,
     references |-> s.references]

\* The schema after a statement.
After(s, schema) ==
    CASE s.kind = "create"  -> [t \in DOMAIN schema \cup {s.table} |-> IF t = s.table THEN s.as ELSE schema[t]]
      [] s.kind = "remove"  -> [t \in DOMAIN schema \ {s.table} |-> schema[t]]
      [] s.kind = "rename"  -> AfterRename(schema, s.table, s.to)
      [] s.kind = "column"  ->
           [schema EXCEPT ![s.table].columns  = Renamed(@, s.from, s.to),
                          ![s.table].required = Renamed(@, s.from, s.to),
                          ![s.table].key      = Renamed(@, s.from, s.to)]
      [] s.kind = "add"     ->
           [schema EXCEPT ![s.table].columns  = @ \cup s.columns,
                          ![s.table].required = @ \cup IF s.required THEN s.columns ELSE {}]
      [] s.kind = "drop"    ->
           [schema EXCEPT ![s.table].columns  = @ \ s.columns,
                          ![s.table].required = @ \ s.columns]
      [] s.kind = "rebuild" -> [schema EXCEPT ![s.table] = Rebuilt(@, s)]
      [] OTHER -> schema

\* The schema after a sequence of statements; the first one that cannot be executed ends the program
\* (execQuery()), which is denoted by the empty schema.
NoSchema == <<>>
Executed(statements, schema) ==
    LET result[i \in 0..Len(statements)] ==
            IF i = 0 THEN schema
            ELSE LET before == result[i - 1]
                 IN  IF before # NoSchema /\ Executable(statements[i], before)
                     THEN After(statements[i], before) ELSE NoSchema
    IN  result[Len(statements)]

-----------------------------------------------------------------------------
\* createV3Database()
V3Database ==
    [dbinfo |-> Table({"version"}, {}, {}, {}),
     roster |-> Table({"jid", "name", "lastExchanged"},
                      {"unreadMessages", "lastMessage", "lastOnline", "activity", "status", "mood", "avatarHash"},
                      {}, {}),
     messages |-> Table({"author", "recipient", "timestamp", "message", "id"},
                        {"author_resource", "recipient_resource", "isSent", "isDelivered"}, {}, {"roster"})]

\* The database of Kaidan v0.1 and v0.2 (loadDatabaseInfo()).
V1Database ==
    [t \in {"roster", "messages"} |->
        [V3Database[t] EXCEPT !.columns = @ \ {"avatarHash"}]]

-----------------------------------------------------------------------------
(* The migrations to version 2, 3, ..., Latest.                            *)

Early == <<
  <<Create("dbinfo", V3Database.dbinfo)>>,
  <<Add("roster", {"avatarHash"})>>,
  <<Rebuild("roster", {}, {"avatarHash"}, {"jid", "name", "lastExchanged"}, {}, {})>>,
  <<Add("messages", {"type"}), Add("messages", {"mediaUrl"})>>,
  <<Add("messages", {"mediaSize", "mediaContentType", "mediaLastModified", "mediaLocation"})>>,
  <<Add("messages", {"mediaThumb"}), Add("messages", {"mediaHashes"})>>,
  <<Rebuild("roster", {}, {"lastOnline", "activity", "status", "mood"},
            {"jid", "lastExchanged", "lastMessage"}, {}, {})>>,
  <<Add("messages", {"edited"})>>,
  <<Add("messages", {"isSpoiler"}), Add("messages", {"spoilerHint"})>>,
  <<Add("messages", {"deliveryState"}), Add("messages", {"errorText"})>>,
  <<Add("messages", {"replaceId"})>>,
  <<Add("messages", {"stanzaId"}), Add("messages", {"originId"})>>,
  <<Add("roster", {"subscription"}), Add("roster", {"encryption"}),
    Add("messages", {"encryption"}), Add("messages", {"senderKey"})>>
>>

TrustTables == <<
  Create("trust_security_policies",
         Table({"account", "encryption", "security_policy"}, {}, {"account", "encryption"}, {})),
  Create("trust_own_keys", Table({"account", "encryption", "key_id"}, {}, {"account", "encryption"}, {})),
  Create("trust_keys", Table({"account", "encryption", "owner_jid", "key_id", "trust_level"}, {},
                             {"account", "encryption", "key_id", "owner_jid"}, {})),
  Create("trust_keys_unprocessed",
         Table({"account", "encryption", "sender_key_id", "owner_jid", "key_id", "trust"}, {},
               {"account", "encryption", "key_id", "owner_jid"}, {}))
>>

OmemoTables == <<
  Create("omemo_devices_own",
         Table({"account", "id", "latest_signed_pre_key_id", "latest_pre_key_id"},
               {"label", "private_key", "public_key"}, {"account"}, {})),
  Create("omemo_devices",
         Table({"account", "user_jid", "id"},
               {"label", "key_id", "session", "unresponded_stanzas_sent", "unresponded_stanzas_received",
                "removal_timestamp"}, {"account", "user_jid", "id"}, {})),
  Create("omemo_pre_key_pairs", Table({"account", "id", "data"}, {}, {"id"}, {})),
  Create("omemo_pre_key_pairs_signed", Table({"account", "id", "data"}, {"creation_timestamp"}, {"id"}, {}))
>>

FileTables == <<
  Drop("messages", {"mediaUrl"}), Drop("messages", {"mediaLocation"}),
  Create("files", Table({"id", "file_group_id", "mime_type", "last_modified", "disposition"},
                        {"name", "description", "size", "thumbnail", "local_file_path"}, {"id"}, {})),
  Create("file_hashes", Table({"data_id", "hash_type", "hash_value"}, {}, {"data_id", "hash_type"}, {})),
  Create("file_http_sources", Table({"file_id", "url"}, {}, {"file_id"}, {})),
  Create("file_encrypted_sources",
         Table({"file_id", "url", "cipher", "key", "iv"}, {"encrypted_data_id"}, {"file_id"}, {}))
>>

\* "Use camelCase for all tables."
CamelCase == <<
  Drop("roster", {"lastExchanged"}), Drop("roster", {"lastMessage"}),
  RenameColumn("messages", "file_group_id", "fileGroupId"),
  RenameColumn("files", "file_group_id", "fileGroupId"),
  RenameColumn("files", "mime_type", "mimeType"),
  RenameColumn("files", "last_modified", "lastModified"),
  RenameColumn("files", "local_file_path", "localFilePath"),
  RenameTable("file_hashes", "fileHashes"),
  RenameColumn("fileHashes", "data_id", "dataId"),
  RenameColumn("fileHashes", "hash_type", "hashType"),
  RenameColumn("fileHashes", "hash_value", "hashValue"),
  RenameTable("file_http_sources", "fileHttpSources"),
  RenameColumn("fileHttpSources", "file_id", "fileId"),
  RenameTable("file_encrypted_sources", "fileEncryptedSources"),
  RenameColumn("fileEncryptedSources", "file_id", "fileId"),
  RenameColumn("fileEncryptedSources", "encrypted_data_id", "encryptedDataId"),
  RenameTable("trust_security_policies", "trustSecurityPolicies"),
  RenameColumn("trustSecurityPolicies", "security_policy", "securityPolicy"),
  RenameTable("trust_own_keys", "trustOwnKeys"),
  RenameColumn("trustOwnKeys", "key_id", "keyId"),
  RenameTable("trust_keys", "trustKeys"),
  RenameColumn("trustKeys", "owner_jid", "ownerJid"),
  RenameColumn("trustKeys", "key_id", "keyId"),
  RenameColumn("trustKeys", "trust_level", "trustLevel"),
  RenameTable("trust_keys_unprocessed", "trustKeysUnprocessed"),
  RenameColumn("trustKeysUnprocessed", "sender_key_id", "senderKeyId"),
  RenameColumn("trustKeysUnprocessed", "owner_jid", "ownerJid"),
  RenameColumn("trustKeysUnprocessed", "key_id", "keyId"),
  RenameTable("omemo_devices_own", "omemoDevicesOwn"),
  RenameColumn("omemoDevicesOwn", "private_key", "privateKey"),
  RenameColumn("omemoDevicesOwn", "public_key", "publicKey"),
  RenameColumn("omemoDevicesOwn", "latest_signed_pre_key_id", "latestSignedPreKeyId"),
  RenameColumn("omemoDevicesOwn", "latest_pre_key_id", "latestPreKeyId"),
  RenameTable("omemo_devices", "omemoDevices"),
  RenameColumn("omemoDevices", "user_jid", "userJid"),
  RenameColumn("omemoDevices", "key_id", "keyId"),
  RenameColumn("omemoDevices", "unresponded_stanzas_sent", "unrespondedStanzasSent"),
  RenameColumn("omemoDevices", "unresponded_stanzas_received", "unrespondedStanzasReceived"),
  RenameColumn("omemoDevices", "removal_timestamp", "removalTimestamp"),
  RenameTable("omemo_pre_key_pairs", "omemoPreKeyPairs"),
  RenameTable("omemo_pre_key_pairs_signed", "omemoPreKeyPairsSigned"),
  RenameColumn("omemoPreKeyPairsSigned", "creation_timestamp", "creationTimestamp")
>>

To23 == <<
  TrustTables,
  OmemoTables,
  <<Add("roster", {"lastReadOwnMessageId"}), Add("roster", {"lastReadContactMessageId"}),
    Add("messages", {"isMarkable"})>>,
  <<Rebuild("messages", {"sender", "isEdited", "file_group_id"},
            {"author", "author_resource", "recipient_resource", "isSent", "isDelivered", "edited", "type",
             "mediaSize", "mediaContentType", "mediaLastModified", "mediaThumb", "mediaHashes"},
            {"sender", "recipient"}, {}, {"roster"})>>,
  FileTables,
  <<Add("roster", {"readMarkerPending"})>>,
  <<Add("roster", {"pinningPosition"})>>,
  <<Create("messageReactions",
           Table({"messageSender", "messageRecipient", "messageId", "senderJid", "emoji"}, {"timestamp"},
                 {"messageSender", "messageRecipient", "messageId", "senderJid", "timestamp", "emoji"}, {}))>>,
  CamelCase
>>

ReactionKey == {"messageSender", "messageRecipient", "messageId", "senderJid", "emoji"}

To32 == <<
  <<Add("roster", {"chatStateSendingEnabled"}), Add("roster", {"readMarkerSendingEnabled"})>>,
  <<Rebuild("messages", {}, {"isMarkable"}, {"sender", "recipient"}, {}, {"roster"})>>,
  <<Rebuild("roster", {}, {}, {"jid", "pinningPosition"}, {}, {})>>,
  <<Rebuild("roster", {"draftMessageId"}, {}, {"jid", "pinningPosition"}, {}, {"messages"}),
    Create("chatMessages", View({"deliveryState"})), Create("draftMessages", View({"deliveryState"}))>>,
  <<Add("roster", {"notificationsMuted"})>>,
  <<Rebuild("messageReactions", {"deliveryState"}, {}, ReactionKey, ReactionKey, {})>>,
  <<AddRequired("messages", {"removed"}), RemoveTable("chatMessages"),
    Create("chatMessages", View({"deliveryState", "removed"}))>>,
  <<RenameColumn("messages", "message", "body")>>,
  <<Rebuild("messages", {}, {"isEdited"}, {"sender", "recipient", "removed"}, {}, {"roster"})>>
>>

To37 == <<
  <<RemoveTable("roster"),
    Create("roster",
           Table({"accountJid", "jid", "pinningPosition"},
                 {"name", "subscription", "encryption", "unreadMessages", "lastReadOwnMessageId",
                  "lastReadContactMessageId", "readMarkerPending", "chatStateSendingEnabled",
                  "readMarkerSendingEnabled", "draftMessageId", "notificationsMuted"},
                 {"accountJid", "jid"}, {"messages"}))>>,
  <<Create("rosterGroups", Table({"accountJid", "chatJid", "name"}, {}, {"accountJid", "chatJid", "name"}, {"roster"}))>>,
  <<Rebuild("roster", {}, {"draftMessageId"}, {"accountJid", "jid", "pinningPosition"}, {"accountJid", "jid"}, {})>>,
  <<RemoveTable("messages"),
    Create("messages",
           Table({"accountJid", "chatJid", "removed"},
                 {"senderId", "timestamp", "body", "id", "encryption", "senderKey", "deliveryState", "spoilerHint",
                  "isSpoiler", "errorText", "replaceId", "originId", "stanzaId", "fileGroupId"}, {}, {"roster"})),
    RemoveTable("messageReactions"),
    Create("messageReactions",
           Table({"accountJid", "chatJid", "messageSenderId", "messageId", "senderJid", "emoji"},
                 {"timestamp", "deliveryState"},
                 {"accountJid", "chatJid", "messageSenderId", "messageId", "senderJid", "emoji"}, {}))>>,
  <<Rebuild("messages", {}, {}, {"accountJid", "chatJid", "removed"}, {}, {"roster"})>>
>>

\* Groups of columns that are added together.
GroupChatColumns == {"groupChatParticipantId", "groupChatName", "groupChatDescription", "groupChatFlags",
                     "latestGroupChatMessageStanzaId", "latestGroupChatMessageStanzaTimestamp"}
InvitationColumns == {"groupChatInviterJid", "groupChatInviteeJid", "groupChatInvitationJid", "groupChatToken"}
ConnectionColumns == {"credentials", "host", "port", "tlsErrorsIgnored", "tlsRequirement", "passwordVisibility",
                      "userAgentDeviceId", "encryption", "automaticMediaDownloadsRule"}

To43 == <<
  <<Add("roster", {"automaticMediaDownloadsRule"})>>,
  <<Create("blocked", Table({"accountJid", "jid"}, {}, {"accountJid", "jid"}, {}))>>,
  <<Create("accounts", Table({"jid"}, {"name", "latestMessageStanzaId", "latestMessageTimestamp"}, {"jid"}, {}))>>,
  <<Add("files", {"externalId"})>>,
  <<Add("accounts", {"httpUploadLimit"})>>,
  <<RenameColumn("accounts", "latestMessageTimestamp", "latestMessageStanzaTimestamp"),
    Rebuild("roster", GroupChatColumns, {}, {"accountJid", "jid", "pinningPosition"}, {"accountJid", "jid"}, {}),
    Rebuild("messages", {"isOwn", "groupChatSenderId"} \cup InvitationColumns, {"senderId"},
            {"accountJid", "chatJid", "isOwn", "removed"}, {}, {"roster"}),
    Rebuild("messageReactions", {"senderId"}, {"senderJid"},
            {"accountJid", "chatJid", "messageSenderId", "messageId", "emoji"},
            {"accountJid", "chatJid", "messageId", "senderId", "emoji"}, {}),
    Create("groupChatUsers",
           Table({"accountJid", "chatJid", "id"}, {"jid", "name", "status"},
                 {"accountJid", "chatJid", "id", "jid"}, {"roster"}))>>
>>

To47 == <<
  <<Add("accounts", {"contactNotificationRule"}), Add("accounts", {"groupChatNotificationRule"}),
    Rebuild("roster", {"notificationRule"}, {"notificationsMuted"}, {"accountJid", "jid", "pinningPosition"},
            {"accountJid", "jid"}, {})>>,
  <<Rebuild("messages", {"replyTo", "replyId", "replyQuote"}, {}, {"accountJid", "chatJid", "isOwn", "removed"},
            {}, {"roster"})>>,
  <<Add("accounts", {"geoLocationMapPreviewEnabled"}), Add("accounts", {"geoLocationMapService"})>>,
  <<>>   \* only rows are deleted
>>

FileColumns == {"id", "fileGroupId", "mimeType", "lastModified", "transferOutgoing", "transferState"}

To50 == <<
  <<Add("accounts", {"online", "resourcePrefix", "password"} \cup ConnectionColumns)>>,
  <<RenameColumn("accounts", "online", "enabled")>>,
  <<>>   \* only passwords are decoded
>>

To54 == <<
  <<Drop("accounts", {"password"})>>,
  <<Drop("roster", {"unreadMessages"})>>,
  <<Rebuild("messages", {"marked"}, {}, {"accountJid", "chatJid", "isOwn", "marked", "removed"}, {}, {"roster"})>>,
  <<Drop("accounts", {"resourcePrefix"})>>
>>

To58 == <<
  <<AddRequired("files", {"transferOutgoing", "transferState"})>>,
  <<Rebuild("accounts", {"plainAuthAllowed"}, {}, {"jid"}, {"jid"}, {})>>,
  <<Rebuild("files", {"width", "height"}, {}, FileColumns \cup {"disposition"}, {"id"}, {})>>,
  <<Rebuild("files", {}, {}, FileColumns, {"id"}, {})>>
>>

To61 == <<
  <<Add("accounts", {"rosterVersion"}),
    Rebuild("roster", {"subscriptionStatus", "subscriptionApproved"}, {}, {"accountJid", "jid", "pinningPosition"},
            {"accountJid", "jid"}, {})>>,
  <<RenameTable("roster", "chats"),
    Rebuild("chats", {"origin"}, {}, {"accountJid", "jid", "pinningPosition"}, {"accountJid", "jid"}, {})>>,
  <<>>   \* only reactions are moved
>>

\* migrations()
Migrations ==
    Early \o To23 \o To32 \o To37 \o To43 \o To47 \o To50 \o To54 \o To58 \o To61

\* A fault: migration 52 is forgotten.
MigrationWithout52(v) == IF v = 52 THEN <<>> ELSE Migrations[v - 1]

Migration(v) == Migrations[v - 1]

\* The schema of each version, as the releases with that version have left it.
SchemaAt[v \in 1..Latest] ==
    IF v = 1 THEN V1Database
    ELSE LET before == SchemaAt[v - 1]
         IN  IF before = NoSchema THEN NoSchema ELSE Executed(Migration(v), before)

-----------------------------------------------------------------------------
\* createNewDatabase()
NewDatabase ==
    [dbinfo |-> Table({"version"}, {}, {}, {}),
     accounts |->
        Table({"jid"},
              {"name", "latestMessageStanzaId", "latestMessageStanzaTimestamp", "httpUploadLimit",
               "contactNotificationRule", "groupChatNotificationRule", "geoLocationMapPreviewEnabled",
               "geoLocationMapService", "enabled", "plainAuthAllowed", "rosterVersion"} \cup ConnectionColumns,
              {"jid"}, {}),
     chats |->
        Table({"accountJid", "jid", "pinningPosition"},
              {"origin", "name", "subscription", "subscriptionStatus", "subscriptionApproved", "encryption",
               "lastReadOwnMessageId", "lastReadContactMessageId", "readMarkerPending",
               "chatStateSendingEnabled", "readMarkerSendingEnabled", "notificationRule",
               "automaticMediaDownloadsRule"} \cup GroupChatColumns,
              {"accountJid", "jid"}, {}),
     rosterGroups |-> Table({"accountJid", "chatJid", "name"}, {}, {"accountJid", "chatJid", "name"}, {"chats"}),
     messages |->
        Table({"accountJid", "chatJid", "isOwn", "marked", "removed"},
              {"groupChatSenderId", "id", "originId", "stanzaId", "replaceId", "replyTo", "replyId", "replyQuote",
               "timestamp", "body", "encryption", "senderKey", "deliveryState", "isSpoiler", "spoilerHint",
               "fileGroupId", "errorText"} \cup InvitationColumns, {}, {"roster"}),
     messageReactions |->
        Table({"accountJid", "chatJid", "messageSenderId", "messageId", "emoji"},
              {"senderId", "timestamp", "deliveryState"},
              {"accountJid", "chatJid", "messageId", "senderId", "emoji"}, {}),
     groupChatUsers |->
        Table({"accountJid", "chatJid", "id"}, {"jid", "name", "status"},
              {"accountJid", "chatJid", "id", "jid"}, {"chats"}),
     files |->
        Table(FileColumns,
              {"name", "description", "size", "width", "height", "disposition", "thumbnail", "localFilePath",
               "externalId"}, {"id"}, {}),
     fileHashes |-> Table({"dataId", "hashType", "hashValue"}, {}, {"dataId", "hashType"}, {}),
     fileHttpSources |-> Table({"fileId", "url"}, {}, {"fileId"}, {}),
     fileEncryptedSources |-> Table({"fileId", "url", "cipher", "key", "iv"}, {"encryptedDataId"}, {"fileId"}, {}),
     trustSecurityPolicies |-> Table({"account", "encryption", "securityPolicy"}, {}, {"account", "encryption"}, {}),
     trustOwnKeys |-> Table({"account", "encryption", "keyId"}, {}, {"account", "encryption"}, {}),
     trustKeys |-> Table({"account", "encryption", "ownerJid", "keyId", "trustLevel"}, {},
                         {"account", "encryption", "keyId", "ownerJid"}, {}),
     trustKeysUnprocessed |->
        Table({"account", "encryption", "senderKeyId", "ownerJid", "keyId", "trust"}, {},
              {"account", "encryption", "keyId", "ownerJid"}, {}),
     omemoDevicesOwn |->
        Table({"account", "id", "latestSignedPreKeyId", "latestPreKeyId"}, {"label", "privateKey", "publicKey"},
              {"account"}, {}),
     omemoDevices |->
        Table({"account", "userJid", "id"},
              {"label", "keyId", "session", "unrespondedStanzasSent", "unrespondedStanzasReceived",
               "removalTimestamp"}, {"account", "userJid", "id"}, {}),
     omemoPreKeyPairs |-> Table({"account", "id", "data"}, {}, {"account", "id"}, {}),
     omemoPreKeyPairsSigned |-> Table({"account", "id", "data"}, {"creationTimestamp"}, {"account", "id"}, {}),
     blocked |-> Table({"accountJid", "jid"}, {}, {"accountJid", "jid"}, {}),
     chatMessages |-> View({"deliveryState", "removed"}),
     draftMessages |-> View({"deliveryState"})]

=============================================================================
