------------------------------- MODULE OmemoDb -------------------------------
(***************************************************************************)
(* The tables of OMEMO (OmemoDb) and the jobs that change them.            *)
(*                                                                         *)
(* QXmpp's OMEMO manager keeps the same data in memory, reads the tables   *)
(* once (allData()) and writes each change through.  The tables are shared *)
(* by all accounts.  The data of a pair of keys is determined by its ID.   *)
(***************************************************************************)
VARIABLES
    ownDevices,        \* omemoDevicesOwn: from accounts to own devices
    signedPreKeyPairs, \* omemoPreKeyPairsSigned: accounts and IDs
    preKeyPairs,       \* omemoPreKeyPairs: accounts and IDs
    deviceRows         \* omemoDevices: from accounts, users and IDs to sessions

omemoTables == <<ownDevices, signedPreKeyPairs, preKeyPairs, deviceRows>>

NoDevice == "none"

OmemoInit ==
    /\ ownDevices = [a \in {} |-> NoDevice]
    /\ signedPreKeyPairs = {}
    /\ preKeyPairs = {}
    /\ deviceRows = [d \in {} |-> "no session"]

OwnDevice(a) == IF a \in DOMAIN ownDevices THEN ownDevices[a] ELSE NoDevice
SignedPreKeyPairsOf(a) == {p[2] : p \in {q \in signedPreKeyPairs : q[1] = a}}
PreKeyPairsOf(a) == {p[2] : p \in {q \in preKeyPairs : q[1] = a}}
DevicesOf(a) ==
    [d \in {<<r[2], r[3]>> : r \in {q \in DOMAIN deviceRows : q[1] = a}} |->
        deviceRows[<<a, d[1], d[2]>>]]

\* What allData() returns.
AllData(a) ==
    [ownDevice |-> OwnDevice(a), signedPreKeyPairs |-> SignedPreKeyPairsOf(a),
     preKeyPairs |-> PreKeyPairsOf(a), devices |-> DevicesOf(a)]

\* INSERT OR REPLACE, or DELETE if there is no device
SetOwnDevice(a, device) ==
    /\ ownDevices' =
          IF device = NoDevice
          THEN [b \in DOMAIN ownDevices \ {a} |-> ownDevices[b]]
          ELSE [b \in DOMAIN ownDevices \cup {a} |-> IF b = a THEN device ELSE ownDevices[b]]
    /\ UNCHANGED <<signedPreKeyPairs, preKeyPairs, deviceRows>>

AddSignedPreKeyPair(a, id) ==
    /\ signedPreKeyPairs' = signedPreKeyPairs \cup {<<a, id>>}
    /\ UNCHANGED <<ownDevices, preKeyPairs, deviceRows>>

RemoveSignedPreKeyPair(a, id) ==
    /\ signedPreKeyPairs' = signedPreKeyPairs \ {<<a, id>>}
    /\ UNCHANGED <<ownDevices, preKeyPairs, deviceRows>>

AddPreKeyPairs(a, I) ==
    /\ preKeyPairs' = preKeyPairs \cup ({a} \X I)
    /\ UNCHANGED <<ownDevices, signedPreKeyPairs, deviceRows>>

RemovePreKeyPair(a, id) ==
    /\ preKeyPairs' = preKeyPairs \ {<<a, id>>}
    /\ UNCHANGED <<ownDevices, signedPreKeyPairs, deviceRows>>

\* A fault: a stored device is not replaced.
AddNewDevice(a, jid, id, session) ==
    /\ deviceRows' = [d \in DOMAIN deviceRows \cup {<<a, jid, id>>} |->
                         IF d \in DOMAIN deviceRows THEN deviceRows[d] ELSE session]
    /\ UNCHANGED <<ownDevices, signedPreKeyPairs, preKeyPairs>>

AddDevice(a, jid, id, session) ==
    /\ deviceRows' = [d \in DOMAIN deviceRows \cup {<<a, jid, id>>} |->
                         IF d = <<a, jid, id>> THEN session ELSE deviceRows[d]]
    /\ UNCHANGED <<ownDevices, signedPreKeyPairs, preKeyPairs>>

RemoveDeviceRows(R) ==
    /\ deviceRows' = [d \in DOMAIN deviceRows \ R |-> deviceRows[d]]
    /\ UNCHANGED <<ownDevices, signedPreKeyPairs, preKeyPairs>>

RemoveDevice(a, jid, id) == RemoveDeviceRows({<<a, jid, id>>})

\* All devices of one user
RemoveDevices(a, jid) == RemoveDeviceRows({d \in DOMAIN deviceRows : d[1] = a /\ d[2] = jid})

\* resetAll()
ResetOmemo(a) ==
    /\ ownDevices' = [b \in DOMAIN ownDevices \ {a} |-> ownDevices[b]]
    /\ signedPreKeyPairs' = {p \in signedPreKeyPairs : p[1] # a}
    /\ preKeyPairs' = {p \in preKeyPairs : p[1] # a}
    /\ deviceRows' = [d \in {r \in DOMAIN deviceRows : r[1] # a} |-> deviceRows[d]]
=============================================================================
