------------------------- MODULE PostgresTableProofs -------------------------
(***************************************************************************)
(* The committed tables on PostgreSQL: whatever requests interleave and    *)
(* whatever fails, the ledger is what the log says, an uplink writes back  *)
(* no older device row, a nonce moves with an accepted uplink or a link    *)
(* request of its device only, and an answer tells what the log says of    *)
(* its uplink.  And requests end: somebody can always go, and every step   *)
(* of a request brings its answer nearer.                                  *)
(***************************************************************************)
EXTENDS PostgresProofs

-----------------------------------------------------------------------------
\* What a step does to the log.

\* A step records nothing, or commits an accepted uplink, or records a
\* rejection that its request has reached.
LEMMA StepRecords ==
    ASSUME [Next]_vars
    PROVE  \/ UNCHANGED <<tokens, balances, events, recorded>>
           \/ \E r \in Requests : pc[r] = "commit" /\ Writes(r)
           \/ \E r \in Requests : RecordRejection(r)
<1>1. ASSUME NEW r \in Requests, Arrive(r) \/ Progress(r) \/ LoseConnection(r)
      PROVE  \/ UNCHANGED <<tokens, balances, events, recorded>>
             \/ pc[r] = "commit" /\ Writes(r)
             \/ RecordRejection(r)
  <2>1. CASE Arrive(r) \/ Checkout(r) \/ SelectDevice(r) \/ Respond(r) \/ GetDevice(r)
             \/ GetToken(r) \/ CreateToken(r) \/ Rollback(r) \/ LinkGetDevice(r)
    BY <2>1 DEF Arrive, Checkout, SelectDevice, Respond, GetDevice, GetToken,
                CreateToken, Rollback, LinkGetDevice, storeVars
  <2>2. CASE LinkUpdateDevice(r) \/ LinkSaveNonce(r)
    BY <2>2 DEF LinkUpdateDevice, LinkSaveNonce
  <2>3. CASE Commit(r) \/ LoseConnection(r)
    BY <2>3 DEF Commit, LoseConnection, storeVars
  <2> QED
    BY <1>1, <2>1, <2>2, <2>3 DEF Progress
<1>2. CASE Register \/ Crash \/ UNCHANGED vars
  BY <1>2 DEF Register, RegisterDevice, Crash, vars, storeVars
<1> QED
  BY <1>1, <1>2 DEF Next

-----------------------------------------------------------------------------
\* Types, and what a request on its way to a rejection knows.

Codes == Reasons \cup StoreErrors

Rejecting == {"rollback", "recordClient", "record"}

\* A request that records a rejection has a payload and an error code for it.
RecordsOK ==
    /\ reason \in [Requests -> Codes]
    /\ \A r \in Requests : pc[r] \in Rejecting => job[r].kind = "ingest"

\* Every error of the rules is one of the codes.
LEMMA ErrorsAreCodes ==
    ASSUME NEW p \in Payloads, NEW d, NEW device, NEW token
    PROVE  /\ AuthError(device, d, p) \in Codes
           /\ EarlyError(p) \in Codes
           /\ p.op \in TokenOps => TokenError(token, d, p) \in Codes
<1>1. p.op \in {"DEPLOY", "MINT", "TRANSFER", "MESSAGE", "CONFIG"}
  BY PayloadFields
<1>2. AuthError(device, d, p) \in Reasons
  BY DEF AuthError, NoError, Reasons
<1>3. DeployTermsError(p) \in Reasons /\ AmountError(p) \in Reasons
  BY DEF DeployTermsError, AmountError, NoError, Reasons
<1>4. MessageError(p) \in Reasons /\ ConfigError(p) \in Reasons
  BY DEF MessageError, ConfigError, NoError, Reasons
<1>5. MintError(token, p) \in Reasons /\ TransferError(d, p) \in Reasons
  BY DEF MintError, TransferError, NoError, Reasons
<1>6. PayloadError(p) \in Reasons
  BY <1>1, <1>3, <1>4 DEF PayloadError, NoError, Reasons
<1>7. EarlyError(p) \in Codes
  BY <1>4, <1>6 DEF EarlyError, NoError, Reasons, Codes, StoreErrors
<1>8. p.op \in TokenOps => TokenError(token, d, p) \in Codes
  BY <1>5 DEF TokenError, TokenOps, NoError, Reasons, NegativeInsert, Codes, StoreErrors
<1> QED
  BY <1>2, <1>7, <1>8 DEF Codes

LEMMA RecordsOKStep == RequestsOK /\ RecordsOK /\ [Next]_vars => RecordsOK'
<1> SUFFICES ASSUME RequestsOK, RecordsOK, [Next]_vars PROVE RecordsOK'
  OBVIOUS
<1>1. /\ NoError \in Codes /\ "ingest_rejected" \in Codes
      /\ "lorawan_dev_eui_already_registered" \in Codes /\ "device_not_found" \in Codes
      /\ "token_already_exists" \in Codes
  BY DEF Codes, Reasons, StoreErrors, NoError
\* A step that moves r only, with a code, to a label it may be at.
<1>2. ASSUME NEW r \in Requests, NEW label, pc' = [pc EXCEPT ![r] = label],
             NEW code \in Codes, reason' = reason \/ reason' = [reason EXCEPT ![r] = code],
             \A q \in Requests \ {r} : job'[q] = job[q],
             label \in Rejecting => job'[r].kind = "ingest"
      PROVE  RecordsOK'
  BY <1>2 DEF RecordsOK, RequestsOK, RowsTyped
<1>3. ASSUME NEW r \in Requests, Arrive(r) \/ Respond(r)
      PROVE  RecordsOK'
  <2>1. PICK label \in {"client", "idle"} : pc' = [pc EXCEPT ![r] = label]
    BY <1>3 DEF Arrive, Respond, Goto
  <2>2. /\ reason' = reason \/ reason' = [reason EXCEPT ![r] = NoError]
        /\ \A q \in Requests \ {r} : job'[q] = job[q]
    BY <1>3 DEF Arrive, Respond, RequestsOK, RowsTyped
  <2> QED
    BY <1>1, <1>2, <2>1, <2>2 DEF Rejecting
<1>4. ASSUME NEW r \in Requests, Checkout(r) PROVE RecordsOK'
  <2>1. /\ pc[r] \in DOMAIN Then /\ pc' = [pc EXCEPT ![r] = Then[pc[r]]]
        /\ job' = job /\ reason' = reason
    BY <1>4 DEF Checkout, Goto
  <2>2. Then[pc[r]] \in Rejecting => pc[r] \in Rejecting
    BY <2>1 DEF Then, Rejecting
  <2> QED
    BY <1>1, <1>2, <2>1, <2>2 DEF RecordsOK
<1>5. ASSUME NEW r \in Requests,
             \/ SelectDevice(r) \/ Commit(r) \/ RecordRejection(r)
             \/ LinkGetDevice(r) \/ LinkUpdateDevice(r) \/ LinkSaveNonce(r)
      PROVE  RecordsOK'
  <2>1. PICK label \in {"device", "respond", "updateClient", "nonceClient"} :
          pc' = [pc EXCEPT ![r] = label]
    BY <1>5 DEF SelectDevice, Commit, RecordRejection, LinkGetDevice, LinkUpdateDevice,
                LinkSaveNonce, Goto
  <2>2. PICK code \in Codes : reason' = reason \/ reason' = [reason EXCEPT ![r] = code]
    BY <1>1, <1>5 DEF SelectDevice, Commit, RecordRejection, LinkGetDevice, LinkUpdateDevice,
                      LinkSaveNonce
  <2>3. job' = job
    BY <1>5 DEF SelectDevice, Commit, RecordRejection, LinkGetDevice, LinkUpdateDevice,
                LinkSaveNonce
  <2> QED
    BY <1>2, <2>1, <2>2, <2>3 DEF Rejecting
<1>6. ASSUME NEW r \in Requests, Rollback(r) PROVE RecordsOK'
  <2>1. /\ pc[r] = "rollback" /\ pc' = [pc EXCEPT ![r] = "recordClient"]
        /\ job' = job /\ reason' = reason
    BY <1>6 DEF Rollback, Goto
  <2> QED
    BY <1>1, <1>2, <2>1 DEF RecordsOK, Rejecting
<1>7. ASSUME NEW r \in Requests, GetDevice(r) PROVE RecordsOK'
  <2> DEFINE p == job[r].msg
             auth == AuthError(LockedRow(r), job[r].deviceId, p)
             code == IF auth # NoError THEN auth ELSE EarlyError(p)
             label == IF code # NoError THEN "rollback"
                      ELSE IF p.op \in TokenOps THEN "token" ELSE "commit"
  <2>1. /\ pc[r] = "device" /\ job[r].kind = "ingest" /\ job' = job
        /\ reason' = [reason EXCEPT ![r] = code]
        /\ pc' = [pc EXCEPT ![r] = label]
    BY <1>7 DEF GetDevice, Goto
  <2>2. p \in Payloads
    BY <2>1, JobFields DEF RequestsOK, RequestOK
  <2>3. code \in Codes
    BY <2>2, ErrorsAreCodes
  <2> HIDE DEF code, label
  <2> QED
    BY <1>2, <2>1, <2>3
<1>8. ASSUME NEW r \in Requests, GetToken(r) PROVE RecordsOK'
  <2> DEFINE p == job[r].msg
             code == TokenError(tokens[p.tick], job[r].deviceId, p)
             label == IF code # NoError THEN "rollback"
                      ELSE IF p.op = "DEPLOY" THEN "insert" ELSE "commit"
  <2>1. /\ pc[r] = "token" /\ job' = job
        /\ reason' = [reason EXCEPT ![r] = code]
        /\ pc' = [pc EXCEPT ![r] = label]
    BY <1>8 DEF GetToken, Goto
  <2>2. p \in Payloads /\ p.op \in TokenOps /\ job[r].kind = "ingest"
    BY <2>1, InTransaction DEF RequestsOK, RequestOK, DeviceHeld
  <2>3. code \in Codes
    BY <2>2, ErrorsAreCodes
  <2> HIDE DEF code, label
  <2> QED
    BY <1>2, <2>1, <2>2, <2>3
<1>9. ASSUME NEW r \in Requests, CreateToken(r) PROVE RecordsOK'
  <2>1. PICK label \in {"rollback", "commit"} : pc' = [pc EXCEPT ![r] = label]
    BY <1>9 DEF CreateToken, Goto
  <2>2. PICK code \in Codes : reason' = [reason EXCEPT ![r] = code]
    BY <1>1, <1>9 DEF CreateToken
  <2>3. job' = job /\ job[r].kind = "ingest"
    BY <1>9 DEF CreateToken, RequestsOK, RequestOK, DeviceHeld
  <2> QED
    BY <1>2, <2>1, <2>2, <2>3
<1>10. ASSUME NEW r \in Requests, LoseConnection(r) PROVE RecordsOK'
  <2>1. /\ pc' = [pc EXCEPT ![r] = AfterLoss(r)]
        /\ job' = job /\ reason' = [reason EXCEPT ![r] = "ingest_rejected"]
    BY <1>10 DEF LoseConnection, Goto
  <2>2. AfterLoss(r) \in Rejecting => job[r].kind = "ingest"
    BY DEF AfterLoss, Rejecting
  <2> QED
    BY <1>1, <1>2, <2>1, <2>2
<1>11. CASE Crash
  BY <1>1, <1>11 DEF Crash, RecordsOK, Rejecting
<1>12. CASE Register \/ UNCHANGED vars
  <2>1. UNCHANGED <<pc, job, reason>>
    BY <1>12 DEF Register, vars, requestVars
  <2> QED
    BY <2>1 DEF RecordsOK
<1> QED
  BY <1>3, <1>4, <1>5, <1>6, <1>7, <1>8, <1>9, <1>10, <1>11, <1>12 DEF Next, Progress

-----------------------------------------------------------------------------
\* The log is typed and the ledger is what it says.

\* What a request that commits or records a rejection appends.
LEMMA RecordingRequest ==
    ASSUME RequestsOK, RecordsOK, NEW r \in Requests,
           pc[r] = "commit" \/ pc[r] = "record"
    PROVE  /\ job[r].deviceId \in DeviceIds /\ job[r].msg \in Payloads
           /\ reason[r] \in Codes
<1>1. job[r] \in Jobs /\ job[r].kind = "ingest"
  BY DEF RequestsOK, RequestOK, DeviceHeld, RecordsOK, Rejecting
<1> QED
  BY <1>1, JobFields DEF RecordsOK

LEMMA LogTypedStep == RequestsOK /\ RecordsOK /\ LogTyped /\ [Next]_vars => LogTyped'
<1> SUFFICES ASSUME RequestsOK, RecordsOK, LogTyped, [Next]_vars PROVE LogTyped'
  OBVIOUS
<1>1. CASE UNCHANGED <<tokens, balances, events, recorded>>
  BY <1>1 DEF LogTyped, EventRow
<1>2. ASSUME NEW r \in Requests, pc[r] = "commit", Writes(r) PROVE LogTyped'
  BY <1>2, RecordingRequest, AppendEventTyped DEF Writes, Reasons
<1>3. ASSUME NEW r \in Requests, RecordRejection(r) PROVE LogTyped'
  BY <1>3, RecordingRequest, AppendEventTyped DEF RecordRejection, Codes
<1> QED
  BY <1>1, <1>2, <1>3, StepRecords

LEMMA LogLedgerStep ==
    LedgerInv /\ RequestsOK /\ RecordsOK /\ LogLedgerInv /\ [Next]_vars => LogLedgerInv'
<1> SUFFICES ASSUME LedgerInv, RequestsOK, RecordsOK, LogLedgerInv, [Next]_vars
             PROVE  LogLedgerInv'
  OBVIOUS
<1>1. ASSUME NEW r \in Requests, pc[r] = "commit", Writes(r) PROVE LogLedgerInv'
  <2> DEFINE d == job[r].deviceId
             p == job[r].msg
  <2>1. /\ d \in DeviceIds /\ p \in Payloads
        /\ AppendEvent("accepted", NoError, d, p)
    BY <1>1, RecordingRequest DEF Writes
  <2>2. /\ p.op = "DEPLOY" => Deploy(d, p.tick, p.maxSupply, p.limitPerMint)
        /\ p.op = "MINT" => Mint(d, p.tick, p.amount)
        /\ p.op \notin {"DEPLOY", "MINT"} => p.op # "TRANSFER" /\ UNCHANGED ledgerVars
    BY <1>1, WritesRefine
  <2>3. CASE p.op = "DEPLOY"
    BY <2>1, <2>2, <2>3, DeployLogged
  <2>4. CASE p.op = "MINT"
    BY <2>1, <2>2, <2>4, MintLogged
  <2>5. CASE p.op \notin {"DEPLOY", "MINT"}
    BY <2>1, <2>2, <2>5, OtherRowKeeps DEF LoggedOps, ledgerVars
  <2> QED
    BY <2>3, <2>4, <2>5
<1>2. ASSUME NEW r \in Requests, RecordRejection(r) PROVE LogLedgerInv'
  BY <1>2, RecordingRequest, OtherRowKeeps DEF RecordRejection
<1> QED
  BY <1>1, <1>2, NothingMoves, StepRecords

LogInv == RecordsOK /\ LogTyped /\ LogLedgerInv

LEMMA LogInvAlways == Spec => []LogInv
<1>1. Init => LogInv
  <2> SUFFICES ASSUME Init PROVE LogInv
    OBVIOUS
  <2>1. RecordsOK
    BY DEF Init, RecordsOK, Rejecting, Codes, Reasons, NoError
  <2>2. LogTyped
    BY StoreAssumption DEF Init, LogTyped
  <2>3. LogLedgerInv
    BY LogLedgerInvInit DEF Init
  <2> QED
    BY <2>1, <2>2, <2>3 DEF LogInv
<1>2. LedgerInv /\ RequestsOK /\ LogInv /\ [Next]_vars => LogInv'
  BY RecordsOKStep, LogTypedStep, LogLedgerStep DEF LogInv
<1> QED
  BY <1>1, <1>2, PostgresInvariant, PTL DEF Spec

\* The tables, the requests' objects, the locks and the pool keep their types,
\* whatever interleaves and whatever fails.
THEOREM PostgresTypeCorrect == Spec => []PostgresTypeOK
<1>1. LedgerInv /\ RequestsOK /\ LocksInv /\ LogInv => PostgresTypeOK
  BY DEF LedgerInv, RequestsOK, RowsTyped, LocksInv, PoolOK, LogInv, LogTyped,
         PostgresTypeOK, StoreTypeOK
<1> QED
  BY <1>1, PostgresInvariant, LocksInvAlways, LogInvAlways, PTL

\* However the requests interleave, and whatever fails, supplies and balances
\* are what the accepted events on record add up to.
THEOREM PostgresLedgerMatchesLog == Spec => []LedgerMatchesLog
<1>1. LogInv => LedgerMatchesLog
  BY DEF LogInv, LogLedgerInv
<1> QED
  BY <1>1, LogInvAlways, PTL

-----------------------------------------------------------------------------
\* The settings of a device are those of its last CONFIG.

LEMMA ConfigInvInit == Init => ConfigInv
<1> SUFFICES ASSUME Init, NEW d \in DeviceIds PROVE SettingsFollow(d)
  BY DEF ConfigInv
<1>1. ConfigsOf(d) = {}
  BY DEF Init, ConfigsOf, Accepted
<1>2. devices[d] # Null => ~devices[d].autoMintEnabled
  BY DEF Init, NewDevice
<1> QED
  BY <1>1, <1>2 DEF SettingsFollow

\* A commit writes the settings it read under its row lock, or those of its
\* CONFIG with the row that says so.
LEMMA WritesKeepSettings ==
    ASSUME RequestsOK, RecordsOK, LogTyped, ConfigInv,
           NEW r \in Requests, pc[r] = "commit", Writes(r)
    PROVE  ConfigInv'
<1>1. PICK d \in DeviceIds, p \in Payloads :
         d = job[r].deviceId /\ p = job[r].msg /\ AppendEvent("accepted", NoError, d, p)
  BY RecordingRequest DEF Writes
<1>2. /\ row[r] \in Device /\ devices[d] \in Device /\ devices[d] # Null
      /\ row[r] = [devices[d] EXCEPT !.lastNonce = row[r].lastNonce]
      /\ devices \in [DeviceIds -> Device \cup {Null}]
  BY <1>1 DEF RequestsOK, RequestOK, DeviceHeld, RowsTyped
<1>3. devices' = [devices EXCEPT ![d] = IF p.op = "CONFIG" THEN ApplyConfig(row[r], p)
                                        ELSE AcceptNonce(row[r], p)]
  BY <1>1 DEF Writes, ServedDevice
<1>4. ASSUME NEW c \in DeviceIds \ {d} PROVE SettingsFollow(c)'
  <2>1. devices'[c] = devices[c] /\ ConfigsOf(c)' = ConfigsOf(c) /\ SettingsFollow(c)
    BY <1>1, <1>2, <1>3, ConfigsAppend DEF ConfigInv
  <2> QED
    BY <2>1, SettingsKept
<1>5. CASE p.op = "CONFIG"
  <2>1. devices'[d] = ApplyConfig(row[r], p)
    BY <1>1, <1>2, <1>3, <1>5
  <2>2. SettingsFollow(d)'
    BY <1>1, <1>2, <1>5, <2>1, SettingsSaved
  <2> QED
    BY <1>4, <2>2 DEF ConfigInv
<1>6. CASE p.op # "CONFIG"
  <2>1. devices'[d] = AcceptNonce(row[r], p)
    BY <1>1, <1>2, <1>3, <1>6
  <2>2. /\ AcceptNonce(row[r], p).devEui = devices[d].devEui
        /\ AcceptNonce(row[r], p).autoMintIntervalSeconds = devices[d].autoMintIntervalSeconds
    BY <1>2 DEF AcceptNonce, Device
  <2>3. AcceptNonce(row[r], p).autoMintEnabled = devices[d].autoMintEnabled
    <3>1. row[r].autoMintEnabled = devices[d].autoMintEnabled
      BY <1>2 DEF Device
    <3>2. AcceptNonce(row[r], p).autoMintEnabled = row[r].autoMintEnabled
      BY <1>2 DEF AcceptNonce, Device
    <3> QED
      BY <3>1, <3>2
  <2>4. AcceptNonce(row[r], p) # Null
    BY <1>1, <1>2, DeviceUpdates
  <2>5. ConfigsOf(d)' = ConfigsOf(d) /\ SettingsFollow(d)
    BY <1>1, <1>6, ConfigsAppend DEF ConfigInv
  <2>6. SettingsFollow(d)'
    BY <1>2, <2>1, <2>2, <2>3, <2>4, <2>5, SettingsKept
  <2> QED
    BY <1>4, <2>6 DEF ConfigInv
<1> QED
  BY <1>5, <1>6

\* A link leaves the settings of the devices that are not linked.
LEMMA LinksKeepSettings ==
    ASSUME RequestsOK, ConfigInv, NEW r \in Requests, LinkUpdateDevice(r) \/ LinkSaveNonce(r)
    PROVE  ConfigInv'
<1> DEFINE d == job[r].deviceId
           linked == [row[r] EXCEPT !.devEui = job[r].devEui, !.lastNonce = devices[d].lastNonce]
           saved == [devices[d] EXCEPT !.lastNonce = row[r].lastNonce]
<1>1. /\ d \in DeviceIds /\ job[r].devEui \in DevEuis
      /\ row[r] \in Device /\ devices[d] \in Device /\ devices[d] # Null
      /\ devices \in [DeviceIds -> Device \cup {Null}]
  BY JobFields DEF RequestsOK, RequestOK, RowsTyped, LinkSteps, LinkUpdateDevice, LinkSaveNonce
<1>2. PICK new \in {devices[d], linked, saved} : devices' = [devices EXCEPT ![d] = new]
  BY <1>1 DEF LinkUpdateDevice, LinkSaveNonce
<1>3. linked \in Device /\ linked.devEui # Null /\ linked # Null
  <2>1. linked \in Device /\ linked.devEui = job[r].devEui
    BY <1>1 DEF Device
  <2> QED
    BY <1>1, <2>1, ProtocolAssumption
<1>4. /\ saved \in Device /\ saved # Null /\ saved.devEui = devices[d].devEui
      /\ saved.autoMintIntervalSeconds = devices[d].autoMintIntervalSeconds
  <2>1. /\ saved \in Device /\ saved.devEui = devices[d].devEui
        /\ saved.autoMintIntervalSeconds = devices[d].autoMintIntervalSeconds
    BY <1>1 DEF Device
  <2> QED
    BY <2>1, ProtocolAssumption
<1>5. saved.autoMintEnabled = devices[d].autoMintEnabled
  BY <1>1 DEF Device
<1>6. ASSUME NEW c \in DeviceIds PROVE SettingsFollow(c)'
  <2>1. ConfigsOf(c)' = ConfigsOf(c) /\ SettingsFollow(c)
    BY DEF LinkUpdateDevice, LinkSaveNonce, ConfigsOf, Accepted, ConfigInv
  <2>2. devices'[c] = IF c = d THEN new ELSE devices[c]
    BY <1>1, <1>2
  <2> HIDE DEF linked, saved
  <2> QED
    BY <1>1, <1>2, <1>3, <1>4, <1>5, <2>1, <2>2, SettingsKept
<1> QED
  BY <1>6 DEF ConfigInv

LEMMA ConfigInvStep ==
    RequestsOK /\ RecordsOK /\ LogTyped /\ ConfigInv /\ [Next]_vars => ConfigInv'
<1> SUFFICES ASSUME RequestsOK, RecordsOK, LogTyped, ConfigInv, [Next]_vars PROVE ConfigInv'
  OBVIOUS
<1>1. CASE UNCHANGED <<devices, events>>
  <2>1. \A d : ConfigsOf(d)' = ConfigsOf(d) /\ devices'[d] = devices[d]
    BY <1>1 DEF ConfigsOf, Accepted
  <2> QED
    BY <2>1, SettingsKept DEF ConfigInv
<1>2. ASSUME NEW r \in Requests, RecordRejection(r) PROVE ConfigInv'
  <2>1. /\ AppendEvent("rejected", reason[r], job[r].deviceId, job[r].msg)
        /\ devices' = devices
    BY <1>2 DEF RecordRejection
  <2>2. \A d : ConfigsOf(d)' = ConfigsOf(d)
    BY <2>1, ConfigsAppend
  <2> QED
    BY <2>1, <2>2, SettingsKept DEF ConfigInv
<1>3. CASE Register
  <2>1. PICK d \in DeviceIds, devEui \in DevEuis \cup {Null} : RegisterDevice(d, devEui)
    BY <1>3 DEF Register
  <2>2. /\ devices[d] = Null /\ devices' = [devices EXCEPT ![d] = NewDevice(devEui)]
        /\ devices \in [DeviceIds -> Device \cup {Null}]
        /\ \A c : ConfigsOf(c)' = ConfigsOf(c)
    BY <2>1 DEF RegisterDevice, RequestsOK, RowsTyped, ConfigsOf, Accepted
  <2>3. NewDevice(devEui) # Null
    <3>1. NewDevice(devEui) \in Device
      BY DEF NewDevice, Device
    <3> QED
      BY <3>1, ProtocolAssumption
  <2>4. devices'[d] = NewDevice(devEui) /\ \A c \in DeviceIds \ {d} : devices'[c] = devices[c]
    BY <2>2
  <2>5. SettingsFollow(d)'
    BY <2>2, <2>3, <2>4, SettingsOfNew DEF ConfigInv
  <2>6. \A c \in DeviceIds \ {d} : SettingsFollow(c)'
    BY <2>2, <2>4, SettingsKept DEF ConfigInv
  <2> QED
    BY <2>5, <2>6 DEF ConfigInv
<1>4. ASSUME NEW r \in Requests, Arrive(r) \/ Progress(r) \/ LoseConnection(r)
      PROVE  ConfigInv'
  <2>1. CASE pc[r] = "commit" /\ Writes(r)
    BY <2>1, WritesKeepSettings
  <2>2. CASE LinkUpdateDevice(r) \/ LinkSaveNonce(r)
    BY <2>2, LinksKeepSettings
  <2>3. CASE RecordRejection(r)
    BY <2>3, <1>2
  <2>4. CASE Commit(r)
    BY <2>4, <2>1 DEF Commit
  <2>5. CASE LoseConnection(r)
    BY <2>5, <2>1, <1>1 DEF LoseConnection, storeVars
  <2>6. CASE Arrive(r) \/ Checkout(r) \/ SelectDevice(r) \/ Respond(r) \/ GetDevice(r)
             \/ GetToken(r) \/ CreateToken(r) \/ Rollback(r) \/ LinkGetDevice(r)
    <3>1. UNCHANGED storeVars
      BY <2>6 DEF Arrive, Checkout, SelectDevice, Respond, GetDevice, GetToken,
                  CreateToken, Rollback, LinkGetDevice
    <3> QED
      BY <3>1, <1>1 DEF storeVars
  <2> QED
    BY <1>4, <2>2, <2>3, <2>4, <2>5, <2>6 DEF Progress
<1>5. CASE Crash \/ UNCHANGED vars
  BY <1>5, <1>1 DEF Crash, vars, storeVars
<1> QED
  BY <1>3, <1>4, <1>5 DEF Next

\* No concurrent uplink writes older settings back: a device without a DevEUI,
\* which nobody has linked, has those of the last CONFIG on record.
THEOREM PostgresConfigIsLatest == Spec => []ConfigIsLatest
<1>1. RequestsOK /\ LogInv /\ ConfigInv /\ [Next]_vars => ConfigInv'
  BY ConfigInvStep DEF LogInv
<1> QED
  BY <1>1, ConfigInvInit, ConfigInvImplies, PostgresInvariant, LogInvAlways, PTL DEF Spec

-----------------------------------------------------------------------------
\* Rows of devices: what an uplink writes back.

\* What a transaction read of its device is, a nonce apart, what the table has
\* of it, so what it makes of it is what it would make of the table's row.
LEMMA WritesServeNewest ==
    ASSUME RequestsOK, NEW r \in Requests, pc[r] = "commit", Writes(r)
    PROVE  LET d == job[r].deviceId
               p == job[r].msg
           IN devices' = [devices EXCEPT ![d] = IF p.op = "CONFIG" THEN ApplyConfig(@, p)
                                                ELSE AcceptNonce(@, p)]
<1> DEFINE d == job[r].deviceId
           p == job[r].msg
<1>1. /\ d \in DeviceIds /\ devices[d] \in Device
      /\ row[r] = [devices[d] EXCEPT !.lastNonce = row[r].lastNonce]
  BY InTransaction DEF RequestsOK, RequestOK, DeviceHeld, RowsTyped
<1>2. AcceptNonce(row[r], p) = AcceptNonce(devices[d], p)
  BY <1>1 DEF AcceptNonce, Device
<1>3. ApplyConfig(row[r], p) = ApplyConfig(devices[d], p)
  BY <1>1 DEF ApplyConfig, Device
<1>4. devices' = [devices EXCEPT ![d] = ServedDevice(r)]
  BY DEF Writes
<1>5. ServedDevice(r) = IF p.op = "CONFIG" THEN ApplyConfig(devices[d], p)
                        ELSE AcceptNonce(devices[d], p)
  BY <1>2, <1>3 DEF ServedDevice
<1> QED
  BY <1>4, <1>5

\* No uplink undoes what was committed while it waited for the row lock: a
\* CONFIG, a link, whoever made it.
THEOREM PostgresUplinksKeepRows == Spec => UplinksKeepRows
<1>1. ASSUME RequestsOK, [Next]_vars, NEW e \in events' \ events, e.status = "accepted"
      PROVE  devices' = [devices EXCEPT ![e.deviceId] =
                           IF e.msg.op = "CONFIG" THEN ApplyConfig(@, e.msg)
                           ELSE AcceptNonce(@, e.msg)]
  <2>1. ASSUME NEW r \in Requests, RecordRejection(r) PROVE FALSE
    BY <1>1, <2>1, AppendEventAdds DEF RecordRejection, Event
  <2>2. PICK r \in Requests : pc[r] = "commit" /\ Writes(r)
    BY <1>1, <2>1, StepRecords
  <2>3. e.deviceId = job[r].deviceId /\ e.msg = job[r].msg
    BY <1>1, <2>2, AppendEventAdds DEF Writes, Event
  <2> QED
    BY <1>1, <2>2, <2>3, WritesServeNewest
<1>2. RequestsOK /\ [Next]_vars =>
        [\A e \in events' \ events : e.status = "accepted" =>
           devices' = [devices EXCEPT ![e.deviceId] =
                         IF e.msg.op = "CONFIG" THEN ApplyConfig(@, e.msg)
                         ELSE AcceptNonce(@, e.msg)]]_vars
  BY <1>1
<1> QED
  BY <1>2, PostgresInvariant, PTL DEF Spec, UplinksKeepRows

-----------------------------------------------------------------------------
\* Answers.

\* The row an answer speaks of.
Recorded(r) ==
    \E e \in events :
        /\ e.msg = job[r].msg /\ e.deviceId = job[r].deviceId
        /\ e.reason = reason[r]
        /\ e.status = IF reason[r] = NoError THEN "accepted" ELSE "rejected"

\* A request about to commit has no error, one on its way to a rejection has
\* one, and the outcome a request answers with is on record, unless its
\* connection broke.
AnswerOK(r) ==
    /\ pc[r] = "commit" => reason[r] = NoError
    /\ pc[r] \in Rejecting => reason[r] # NoError
    /\ (pc[r] = "respond" /\ job[r].kind = "ingest" /\ job[r].msg.op # "MESSAGE"
        /\ reason[r] # "ingest_rejected") => Recorded(r)

AnswersOK == \A r \in Requests : AnswerOK(r)

\* Only messages leave the log.
LEMMA LogGrows ==
    ASSUME [Next]_vars
    PROVE  \A e \in events : e.msg.op # "MESSAGE" => e \in events'
<1>1. ASSUME NEW status, NEW code, NEW d, NEW p, AppendEvent(status, code, d, p)
      PROVE  \A e \in events : e.msg.op # "MESSAGE" => e \in events'
  BY <1>1 DEF AppendEvent, Prunings
<1> QED
  BY <1>1, StepRecords DEF Writes, RecordRejection

\* What AppendEvent adds is there, unless it is a message.
LEMMA Appends ==
    ASSUME NEW status, NEW code, NEW d, NEW p, p.op # "MESSAGE", AppendEvent(status, code, d, p)
    PROVE  \E e \in events' : e.msg = p /\ e.deviceId = d /\ e.reason = code /\ e.status = status
<1> DEFINE e == Event(recorded', status, code, d, p)
<1>1. e.msg = p /\ e.deviceId = d /\ e.reason = code /\ e.status = status
  BY DEF Event
<1> HIDE DEF e
<1>2. e \in events'
  BY <1>1 DEF AppendEvent, Prunings, e
<1> QED
  BY <1>1, <1>2

LEMMA AnswersOKStep == RequestsOK /\ RecordsOK /\ AnswersOK /\ [Next]_vars => AnswersOK'
<1> SUFFICES ASSUME RequestsOK, RecordsOK, AnswersOK, [Next]_vars PROVE AnswersOK'
  OBVIOUS
<1>1. \A e \in events : e.msg.op # "MESSAGE" => e \in events'
  BY LogGrows
\* A request a step leaves alone is as it was.
<1>2. ASSUME NEW q \in Requests, pc'[q] = pc[q], job'[q] = job[q], reason'[q] = reason[q]
      PROVE  AnswerOK(q)'
  BY <1>1, <1>2 DEF AnswersOK, AnswerOK, Recorded
<1>3. ASSUME NEW r \in Requests, NEW label, pc' = [pc EXCEPT ![r] = label],
             \A q \in Requests \ {r} : job'[q] = job[q] /\ reason'[q] = reason[q],
             AnswerOK(r)'
      PROVE  AnswersOK'
  <2>1. \A q \in Requests \ {r} : pc'[q] = pc[q]
    BY <1>3 DEF RequestsOK, RowsTyped
  <2> QED
    BY <1>2, <1>3, <2>1 DEF AnswersOK
\* A step that moves r, with a code, to a label it may be at.
<1>4. ASSUME NEW r \in Requests, NEW label, pc' = [pc EXCEPT ![r] = label],
             NEW code, reason' = [reason EXCEPT ![r] = code],
             \A q \in Requests \ {r} : job'[q] = job[q],
             label = "commit" => code = NoError,
             label \in Rejecting => code # NoError,
             label = "respond" => job'[r].kind # "ingest" \/ code = "ingest_rejected"
      PROVE  AnswersOK'
  <2>1. pc'[r] = label /\ reason'[r] = code
    BY <1>4 DEF RequestsOK, RowsTyped, RecordsOK
  <2>2. \A q \in Requests \ {r} : reason'[q] = reason[q]
    BY <1>4
  <2>3. AnswerOK(r)'
    BY <1>4, <2>1 DEF AnswerOK
  <2> QED
    BY <1>3, <1>4, <2>2, <2>3
\* One that keeps its outcome.
<1>5. ASSUME NEW r \in Requests, NEW label, pc' = [pc EXCEPT ![r] = label],
             reason' = reason, job' = job,
             label = "commit" => reason[r] = NoError,
             label \in Rejecting => reason[r] # NoError,
             label = "respond" /\ job[r].kind = "ingest" /\ job[r].msg.op # "MESSAGE" =>
               Recorded(r)'
      PROVE  AnswersOK'
  <2>1. pc'[r] = label
    BY <1>5 DEF RequestsOK, RowsTyped
  <2>2. AnswerOK(r)'
    BY <1>5, <2>1 DEF AnswerOK
  <2> QED
    BY <1>3, <1>5, <2>2
<1>6. ASSUME NEW r \in Requests, Arrive(r) PROVE AnswersOK'
  <2>1. /\ pc' = [pc EXCEPT ![r] = "client"] /\ reason' = reason
        /\ \A q \in Requests \ {r} : job'[q] = job[q]
    BY <1>6 DEF Arrive, Goto
  <2>2. AnswerOK(r)'
    <3>1. pc'[r] = "client"
      BY <2>1 DEF RequestsOK, RowsTyped
    <3> QED
      BY <3>1 DEF AnswerOK, Rejecting
  <2> QED
    BY <1>3, <2>1, <2>2
<1>7. ASSUME NEW r \in Requests, Respond(r) PROVE AnswersOK'
  <2>1. /\ pc' = [pc EXCEPT ![r] = "idle"]
        /\ \A q \in Requests \ {r} : job'[q] = job[q] /\ reason'[q] = reason[q]
    BY <1>7 DEF Respond, Goto, RequestsOK, RowsTyped, RecordsOK
  <2>2. AnswerOK(r)'
    <3>1. pc'[r] = "idle"
      BY <2>1 DEF RequestsOK, RowsTyped
    <3> QED
      BY <3>1 DEF AnswerOK, Rejecting
  <2> QED
    BY <1>3, <2>1, <2>2
<1>8. ASSUME NEW r \in Requests, Checkout(r) PROVE AnswersOK'
  <2>1. /\ pc[r] \in DOMAIN Then /\ pc' = [pc EXCEPT ![r] = Then[pc[r]]]
        /\ job' = job /\ reason' = reason
    BY <1>8 DEF Checkout, Goto
  <2>2. /\ Then[pc[r]] \in Rejecting => pc[r] \in Rejecting
        /\ Then[pc[r]] \notin {"commit", "respond"}
    BY <2>1 DEF Then, Rejecting
  <2> QED
    BY <1>5, <2>1, <2>2 DEF AnswersOK, AnswerOK
<1>9. ASSUME NEW r \in Requests, SelectDevice(r) PROVE AnswersOK'
  <2>1. pc' = [pc EXCEPT ![r] = "device"] /\ job' = job /\ reason' = reason
    BY <1>9 DEF SelectDevice, Goto
  <2> QED
    BY <1>5, <2>1 DEF Rejecting
<1>10. ASSUME NEW r \in Requests, Rollback(r) PROVE AnswersOK'
  <2>1. /\ pc[r] = "rollback" /\ pc' = [pc EXCEPT ![r] = "recordClient"]
        /\ job' = job /\ reason' = reason
    BY <1>10 DEF Rollback, Goto
  <2>2. reason[r] # NoError
    BY <2>1 DEF AnswersOK, AnswerOK, Rejecting
  <2> QED
    BY <1>5, <2>1, <2>2
<1>11. ASSUME NEW r \in Requests, GetDevice(r) PROVE AnswersOK'
  <2> DEFINE p == job[r].msg
             auth == AuthError(LockedRow(r), job[r].deviceId, p)
             code == IF auth # NoError THEN auth ELSE EarlyError(p)
             label == IF code # NoError THEN "rollback"
                      ELSE IF p.op \in TokenOps THEN "token" ELSE "commit"
  <2>1. /\ job' = job /\ reason' = [reason EXCEPT ![r] = code]
        /\ pc' = [pc EXCEPT ![r] = label]
    BY <1>11 DEF GetDevice, Goto
  <2> HIDE DEF code
  <2>2. /\ label = "commit" => code = NoError
        /\ label \in Rejecting => code # NoError
        /\ label # "respond"
    BY DEF Rejecting
  <2> HIDE DEF label
  <2> QED
    BY <1>4, <2>1, <2>2
<1>12. ASSUME NEW r \in Requests, GetToken(r) PROVE AnswersOK'
  <2> DEFINE p == job[r].msg
             code == TokenError(tokens[p.tick], job[r].deviceId, p)
             label == IF code # NoError THEN "rollback"
                      ELSE IF p.op = "DEPLOY" THEN "insert" ELSE "commit"
  <2>1. /\ job' = job /\ reason' = [reason EXCEPT ![r] = code]
        /\ pc' = [pc EXCEPT ![r] = label]
    BY <1>12 DEF GetToken, Goto
  <2> HIDE DEF code
  <2>2. /\ label = "commit" => code = NoError
        /\ label \in Rejecting => code # NoError
        /\ label # "respond"
    BY DEF Rejecting
  <2> HIDE DEF label
  <2> QED
    BY <1>4, <2>1, <2>2
<1>13. ASSUME NEW r \in Requests, CreateToken(r) PROVE AnswersOK'
  <2> DEFINE taken == tokens[job[r].msg.tick] # Null
             code == IF taken THEN "token_already_exists" ELSE NoError
             label == IF taken THEN "rollback" ELSE "commit"
  <2>1. /\ job' = job /\ reason' = [reason EXCEPT ![r] = code]
        /\ pc' = [pc EXCEPT ![r] = label]
    BY <1>13 DEF CreateToken, Goto
  <2>2. /\ label = "commit" => code = NoError
        /\ label \in Rejecting => code # NoError
        /\ label # "respond"
    BY DEF Rejecting, NoError
  <2> HIDE DEF label, code
  <2> QED
    BY <1>4, <2>1, <2>2
<1>14. ASSUME NEW r \in Requests, Commit(r) PROVE AnswersOK'
  <2>1. /\ pc[r] = "commit" /\ pc' = [pc EXCEPT ![r] = "respond"]
        /\ job' = job /\ reason' = reason
        /\ AppendEvent("accepted", NoError, job[r].deviceId, job[r].msg)
    BY <1>14 DEF Commit, Writes, Goto
  <2>2. reason[r] = NoError
    BY <2>1 DEF AnswersOK, AnswerOK
  <2>3. job[r].msg.op # "MESSAGE" => Recorded(r)'
    BY <2>1, <2>2, Appends DEF Recorded
  <2> QED
    BY <1>5, <2>1, <2>3 DEF Rejecting
<1>15. ASSUME NEW r \in Requests, RecordRejection(r) PROVE AnswersOK'
  <2>1. /\ pc[r] = "record" /\ pc' = [pc EXCEPT ![r] = "respond"]
        /\ job' = job /\ reason' = reason
        /\ AppendEvent("rejected", reason[r], job[r].deviceId, job[r].msg)
    BY <1>15 DEF RecordRejection, Goto
  <2>2. reason[r] # NoError
    BY <2>1 DEF AnswersOK, AnswerOK, Rejecting
  <2>3. job[r].msg.op # "MESSAGE" => Recorded(r)'
    BY <2>1, <2>2, Appends DEF Recorded
  <2> QED
    BY <1>5, <2>1, <2>3 DEF Rejecting
<1>16. ASSUME NEW r \in Requests, LinkGetDevice(r) \/ LinkUpdateDevice(r) \/ LinkSaveNonce(r)
       PROVE  AnswersOK'
  <2>1. job' = job /\ job[r].kind # "ingest"
    BY <1>16 DEF LinkGetDevice, LinkUpdateDevice, LinkSaveNonce, RequestsOK, RequestOK, LinkSteps
  <2>2. PICK label \in {"respond", "updateClient", "nonceClient"} : pc' = [pc EXCEPT ![r] = label]
    BY <1>16 DEF LinkGetDevice, LinkUpdateDevice, LinkSaveNonce, Goto
  <2>3. \A q \in Requests \ {r} : reason'[q] = reason[q]
    BY <1>16 DEF LinkGetDevice, LinkUpdateDevice, LinkSaveNonce, RecordsOK
  <2>4. AnswerOK(r)'
    <3>1. pc'[r] = label
      BY <2>2 DEF RequestsOK, RowsTyped
    <3> QED
      BY <2>1, <2>2, <3>1 DEF AnswerOK, Rejecting
  <2> QED
    BY <1>3, <2>1, <2>2, <2>3, <2>4
<1>17. ASSUME NEW r \in Requests, LoseConnection(r) PROVE AnswersOK'
  <2>1. /\ pc' = [pc EXCEPT ![r] = AfterLoss(r)]
        /\ job' = job /\ reason' = [reason EXCEPT ![r] = "ingest_rejected"]
    BY <1>17 DEF LoseConnection, Goto
  <2>2. PICK label : label = AfterLoss(r)
    OBVIOUS
  <2>3. PICK code : code = "ingest_rejected"
    OBVIOUS
  <2>4. label # "commit" /\ code # NoError
    BY <2>2, <2>3 DEF AfterLoss, NoError
  <2>5. /\ pc' = [pc EXCEPT ![r] = label] /\ reason' = [reason EXCEPT ![r] = code]
        /\ \A q \in Requests \ {r} : job'[q] = job[q]
    BY <2>1, <2>2, <2>3
  <2> QED
    BY <1>4, <2>3, <2>4, <2>5
<1>18. CASE Crash
  BY <1>18 DEF Crash, AnswersOK, AnswerOK, Rejecting
<1>19. CASE Register \/ UNCHANGED vars
  <2>1. UNCHANGED <<pc, job, reason>>
    BY <1>19 DEF Register, vars, requestVars
  <2> QED
    BY <1>2, <2>1 DEF AnswersOK
<1> QED
  BY <1>6, <1>7, <1>8, <1>9, <1>10, <1>11, <1>12, <1>13, <1>14, <1>15, <1>16, <1>17, <1>18, <1>19
  DEF Next, Progress

\* No answer tells of a transaction that did not commit, whatever commits are
\* in doubt, and no outcome of an ingest is lost between its record and its
\* answer.
THEOREM PostgresAnswersAreOnRecord == Spec => AnswersAreOnRecord
<1>1. Init => AnswersOK
  BY DEF Init, AnswersOK, AnswerOK, Rejecting
<1>2. AnswersOK /\ [Next]_vars =>
        [\A r \in Requests :
           (/\ Respond(r) /\ job[r].kind = "ingest" /\ job[r].msg.op # "MESSAGE"
            /\ reason[r] # "ingest_rejected") =>
              \E e \in events :
                 /\ e.msg = job[r].msg /\ e.deviceId = job[r].deviceId
                 /\ e.reason = reason[r]
                 /\ e.status = IF reason[r] = NoError THEN "accepted" ELSE "rejected"]_vars
  BY DEF AnswersOK, AnswerOK, Recorded, Respond
<1>3. RequestsOK /\ LogInv => RecordsOK
  BY DEF LogInv
<1> QED
  BY <1>1, <1>2, <1>3, AnswersOKStep, PostgresInvariant, LogInvAlways, PTL
     DEF Spec, AnswersAreOnRecord

-----------------------------------------------------------------------------
\* What moves a nonce.

\* A commit saves its payload's nonce in the row of its device.
LEMMA WritesSaveNonce ==
    ASSUME RequestsOK, NEW r \in Requests, pc[r] = "commit", Writes(r)
    PROVE  \E device \in Device :
              /\ device.lastNonce = job[r].msg.nonce
              /\ devices' = [devices EXCEPT ![job[r].deviceId] = device]
<1> DEFINE p == job[r].msg
           new == IF p.op = "CONFIG" THEN ApplyConfig(row[r], p) ELSE AcceptNonce(row[r], p)
<1>1. row[r] \in Device /\ p \in Payloads
  BY InTransaction
<1>2. AcceptNonce(row[r], p) \in Device /\ AcceptNonce(row[r], p).lastNonce = p.nonce
  BY <1>1, PayloadFields DEF AcceptNonce, Device
<1>3. p.op = "CONFIG" => ApplyConfig(row[r], p) \in Device /\ ApplyConfig(row[r], p).lastNonce = p.nonce
  BY <1>1, PayloadFields DEF ApplyConfig, Device
<1>4. devices' = [devices EXCEPT ![job[r].deviceId] = new]
  BY DEF Writes, ServedDevice
<1> QED
  BY <1>2, <1>3, <1>4

\* What a step that moves the nonce of c is: a commit of an uplink of c, or the
\* last statement of a link of c.
LEMMA StepMovesNonce ==
    ASSUME RequestsOK, RecordsOK, [Next]_vars, NEW c \in DeviceIds,
           devices[c] # Null, devices'[c].lastNonce # devices[c].lastNonce
    PROVE  \/ /\ recorded' = recorded + 1
              /\ \A e \in events' \ events :
                    /\ e.status = "accepted" /\ e.deviceId = c
                    /\ e.msg.nonce = devices'[c].lastNonce
           \/ \E r \in Requests : LinkSaveNonce(r) /\ job[r].deviceId = c
<1>0. devices \in [DeviceIds -> Device \cup {Null}] /\ devices[c] \in Device
  BY DEF RequestsOK, RowsTyped
<1>1. ASSUME NEW r \in Requests, pc[r] = "commit", Writes(r)
      PROVE  /\ recorded' = recorded + 1
             /\ \A e \in events' \ events :
                   /\ e.status = "accepted" /\ e.deviceId = c
                   /\ e.msg.nonce = devices'[c].lastNonce
  <2>1. PICK d \in DeviceIds, p \in Payloads :
           d = job[r].deviceId /\ p = job[r].msg /\ AppendEvent("accepted", NoError, d, p)
    BY <1>1, RecordingRequest DEF Writes
  <2>2. PICK device \in Device :
           device.lastNonce = p.nonce /\ devices' = [devices EXCEPT ![d] = device]
    BY <1>1, <2>1, WritesSaveNonce
  <2>3. c = d /\ devices'[c].lastNonce = p.nonce
    BY <1>0, <2>2
  <2>4. /\ recorded' = recorded + 1
        /\ events' \subseteq events \cup {Event(recorded + 1, "accepted", NoError, d, p)}
    BY <2>1, AppendEventAdds
  <2> QED
    BY <2>3, <2>4 DEF Event
<1>2. ASSUME NEW r \in Requests, LinkUpdateDevice(r) PROVE FALSE
  <2> DEFINE d == job[r].deviceId
             linked == [row[r] EXCEPT !.devEui = job[r].devEui,
                                      !.lastNonce = devices[d].lastNonce]
  <2>1. /\ d \in DeviceIds /\ row[r] \in Device
        /\ devices' = devices \/ devices' = [devices EXCEPT ![d] = linked]
    BY <1>2, JobFields DEF RequestsOK, RequestOK, RowsTyped, LinkSteps, LinkUpdateDevice
  <2>2. linked.lastNonce = devices[d].lastNonce
    BY <2>1 DEF Device
  <2> HIDE DEF linked
  <2> QED
    BY <1>0, <2>1, <2>2
<1>3. ASSUME NEW r \in Requests, LinkSaveNonce(r) PROVE job[r].deviceId = c
  BY <1>0, <1>3 DEF LinkSaveNonce
<1>4. CASE Register
  <2>1. PICK d \in DeviceIds, devEui \in DevEuis \cup {Null} : RegisterDevice(d, devEui)
    BY <1>4 DEF Register
  <2> QED
    BY <1>0, <2>1 DEF RegisterDevice
<1>5. CASE Crash \/ UNCHANGED vars
  BY <1>5 DEF Crash, vars, storeVars
<1>6. ASSUME NEW r \in Requests, Arrive(r) \/ Progress(r) \/ LoseConnection(r)
      PROVE  \/ devices' = devices
             \/ pc[r] = "commit" /\ Writes(r)
             \/ LinkUpdateDevice(r) \/ LinkSaveNonce(r)
  BY <1>6 DEF Commit, Progress, Arrive, Checkout, Respond, SelectDevice, GetDevice, GetToken,
         CreateToken, Rollback, RecordRejection, LinkGetDevice, LoseConnection, storeVars
<1> QED
  BY <1>1, <1>2, <1>3, <1>4, <1>5, <1>6 DEF Next

\* Whatever overlaps, breaks or dies, a device's nonce moves with an uplink of
\* its own that is accepted and becomes that uplink's, or with a link request of
\* its own: no refusal burns it, and no request of another device touches it.
THEOREM PostgresNonceMoves == Spec => NonceMovesByUplinkOrLink
<1>1. RequestsOK /\ LogInv /\ [Next]_vars =>
        [\A d \in DeviceIds :
           (devices[d] # Null /\ devices'[d].lastNonce # devices[d].lastNonce) =>
              \/ /\ recorded' = recorded + 1
                 /\ \A e \in events' \ events :
                       /\ e.status = "accepted" /\ e.deviceId = d
                       /\ e.msg.nonce = devices'[d].lastNonce
              \/ \E r \in Requests : LinkSaveNonce(r) /\ job[r].deviceId = d]_vars
  BY StepMovesNonce DEF LogInv
<1> QED
  BY <1>1, PostgresInvariant, LogInvAlways, PTL DEF Spec, NonceMovesByUplinkOrLink

-----------------------------------------------------------------------------
\* Nobody is stuck: the events there is room for.

\* How many events a request may still record: one with COMMIT, and one more if
\* the answer to COMMIT is lost.
TwiceAt == {"client", "select", "device", "token", "insert", "commit"}
PendingAt == TwiceAt \cup {"rollback", "recordClient", "record"}
Pending(label) == IF label \in TwiceAt THEN 2 ELSE IF label \in PendingAt THEN 1 ELSE 0

At(labels) == {r \in Requests : pc[r] \in labels}

\* No request arrives that has no room for its events.
RoomInv ==
    /\ IsFiniteSet(At(TwiceAt)) /\ IsFiniteSet(At(PendingAt))
    /\ recorded \in Nat /\ arrived \in 0..MaxRequests
    /\ recorded + Cardinality(At(TwiceAt)) + Cardinality(At(PendingAt)) <= 2 * arrived

LEMMA AtMoves ==
    ASSUME pc \in [Requests -> Labels], NEW r \in Requests, NEW label,
           pc' = [pc EXCEPT ![r] = label], NEW labels, IsFiniteSet(At(labels))
    PROVE  /\ IsFiniteSet(At(labels)')
           /\ Cardinality(At(labels)') = Cardinality(At(labels))
                  + (IF label \in labels THEN 1 ELSE 0) - (IF pc[r] \in labels THEN 1 ELSE 0)
<1>1. Cardinality(At(labels)) \in Nat
  BY FS_CardinalityType
<1>2. r \in At(labels) <=> pc[r] \in labels
  BY DEF At
<1>3. CASE label \in labels
  <2>1. At(labels)' = At(labels) \cup {r}
    BY <1>3 DEF At
  <2>2. /\ IsFiniteSet(At(labels) \cup {r})
        /\ Cardinality(At(labels) \cup {r}) =
              IF r \in At(labels) THEN Cardinality(At(labels)) ELSE Cardinality(At(labels)) + 1
    BY FS_AddElement
  <2> QED
    BY <1>1, <1>2, <1>3, <2>1, <2>2
<1>4. CASE label \notin labels
  <2>1. At(labels)' = At(labels) \ {r}
    BY <1>4 DEF At
  <2>2. /\ IsFiniteSet(At(labels) \ {r})
        /\ Cardinality(At(labels) \ {r}) =
              IF r \in At(labels) THEN Cardinality(At(labels)) - 1 ELSE Cardinality(At(labels))
    BY FS_RemoveElement
  <2> QED
    BY <1>1, <1>2, <1>4, <2>1, <2>2
<1> QED
  BY <1>3, <1>4

\* A step of one request that records no more than it gives up.
LEMMA RoomMoves ==
    ASSUME RowsTyped, RoomInv, NEW r \in Requests, NEW label, pc' = [pc EXCEPT ![r] = label],
           recorded' \in Nat, arrived' \in 0..MaxRequests,
           recorded' + Pending(label) + 2 * arrived <= recorded + Pending(pc[r]) + 2 * arrived'
    PROVE  RoomInv'
<1> DEFINE twice == Cardinality(At(TwiceAt))
           once == Cardinality(At(PendingAt))
           Counts(l, labels) == IF l \in labels THEN 1 ELSE 0
<1>1. twice \in Nat /\ once \in Nat
  BY FS_CardinalityType DEF RoomInv
<1>2. \A l : Counts(l, TwiceAt) + Counts(l, PendingAt) = Pending(l)
  BY DEF Pending, PendingAt
<1>3. /\ IsFiniteSet(At(TwiceAt)')
      /\ Cardinality(At(TwiceAt)') = twice + Counts(label, TwiceAt) - Counts(pc[r], TwiceAt)
  BY AtMoves DEF RowsTyped, RoomInv
<1>4. /\ IsFiniteSet(At(PendingAt)')
      /\ Cardinality(At(PendingAt)') =
            once + Counts(label, PendingAt) - Counts(pc[r], PendingAt)
  BY AtMoves DEF RowsTyped, RoomInv
<1>5. recorded + twice + once <= 2 * arrived /\ recorded \in Nat /\ arrived \in Nat
  BY DEF RoomInv
<1>6. /\ Pending(label) \in Nat /\ Pending(pc[r]) \in Nat /\ arrived' \in Nat
      /\ \A l, labels : Counts(l, labels) \in Nat
  BY PostgresAssumption DEF Pending
<1> HIDE DEF twice, once, Counts
<1>7. recorded' + Cardinality(At(TwiceAt)') + Cardinality(At(PendingAt)') <= 2 * arrived'
  <2>1. /\ Counts(label, TwiceAt) + Counts(label, PendingAt) = Pending(label)
        /\ Counts(pc[r], TwiceAt) + Counts(pc[r], PendingAt) = Pending(pc[r])
    BY <1>2
  <2>2. /\ Counts(label, TwiceAt) \in Nat /\ Counts(label, PendingAt) \in Nat
        /\ Counts(pc[r], TwiceAt) \in Nat /\ Counts(pc[r], PendingAt) \in Nat
    BY <1>6
  <2> QED
    BY <1>1, <1>3, <1>4, <1>5, <1>6, <2>1, <2>2
<1> QED
  BY <1>3, <1>4, <1>7 DEF RoomInv

LEMMA RoomInvInit == Init => RoomInv
<1> SUFFICES ASSUME Init PROVE RoomInv
  OBVIOUS
<1>1. At(TwiceAt) = {} /\ At(PendingAt) = {}
  BY DEF Init, At, TwiceAt, PendingAt
<1>2. recorded = 0 /\ arrived = 0 /\ MaxRequests \in Nat
  BY PostgresAssumption DEF Init
<1> QED
  BY <1>1, <1>2, FS_EmptySet DEF RoomInv

LEMMA RoomInvStep == RequestsOK /\ RoomInv /\ [Next]_vars => RoomInv'
<1> SUFFICES ASSUME RequestsOK, RoomInv, [Next]_vars PROVE RoomInv'
  OBVIOUS
<1> USE DEF TwiceAt, PendingAt
<1>1. RowsTyped /\ recorded \in Nat /\ arrived \in 0..MaxRequests /\ MaxRequests \in Nat
  BY PostgresAssumption DEF RequestsOK, RoomInv
<1>2. ASSUME NEW r \in Requests, Arrive(r) PROVE RoomInv'
  <2>1. /\ pc[r] = "idle" /\ pc' = [pc EXCEPT ![r] = "client"]
        /\ arrived' = arrived + 1 /\ arrived < MaxRequests /\ recorded' = recorded
    BY <1>2 DEF Arrive, Goto, storeVars
  <2>2. Pending("client") = 2 /\ Pending(pc[r]) = 0
    BY <2>1 DEF Pending
  <2>3. recorded' \in Nat /\ arrived' \in 0..MaxRequests
    BY <1>1, <2>1
  <2>4. recorded' + Pending("client") + 2 * arrived <= recorded + Pending(pc[r]) + 2 * arrived'
    BY <1>1, <2>1, <2>2
  <2> QED
    BY <1>1, <2>1, <2>3, <2>4, RoomMoves
<1>3. ASSUME NEW r \in Requests, NEW from, NEW label, pc[r] = from, pc' = [pc EXCEPT ![r] = label],
             Pending(label) <= Pending(from), UNCHANGED <<recorded, arrived>>
      PROVE  RoomInv'
  <2>1. Pending(label) \in Nat /\ Pending(pc[r]) \in Nat
    BY DEF Pending
  <2>2. recorded' \in Nat /\ arrived' \in 0..MaxRequests
    BY <1>1, <1>3
  <2>3. recorded' + Pending(label) + 2 * arrived <= recorded + Pending(pc[r]) + 2 * arrived'
    BY <1>1, <1>3, <2>1
  <2> QED
    BY <1>1, <1>3, <2>2, <2>3, RoomMoves
<1>4. ASSUME NEW r \in Requests, Checkout(r) PROVE RoomInv'
  <2>1. pc[r] \in DOMAIN Then /\ pc' = [pc EXCEPT ![r] = Then[pc[r]]] /\ UNCHANGED <<recorded, arrived>>
    BY <1>4 DEF Checkout, Goto, storeVars
  <2>2. Pending(Then[pc[r]]) <= Pending(pc[r])
    BY <2>1 DEF Then, Pending
  <2> QED
    BY <1>3, <2>1, <2>2
<1>5. ASSUME NEW r \in Requests, SelectDevice(r) \/ Respond(r) \/ Rollback(r) PROVE RoomInv'
  <2>1. PICK from \in {"select", "respond", "rollback"}, label \in {"device", "idle", "recordClient"} :
           /\ pc[r] = from /\ pc' = [pc EXCEPT ![r] = label] /\ UNCHANGED <<recorded, arrived>>
           /\ Pending(label) <= Pending(from)
    BY <1>5 DEF SelectDevice, Respond, Rollback, Goto, storeVars, Pending
  <2> QED
    BY <1>3, <2>1
<1>6. ASSUME NEW r \in Requests, GetDevice(r) \/ GetToken(r) \/ CreateToken(r) PROVE RoomInv'
  <2>1. PICK from \in {"device", "token", "insert"}, label \in {"rollback", "token", "insert", "commit"} :
           pc[r] = from /\ pc' = [pc EXCEPT ![r] = label] /\ UNCHANGED <<recorded, arrived>>
    BY <1>6 DEF GetDevice, GetToken, CreateToken, Goto, storeVars
  <2>2. Pending(label) <= Pending(from)
    BY <2>1 DEF Pending
  <2> QED
    BY <1>3, <2>1, <2>2
<1>7. ASSUME NEW r \in Requests, LinkGetDevice(r) \/ LinkUpdateDevice(r) \/ LinkSaveNonce(r)
      PROVE  RoomInv'
  <2>1. PICK from \in {"device", "update", "nonce"}, label \in {"respond", "updateClient", "nonceClient"} :
           pc[r] = from /\ pc' = [pc EXCEPT ![r] = label] /\ UNCHANGED <<recorded, arrived>>
    BY <1>7 DEF LinkGetDevice, LinkUpdateDevice, LinkSaveNonce, Goto, storeVars
  <2>2. Pending(label) <= Pending(from)
    BY <2>1 DEF Pending
  <2> QED
    BY <1>3, <2>1, <2>2
<1>8. ASSUME NEW r \in Requests, Commit(r) \/ RecordRejection(r) PROVE RoomInv'
  <2>1. /\ pc[r] \in {"commit", "record"} /\ pc' = [pc EXCEPT ![r] = "respond"]
        /\ recorded' = recorded + 1 /\ arrived' = arrived
    BY <1>8 DEF Commit, Writes, RecordRejection, AppendEvent, Goto
  <2>2. Pending("respond") = 0 /\ Pending(pc[r]) \in {1, 2}
    BY <2>1 DEF Pending
  <2>3. recorded' \in Nat /\ arrived' \in 0..MaxRequests
    BY <1>1, <2>1
  <2>4. recorded' + Pending("respond") + 2 * arrived <= recorded + Pending(pc[r]) + 2 * arrived'
    BY <1>1, <2>1, <2>2
  <2> QED
    BY <1>1, <2>1, <2>3, <2>4, RoomMoves
<1>9. ASSUME NEW r \in Requests, LoseConnection(r) PROVE RoomInv'
  <2>1. pc[r] \in Connected /\ pc' = [pc EXCEPT ![r] = AfterLoss(r)] /\ arrived' = arrived
    BY <1>9 DEF LoseConnection, Goto
  <2>2. AfterLoss(r) \in {"recordClient", "respond"}
        /\ (AfterLoss(r) = "recordClient" => pc[r] \in {"device"} \cup Locking)
    BY DEF AfterLoss
  <2>3. recorded' = recorded \/ (pc[r] = "commit" /\ recorded' = recorded + 1)
    BY <1>9 DEF LoseConnection, Writes, AppendEvent, storeVars
  <2>4. recorded' + Pending(AfterLoss(r)) <= recorded + Pending(pc[r])
    BY <1>1, <2>2, <2>3 DEF Locking, Pending
  <2>5. recorded' \in Nat /\ arrived' \in 0..MaxRequests
    BY <1>1, <2>1, <2>3
  <2>6. Pending(AfterLoss(r)) \in Nat /\ Pending(pc[r]) \in Nat
    BY DEF Pending
  <2>7. recorded' + Pending(AfterLoss(r)) + 2 * arrived <= recorded + Pending(pc[r]) + 2 * arrived'
    BY <1>1, <2>1, <2>4, <2>5, <2>6
  <2> QED
    BY <1>1, <2>1, <2>5, <2>7, RoomMoves
<1>10. CASE Crash
  <2>1. At(TwiceAt)' = {} /\ At(PendingAt)' = {} /\ recorded' = recorded /\ arrived' = arrived
    BY <1>10 DEF Crash, At, storeVars
  <2>2. Cardinality(At(TwiceAt)) \in Nat /\ Cardinality(At(PendingAt)) \in Nat
    BY FS_CardinalityType DEF RoomInv
  <2>3. recorded <= 2 * arrived
    BY <1>1, <2>2 DEF RoomInv
  <2> QED
    BY <1>1, <2>1, <2>3, FS_EmptySet DEF RoomInv
<1>11. CASE Register \/ UNCHANGED vars
  BY <1>11 DEF Register, RegisterDevice, vars, requestVars, RoomInv, At, storeVars
<1> QED
  BY <1>2, <1>4, <1>5, <1>6, <1>7, <1>8, <1>9, <1>10, <1>11 DEF Next, Progress

-----------------------------------------------------------------------------
\* Nobody is stuck.

\* What a request waits for at the statement it has reached is there: these are
\* the guards of Progress(r).
CanGo(r) ==
    \/ pc[r] \in DOMAIN Then /\ Cardinality(clients) < PoolSize
    \/ pc[r] \in {"select", "rollback", "nonce", "respond"}
    \/ pc[r] = "device" /\ DeviceRowFree(r)
    \/ pc[r] = "token" /\ (tokens[job[r].msg.tick] = Null \/ tokenLock[job[r].msg.tick] = Null)
    \/ pc[r] = "insert" /\ tokenLock[job[r].msg.tick] = Null
    \/ pc[r] = "update" /\ deviceLock[job[r].deviceId] = Null
    \/ pc[r] \in {"commit", "record"} /\ recorded < MaxEvents

LEMMA ProgressCanGo == \A r \in Requests : Progress(r) => CanGo(r)
<1> SUFFICES ASSUME NEW r \in Requests, Progress(r) PROVE CanGo(r)
  OBVIOUS
<1>1. CASE Checkout(r) \/ SelectDevice(r) \/ Respond(r) \/ Rollback(r) \/ LinkSaveNonce(r)
  BY <1>1 DEF CanGo, Checkout, SelectDevice, Respond, Rollback, LinkSaveNonce
<1>2. CASE GetDevice(r) \/ LinkGetDevice(r) \/ LinkUpdateDevice(r)
  BY <1>2 DEF CanGo, GetDevice, LinkGetDevice, LinkUpdateDevice
<1>3. CASE GetToken(r) \/ CreateToken(r)
  BY <1>3 DEF CanGo, GetToken, CreateToken
<1>4. CASE Commit(r) \/ RecordRejection(r)
  BY <1>4 DEF CanGo, Commit, Writes, RecordRejection, AppendEvent
<1> QED
  BY <1>1, <1>2, <1>3, <1>4 DEF Progress

\* While a request is in progress, some request can go on.
NoneStuck == (\E r \in Requests : pc[r] # "idle") => \E r \in Requests : CanGo(r)

\* The room an event needs is there when it is recorded.
LEMMA RoomForEvent ==
    ASSUME RoomInv, NEW r \in Requests, pc[r] \in {"commit", "record"}
    PROVE  recorded < MaxEvents
<1>1. r \in At(PendingAt)
  BY DEF At, TwiceAt, PendingAt
<1>2. /\ Cardinality(At(TwiceAt)) \in Nat /\ Cardinality(At(PendingAt)) \in Nat
      /\ Cardinality(At(PendingAt)) # 0
  BY <1>1, FS_CardinalityType, FS_EmptySet DEF RoomInv
<1>3. MaxRequests \in Nat /\ MaxEvents \in Nat /\ MaxEvents >= 2 * MaxRequests
  BY PostgresAssumption, StoreAssumption
<1>4. recorded + 1 <= 2 * arrived /\ arrived \in 0..MaxRequests /\ recorded \in Nat
  BY <1>2, <1>3 DEF RoomInv
<1> QED
  BY <1>3, <1>4

\* If nobody could go on, then nobody would hold a token, for its holder is
\* about to end; so nobody would wait for one, so no transaction would be under
\* way; so no device row would be locked and no connection be in use, and
\* whoever waits for either could go on.
LEMMA SomebodyGoes == RequestsOK /\ LocksInv /\ RoomInv => NoneStuck
<1> SUFFICES ASSUME RequestsOK, LocksInv, RoomInv, NEW q \in Requests, pc[q] # "idle",
                    \A r \in Requests : ~CanGo(r)
             PROVE  FALSE
  BY DEF NoneStuck
<1>1. /\ pc \in [Requests -> Labels] /\ tokenLock \in [Ticks -> Requests \cup {Null}]
      /\ deviceLock \in [DeviceIds -> Requests \cup {Null}]
  BY DEF RequestsOK, RowsTyped
<1>2. \A r \in Requests : pc[r] \notin {"select", "rollback", "nonce", "respond", "commit", "record"}
  BY RoomForEvent DEF CanGo
<1>3. \A t \in Ticks : tokenLock[t] = Null
  BY <1>1, <1>2 DEF LocksInv, HoldsOK
<1>4. \A r \in Requests : pc[r] \notin {"token", "insert"}
  <2> SUFFICES ASSUME NEW r \in Requests, pc[r] \in {"token", "insert"} PROVE FALSE
    OBVIOUS
  <2>1. job[r].msg \in Payloads /\ job[r].msg.op \in TokenOps
    BY InTransaction DEF RequestsOK, RequestOK, TokenOps
  <2>2. job[r].msg.tick \in Ticks
    BY <2>1, PayloadFields DEF TokenOps
  <2> QED
    BY <1>3, <2>2 DEF CanGo
<1>5. \A r \in Requests : pc[r] \notin Locking
  BY <1>2, <1>4 DEF Locking
<1>6. \A d \in DeviceIds : deviceLock[d] = Null
  BY <1>1, <1>5 DEF LocksInv, HoldsOK
<1>7. \A r \in Requests : pc[r] \notin {"device", "update"}
  <2> SUFFICES ASSUME NEW r \in Requests, pc[r] \in {"device", "update"} PROVE FALSE
    OBVIOUS
  <2>1. job[r].deviceId \in DeviceIds
    BY JobFields DEF RequestsOK, RequestOK
  <2> QED
    BY <1>6, <2>1 DEF CanGo, DeviceRowFree
<1>8. \A r \in Requests : pc[r] \notin Connected
  BY <1>2, <1>5, <1>7 DEF Connected
<1>9. clients = {}
  BY <1>8 DEF LocksInv, HoldsOK, PoolOK
<1>10. Cardinality(clients) < PoolSize
  BY <1>9, FS_EmptySet, PostgresAssumption
<1>11. pc[q] \in DOMAIN Then
  BY <1>1, <1>2, <1>8 DEF Labels
<1> QED
  BY <1>10, <1>11 DEF CanGo

\* Whatever interleaves and whatever fails, the requests never all wait: not
\* for the pool, which a waiting one never holds a connection of, and not for
\* each other's rows, which are locked device first.
THEOREM PostgresNeverStuck == Spec => []NoneStuck
<1>1. Spec => []RoomInv
  BY RoomInvInit, RoomInvStep, PostgresInvariant, PTL DEF Spec
<1> QED
  BY <1>1, SomebodyGoes, PostgresInvariant, LocksInvAlways, PTL

-----------------------------------------------------------------------------
\* Every request runs down.

\* The statements a request still has before it, at most.
Rank(label) ==
    CASE label = "client" -> 11
      [] label = "select" -> 10
      [] label = "device" -> 9
      [] label \in {"token", "updateClient"} -> 8
      [] label \in {"insert", "update"} -> 7
      [] label \in {"commit", "nonceClient"} -> 6
      [] label \in {"rollback", "nonce"} -> 5
      [] label = "recordClient" -> 4
      [] label = "record" -> 3
      [] label = "respond" -> 2
      [] label = "idle" -> 1

\* A request's own step takes it on; no step takes a request back but its
\* arrival, of which there are as many as requests.
RunsDown ==
    [][\A r \in Requests :
         /\ Progress(r) => Rank(pc'[r]) < Rank(pc[r])
         /\ \/ pc'[r] = pc[r] \/ Rank(pc'[r]) < Rank(pc[r])
            \/ pc[r] = "idle" /\ arrived' = arrived + 1]_vars

LEMMA OwnStepGoesOn ==
    ASSUME RequestsOK, NEW r \in Requests, Progress(r) \/ LoseConnection(r)
    PROVE  /\ Rank(pc'[r]) < Rank(pc[r])
           /\ \A q \in Requests \ {r} : pc'[q] = pc[q]
<1>1. pc \in [Requests -> Labels]
  BY DEF RequestsOK, RowsTyped
<1>2. ASSUME NEW label, pc' = [pc EXCEPT ![r] = label], Rank(label) < Rank(pc[r])
      PROVE  /\ Rank(pc'[r]) < Rank(pc[r])
             /\ \A q \in Requests \ {r} : pc'[q] = pc[q]
  <2>1. pc'[r] = label /\ \A q \in Requests \ {r} : pc'[q] = pc[q]
    BY <1>1, <1>2
  <2> QED
    BY <1>2, <2>1
<1>3. CASE Checkout(r)
  <2>1. pc[r] \in DOMAIN Then /\ pc' = [pc EXCEPT ![r] = Then[pc[r]]]
    BY <1>3 DEF Checkout, Goto
  <2>2. Rank(Then[pc[r]]) < Rank(pc[r])
    BY <2>1 DEF Then, Rank
  <2> QED
    BY <1>2, <2>1, <2>2
<1>4. CASE SelectDevice(r) \/ Respond(r) \/ Rollback(r) \/ RecordRejection(r) \/ Commit(r)
  <2>1. \/ pc[r] = "select" /\ pc' = [pc EXCEPT ![r] = "device"]
        \/ pc[r] = "respond" /\ pc' = [pc EXCEPT ![r] = "idle"]
        \/ pc[r] = "rollback" /\ pc' = [pc EXCEPT ![r] = "recordClient"]
        \/ pc[r] \in {"record", "commit"} /\ pc' = [pc EXCEPT ![r] = "respond"]
    BY <1>4 DEF SelectDevice, Respond, Rollback, RecordRejection, Commit, Goto
  <2>2. /\ Rank("device") < Rank("select") /\ Rank("idle") < Rank("respond")
        /\ Rank("recordClient") < Rank("rollback")
        /\ Rank("respond") < Rank("record") /\ Rank("respond") < Rank("commit")
    BY DEF Rank
  <2> QED
    BY <1>2, <2>1, <2>2
<1>5. CASE GetDevice(r) \/ GetToken(r) \/ CreateToken(r)
  <2>1. \/ /\ pc[r] = "device"
           /\ \E label \in {"rollback", "token", "commit"} : pc' = [pc EXCEPT ![r] = label]
        \/ /\ pc[r] = "token"
           /\ \E label \in {"rollback", "insert", "commit"} : pc' = [pc EXCEPT ![r] = label]
        \/ /\ pc[r] = "insert"
           /\ \E label \in {"rollback", "commit"} : pc' = [pc EXCEPT ![r] = label]
    BY <1>5 DEF GetDevice, GetToken, CreateToken, Goto
  <2>2. PICK label : pc' = [pc EXCEPT ![r] = label] /\ Rank(label) < Rank(pc[r])
    BY <2>1 DEF Rank
  <2> QED
    BY <1>2, <2>2
<1>6. CASE LinkGetDevice(r) \/ LinkUpdateDevice(r) \/ LinkSaveNonce(r)
  <2>1. \/ /\ pc[r] = "device"
           /\ \E label \in {"respond", "updateClient"} : pc' = [pc EXCEPT ![r] = label]
        \/ /\ pc[r] = "update"
           /\ \E label \in {"respond", "nonceClient"} : pc' = [pc EXCEPT ![r] = label]
        \/ pc[r] = "nonce" /\ pc' = [pc EXCEPT ![r] = "respond"]
    BY <1>6 DEF LinkGetDevice, LinkUpdateDevice, LinkSaveNonce, Goto
  <2>2. PICK label : pc' = [pc EXCEPT ![r] = label] /\ Rank(label) < Rank(pc[r])
    BY <2>1 DEF Rank
  <2> QED
    BY <1>2, <2>2
<1>7. CASE LoseConnection(r)
  <2>1. pc[r] \in Connected /\ pc' = [pc EXCEPT ![r] = AfterLoss(r)]
    BY <1>7 DEF LoseConnection, Goto
  <2>2. Rank(AfterLoss(r)) < Rank(pc[r])
    BY <2>1 DEF AfterLoss, Connected, Locking, Rank
  <2> QED
    BY <1>2, <2>1, <2>2
<1> QED
  BY <1>3, <1>4, <1>5, <1>6, <1>7 DEF Progress

\* Each request makes at most eleven steps, ten of them after its arrival, and
\* as many requests arrive as there are.
THEOREM PostgresRunsDown == Spec => RunsDown
<1>1. RequestsOK /\ [Next]_vars =>
         [\A r \in Requests :
            /\ Progress(r) => Rank(pc'[r]) < Rank(pc[r])
            /\ \/ pc'[r] = pc[r] \/ Rank(pc'[r]) < Rank(pc[r])
               \/ pc[r] = "idle" /\ arrived' = arrived + 1]_vars
  <2> SUFFICES ASSUME RequestsOK, Next, NEW q \in Requests
               PROVE  /\ Progress(q) => Rank(pc'[q]) < Rank(pc[q])
                      /\ \/ pc'[q] = pc[q] \/ Rank(pc'[q]) < Rank(pc[q])
                         \/ pc[q] = "idle" /\ arrived' = arrived + 1
    OBVIOUS
  <2>1. Progress(q) => Rank(pc'[q]) < Rank(pc[q])
    BY OwnStepGoesOn
  <2>2. pc'[q] = pc[q] \/ Rank(pc'[q]) < Rank(pc[q]) \/ (pc[q] = "idle" /\ arrived' = arrived + 1)
    <3>1. CASE Progress(q) \/ LoseConnection(q)
      BY <3>1, OwnStepGoesOn
    <3>2. ASSUME NEW r \in Requests \ {q}, Progress(r) \/ LoseConnection(r)
          PROVE  pc'[q] = pc[q]
      BY <3>2, OwnStepGoesOn
    <3>3. ASSUME NEW r \in Requests, Arrive(r)
          PROVE  pc'[q] = pc[q] \/ (pc[q] = "idle" /\ arrived' = arrived + 1)
      BY <3>3 DEF Arrive, Goto, RequestsOK, RowsTyped
    <3>4. CASE Register
      BY <3>4 DEF Register, requestVars
    <3>5. CASE Crash
      <4>1. pc'[q] = "idle" /\ pc[q] \in Labels
        BY <3>5 DEF Crash, RequestsOK, RowsTyped
      <4>2. pc[q] # "idle" => Rank("idle") < Rank(pc[q])
        BY <4>1 DEF Rank, Labels, Then, Connected, Locking
      <4> QED
        BY <4>1, <4>2
    <3> QED
      BY <3>1, <3>2, <3>3, <3>4, <3>5 DEF Next
  <2> QED
    BY <2>1, <2>2
<1> QED
  BY <1>1, PostgresInvariant, PTL DEF Spec, RunsDown
=============================================================================
