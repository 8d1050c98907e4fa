--------------------------- MODULE IndexerProofs ---------------------------
(***************************************************************************)
(* What holds of the service over an atomic store, for any devices,        *)
(* tickers, payloads and bounds: it implements the ledger, the ledger is   *)
(* what the event log says, and no signed payload is applied twice,        *)
(* however often and to whomever it is handed in again, and whatever the   *)
(* chat retention removes in between.                                      *)
(***************************************************************************)
EXTENDS Indexer, StoreProofs

-----------------------------------------------------------------------------
\* Rules.

\* What passes the first checks comes signed by a registered device, with a
\* fresh nonce.
LEMMA AuthenticUplink ==
    ASSUME NEW d, NEW p, AuthError(devices[d], d, p) = NoError
    PROVE  /\ devices[d] # Null
           /\ p.signer = d
           /\ FreshNonce(devices[d], p.nonce)
BY DEF AuthError, NoError

-----------------------------------------------------------------------------
\* The ledger is implemented.

\* An accepted DEPLOY is a Deploy of the ledger.
LEMMA HandleDeployRefines ==
    ASSUME NEW d \in DeviceIds, NEW p \in Payloads, HandleDeploy(d, p)
    PROVE  LedgerNext /\ Deploy(d, p.tick, p.maxSupply, p.limitPerMint)
<1>1. p.op = "DEPLOY" /\ RuleError(d, p) = NoError
  BY DEF HandleDeploy, Accept
<1>2. /\ p.tick \in Ticks /\ p.maxSupply \in Amounts /\ p.limitPerMint \in Amounts
      /\ p.maxSupply \in Nat /\ p.limitPerMint \in Nat
  BY <1>1, PayloadFields
<1>3. DeployTermsError(p) = NoError /\ tokens[p.tick] = Null
  BY <1>1 DEF RuleError, NoError
<1>4. 0 < p.limitPerMint /\ p.limitPerMint <= p.maxSupply
  BY <1>2, <1>3 DEF DeployTermsError, NoError
<1>5. Deploy(d, p.tick, p.maxSupply, p.limitPerMint)
  BY <1>3, <1>4 DEF Deploy, HandleDeploy, NewToken
<1> QED
  BY <1>2, <1>5 DEF LedgerNext

\* An accepted MINT is a Mint of the ledger.
LEMMA HandleMintRefines ==
    ASSUME LedgerInv, NEW d \in DeviceIds, NEW p \in Payloads, HandleMint(d, p)
    PROVE  LedgerNext /\ Mint(d, p.tick, p.amount)
<1>1. p.op = "MINT" /\ RuleError(d, p) = NoError
  BY DEF HandleMint, Accept
<1>2. p.tick \in Ticks /\ p.amount \in Amounts /\ p.amount \in Nat
  BY <1>1, PayloadFields
<1>3. AmountError(p) = NoError /\ MintError(tokens[p.tick], p) = NoError
  BY <1>1 DEF RuleError, NoError
<1>4. tokens[p.tick] # Null
  BY <1>3 DEF MintError, NoError
<1>5. tokens[p.tick] \in Token
  BY <1>2, <1>4, OneTicker
<1>6. /\ 0 < p.amount /\ p.amount <= tokens[p.tick].limitPerMint
      /\ tokens[p.tick].totalSupply + p.amount <= tokens[p.tick].maxSupply
  BY <1>2, <1>3, <1>5, ProtocolAssumption DEF AmountError, MintError, NoError, Token, Amounts
<1>7. Mint(d, p.tick, p.amount)
  BY <1>4, <1>6 DEF Mint, HandleMint
<1> QED
  BY <1>2, <1>7 DEF LedgerNext

\* An accepted TRANSFER is a Transfer of the ledger.
LEMMA HandleTransferRefines ==
    ASSUME LedgerInv, NEW d \in DeviceIds, NEW p \in Payloads, HandleTransfer(d, p)
    PROVE  LedgerNext /\ Transfer(d, p.recipient, p.tick, p.amount)
<1>1. p.op = "TRANSFER" /\ RuleError(d, p) = NoError
  BY DEF HandleTransfer, Accept
<1>2. p.tick \in Ticks /\ p.amount \in Amounts /\ p.amount \in Nat /\ p.recipient \in DeviceIds
  BY <1>1, PayloadFields
<1>3. AmountError(p) = NoError /\ TransferError(d, p) = NoError
  BY <1>1 DEF RuleError, NoError
<1>4. tokens[p.tick] # Null /\ ~(balances[p.tick][d] < p.amount)
  BY <1>3 DEF TransferError, NoError
<1>5. balances[p.tick][d] \in Nat
  BY <1>2, OneTicker, ProtocolAssumption DEF Balances, Amounts
<1>6. 0 < p.amount /\ p.amount <= balances[p.tick][d]
  BY <1>2, <1>3, <1>4, <1>5 DEF AmountError, NoError
<1>7. Transfer(d, p.recipient, p.tick, p.amount)
  BY <1>4, <1>6 DEF Transfer, HandleTransfer
<1> QED
  BY <1>2, <1>7 DEF LedgerNext

\* Every accepted operation is a step of the ledger or leaves it alone.
LEMMA OperationRefines ==
    ASSUME LedgerInv, NEW d \in DeviceIds, NEW p \in Payloads, ApplyOperation(d, p)
    PROVE  [LedgerNext]_ledgerVars
<1>1. CASE HandleDeploy(d, p)
  BY <1>1, HandleDeployRefines
<1>2. CASE HandleMint(d, p)
  BY <1>2, HandleMintRefines
<1>3. CASE HandleTransfer(d, p)
  BY <1>3, HandleTransferRefines
<1>4. CASE HandleMessage(d, p) \/ HandleConfig(d, p)
  BY <1>4 DEF HandleMessage, HandleConfig, ledgerVars
<1> QED
  BY <1>1, <1>2, <1>3, <1>4 DEF ApplyOperation

\* Every step of the service is a step of the ledger or leaves it alone.
LEMMA StepRefines == LedgerInv /\ [Next]_storeVars => [LedgerNext]_ledgerVars
<1> SUFFICES ASSUME LedgerInv, [Next]_storeVars PROVE [LedgerNext]_ledgerVars
  OBVIOUS
<1>1. ASSUME NEW d \in DeviceIds, NEW devEui,
             RegisterDevice(d, devEui) \/ LinkLorawanDevEui(d, devEui)
      PROVE  UNCHANGED ledgerVars
  BY <1>1 DEF RegisterDevice, LinkLorawanDevEui, ledgerVars
<1>2. ASSUME NEW d \in DeviceIds, NEW p \in Payloads, IngestUplink(d, p)
      PROVE  [LedgerNext]_ledgerVars
  BY <1>2, OperationRefines DEF IngestUplink, RejectUplink, ledgerVars
<1>3. CASE Next
  BY <1>3, <1>1, <1>2 DEF Next
<1>4. CASE UNCHANGED storeVars
  BY <1>4 DEF storeVars, ledgerVars
<1> QED
  BY <1>3, <1>4

\* The service keeps the ledger's invariant.
LEMMA LedgerInvAlways == Spec => []LedgerInv
<1>1. Init => LedgerInv
  BY LedgerInvInit DEF Init, StoreInit
<1>2. LedgerInv /\ [Next]_storeVars => LedgerInv'
  BY StepRefines, LedgerInvStep
<1> QED
  BY <1>1, <1>2, PTL DEF Spec

\* The service over an atomic store implements the token ledger.
THEOREM IndexerImplementsLedger == Spec => LedgerSpec
<1>1. Init => LedgerInit
  BY DEF Init, StoreInit
<1> QED
  BY <1>1, StepRefines, LedgerInvAlways, PTL DEF Spec, LedgerSpec

\* Whatever requests arrive, the balances of a token sum up to its supply.
THEOREM IndexerSupplyBacked == Spec => []SupplyBacked
<1>1. LedgerInv => SupplyBacked
  BY DEF LedgerInv
<1> QED
  BY <1>1, LedgerInvAlways, PTL

\* Whatever requests arrive, no token exceeds the maximum it was deployed with.
THEOREM IndexerSupplyCapped == Spec => []SupplyCapped
<1>1. LedgerInv => SupplyCapped
  BY DEF LedgerInv
<1> QED
  BY <1>1, LedgerInvAlways, PTL

\* No deploy, mint or transfer ever changes the terms of a deployed token over
\* an atomic store.
THEOREM IndexerTermsAreFinal == Spec => TermsAreFinal
BY IndexerImplementsLedger, LedgerTermsAreFinal

-----------------------------------------------------------------------------
\* The ledger is what the log says.

\* Every accepted operation is on record with what it did to the ledger.
LEMMA OperationLogged ==
    ASSUME LedgerInv, LogLedgerInv, NEW d \in DeviceIds, NEW p \in Payloads,
           ApplyOperation(d, p)
    PROVE  LogLedgerInv'
<1>1. CASE HandleDeploy(d, p)
  BY <1>1, HandleDeployRefines, DeployLogged DEF HandleDeploy, Accept
<1>2. CASE HandleMint(d, p)
  BY <1>2, HandleMintRefines, MintLogged DEF HandleMint, Accept
<1>3. CASE HandleTransfer(d, p)
  BY <1>3, HandleTransferRefines, TransferLogged DEF HandleTransfer, Accept
<1>4. CASE HandleMessage(d, p) \/ HandleConfig(d, p)
  BY <1>4, OtherRowKeeps DEF HandleMessage, HandleConfig, Accept, LoggedOps
<1> QED
  BY <1>1, <1>2, <1>3, <1>4 DEF ApplyOperation

\* Every step keeps ledger and log in agreement.
LEMMA LogLedgerStep == LedgerInv /\ LogLedgerInv /\ [Next]_storeVars => LogLedgerInv'
<1> SUFFICES ASSUME LedgerInv, LogLedgerInv, [Next]_storeVars PROVE LogLedgerInv'
  OBVIOUS
<1>1. ASSUME NEW d \in DeviceIds, NEW devEui,
             RegisterDevice(d, devEui) \/ LinkLorawanDevEui(d, devEui)
      PROVE  LogLedgerInv'
  BY <1>1, NothingMoves DEF RegisterDevice, LinkLorawanDevEui
<1>2. ASSUME NEW d \in DeviceIds, NEW p \in Payloads, IngestUplink(d, p)
      PROVE  LogLedgerInv'
  <2>1. CASE RejectUplink(d, p)
    BY <2>1, OtherRowKeeps DEF RejectUplink
  <2> QED
    BY <1>2, <2>1, OperationLogged DEF IngestUplink
<1>3. CASE UNCHANGED storeVars
  BY <1>3, NothingMoves DEF storeVars
<1> QED
  BY <1>1, <1>2, <1>3 DEF Next

\* A token's supply and its balances are what the accepted events in the log
\* add up to, whatever chat retention removes.
THEOREM IndexerLedgerMatchesLog == Spec => []LedgerMatchesLog
<1>1. Init => LogLedgerInv
  BY LogLedgerInvInit DEF Init, StoreInit, TableInit
<1>2. LogLedgerInv => LedgerMatchesLog
  BY DEF LogLedgerInv
<1> QED
  BY <1>1, <1>2, LogLedgerStep, LedgerInvAlways, PTL DEF Spec

-----------------------------------------------------------------------------
\* Nonces.

\* Every reason on record is one of the codes.
LEMMA RulesAreCodes ==
    ASSUME NEW d \in DeviceIds, NEW p \in Payloads
    PROVE  RuleError(d, p) \in Reasons
<1>1. p.op \in {"DEPLOY", "MINT", "TRANSFER", "MESSAGE", "CONFIG"}
  BY PayloadFields
<1>2. DeployTermsError(p) \in Reasons /\ AmountError(p) \in Reasons
  BY DEF DeployTermsError, AmountError, NoError, Reasons
<1>3. TransferError(d, p) \in Reasons /\ MessageError(p) \in Reasons
  BY DEF TransferError, MessageError, NoError, Reasons
<1>4. ConfigError(p) \in Reasons /\ MintError(tokens[p.tick], p) \in Reasons
  BY DEF ConfigError, MintError, NoError, Reasons
<1> QED
  BY <1>1, <1>2, <1>3, <1>4 DEF RuleError, NoError, Reasons

LEMMA ReasonsAreCodes ==
    ASSUME NEW d \in DeviceIds, NEW p \in Payloads
    PROVE  IngestError(d, p) \in Reasons
<1>1. AuthError(devices[d], d, p) \in Reasons
  BY DEF AuthError, NoError, Reasons
<1> QED
  BY <1>1, RulesAreCodes DEF IngestError

-----------------------------------------------------------------------------
\* The inductive invariant.

NonceInv == StoreTypeOK /\ AcceptedNoncesIncrease

\* Nothing is on record at the start.
LEMMA NonceInvInit == Init => NonceInv
<1> SUFFICES ASSUME Init PROVE NonceInv
  OBVIOUS
<1>1. LedgerTypeOK
  BY LedgerInvInit DEF Init, StoreInit, LedgerInv
<1>2. StoreTypeOK
  BY <1>1, StoreAssumption DEF Init, StoreInit, TableInit, StoreTypeOK
<1>3. AcceptedNoncesIncrease
  BY DEF Init, StoreInit, TableInit, AcceptedNoncesIncrease, Accepted
<1> QED
  BY <1>2, <1>3 DEF NonceInv

\* Registering or linking a device does not touch a nonce on record.
LEMMA DeviceStepKeepsInv ==
    ASSUME NonceInv, LedgerTypeOK', NEW d \in DeviceIds, NEW devEui \in DevEuis \cup {Null},
           \/ RegisterDevice(d, devEui)
           \/ devEui \in DevEuis /\ LinkLorawanDevEui(d, devEui)
    PROVE  NonceInv'
<1>1. /\ events' = events /\ recorded' = recorded
      /\ devices \in [DeviceIds -> Device \cup {Null}]
  BY DEF RegisterDevice, LinkLorawanDevEui, NonceInv, StoreTypeOK
<1>2. CASE RegisterDevice(d, devEui)
  <2>1. NewDevice(devEui) \in Device
    BY DEF NewDevice, Device
  <2>2. devices' = [devices EXCEPT ![d] = NewDevice(devEui)] /\ devices[d] = Null
    BY <1>2 DEF RegisterDevice
  <2>3. StoreTypeOK'
    BY <1>1, <2>1, <2>2 DEF NonceInv, StoreTypeOK, EventRow
  <2>4. Accepted(d) = {}
    BY <2>2 DEF NonceInv, AcceptedNoncesIncrease
  <2>5. \A c \in DeviceIds : c # d => devices'[c] = devices[c]
    BY <1>1, <2>2
  <2>6. \A c \in DeviceIds : Accepted(c)' = Accepted(c)
    BY <1>1 DEF Accepted
  <2>7. AcceptedNoncesIncrease'
    BY <2>4, <2>5, <2>6 DEF NonceInv, AcceptedNoncesIncrease
  <2> QED
    BY <2>3, <2>7 DEF NonceInv
<1>3. CASE devEui \in DevEuis /\ LinkLorawanDevEui(d, devEui)
  <2> DEFINE linked == [devices[d] EXCEPT !.devEui = devEui]
  <2>1. devices' = [devices EXCEPT ![d] = linked] /\ devices[d] # Null
    BY <1>3 DEF LinkLorawanDevEui
  <2>2. devices[d] \in Device
    BY <1>1, <2>1
  <2>3. linked \in Device /\ linked.lastNonce = devices[d].lastNonce /\ linked # Null
    BY <1>3, <2>2, ProtocolAssumption DEF Device
  <2>4. StoreTypeOK'
    BY <1>1, <2>1, <2>3 DEF NonceInv, StoreTypeOK, EventRow
  <2>5. \A c \in DeviceIds : devices[c] # Null =>
            devices'[c] # Null /\ devices'[c].lastNonce = devices[c].lastNonce
    BY <1>1, <2>1, <2>3
  <2>6. \A c \in DeviceIds : Accepted(c)' = Accepted(c)
    BY <1>1 DEF Accepted
  <2>7. AcceptedNoncesIncrease'
    BY <2>5, <2>6 DEF NonceInv, AcceptedNoncesIncrease
  <2> QED
    BY <2>4, <2>7 DEF NonceInv
<1> QED
  BY <1>2, <1>3

\* A rejection on record is not an acceptance, whatever its reason.
LEMMA RejectKeepsInv ==
    ASSUME NonceInv, LedgerTypeOK', NEW d \in DeviceIds, NEW p \in Payloads,
           NEW reason \in Reasons, AppendEvent("rejected", reason, d, p), devices' = devices
    PROVE  NonceInv'
<1>1. LogTyped'
  BY AppendEventTyped DEF NonceInv, StoreTypeOK, LogTyped
<1>2. AcceptedNoncesIncrease'
  BY RejectedKeepsOrder DEF NonceInv
<1> QED
  BY <1>1, <1>2 DEF NonceInv, StoreTypeOK, LogTyped

\* An accepted payload is fresh, and the device row saved has its nonce.
LEMMA AcceptKeepsInv ==
    ASSUME NonceInv, LedgerTypeOK', NEW d \in DeviceIds, NEW p \in Payloads,
           Accept(d, p), FreshNonce(devices[d], p.nonce),
           NEW device \in Device, device.lastNonce = p.nonce,
           devices' = [devices EXCEPT ![d] = device]
    PROVE  NonceInv'
<1>1. AppendEvent("accepted", NoError, d, p)
  BY DEF Accept
<1>2. LogTyped /\ devices \in [DeviceIds -> Device \cup {Null}]
  BY DEF NonceInv, StoreTypeOK, LogTyped
<1>3. LogTyped'
  BY <1>1, <1>2, AppendEventTyped DEF Reasons
<1>4. StoreTypeOK'
  BY <1>2, <1>3 DEF StoreTypeOK, LogTyped
<1>5. AcceptedNoncesIncrease'
  BY <1>1, <1>2, AcceptedKeepsOrder DEF NonceInv
<1> QED
  BY <1>4, <1>5 DEF NonceInv

\* The row each handler saves has the accepted nonce.
LEMMA SavedRow ==
    ASSUME StoreTypeOK, NEW d \in DeviceIds, NEW p \in Payloads, devices[d] # Null
    PROVE  /\ devices[d] \in Device
           /\ AcceptNonce(devices[d], p) \in Device
           /\ AcceptNonce(devices[d], p).lastNonce = p.nonce
           /\ p.op = "CONFIG" => /\ ApplyConfig(devices[d], p) \in Device
                                 /\ ApplyConfig(devices[d], p).lastNonce = p.nonce
<1>1. devices[d] \in Device
  BY DEF StoreTypeOK
<1>2. AcceptNonce(devices[d], p) \in Device /\ AcceptNonce(devices[d], p).lastNonce = p.nonce
  BY <1>1, PayloadFields DEF AcceptNonce, Device
<1>3. ASSUME p.op = "CONFIG"
      PROVE  /\ ApplyConfig(devices[d], p) \in Device
             /\ ApplyConfig(devices[d], p).lastNonce = p.nonce
  BY <1>1, <1>3, PayloadFields DEF ApplyConfig, Device
<1> QED
  BY <1>1, <1>2, <1>3

\* What an accepted operation does to the devices.
LEMMA OperationSaves ==
    ASSUME StoreTypeOK, NEW d \in DeviceIds, NEW p \in Payloads, devices[d] # Null,
           ApplyOperation(d, p)
    PROVE  /\ Accept(d, p)
           /\ \E device \in Device :
                 /\ device.lastNonce = p.nonce
                 /\ devices' = [devices EXCEPT ![d] = device]
<1>1. Accept(d, p)
  BY DEF ApplyOperation, HandleDeploy, HandleMint, HandleTransfer, HandleMessage, HandleConfig
<1>2. CASE SaveNonce(d, p)
  BY <1>1, <1>2, SavedRow DEF SaveNonce
<1>3. CASE HandleConfig(d, p)
  BY <1>1, <1>3, SavedRow DEF HandleConfig
<1>4. SaveNonce(d, p) \/ HandleConfig(d, p)
  BY DEF ApplyOperation, HandleDeploy, HandleMint, HandleTransfer, HandleMessage
<1> QED
  BY <1>1, <1>2, <1>3, <1>4

\* An accepting step is of the device that signed, with a fresh nonce.
LEMMA AcceptingStep ==
    ASSUME StoreTypeOK, NEW d \in DeviceIds, NEW p \in Payloads,
           IngestUplink(d, p), ~RejectUplink(d, p)
    PROVE  /\ Accept(d, p) /\ p.signer = d /\ FreshNonce(devices[d], p.nonce)
           /\ \E device \in Device :
                 /\ device.lastNonce = p.nonce
                 /\ devices' = [devices EXCEPT ![d] = device]
<1>1. ApplyOperation(d, p) /\ AuthError(devices[d], d, p) = NoError
  BY DEF IngestUplink
<1> QED
  BY <1>1, AuthenticUplink, OperationSaves

\* Every step keeps the invariant.
LEMMA NonceInvStep == LedgerTypeOK' /\ NonceInv /\ [Next]_storeVars => NonceInv'
<1> SUFFICES ASSUME LedgerTypeOK', NonceInv, [Next]_storeVars PROVE NonceInv'
  OBVIOUS
<1>1. ASSUME NEW d \in DeviceIds, NEW p \in Payloads, IngestUplink(d, p)
      PROVE  NonceInv'
  <2>1. CASE RejectUplink(d, p)
    BY <2>1, ReasonsAreCodes, RejectKeepsInv DEF RejectUplink
  <2>2. CASE ~RejectUplink(d, p)
    <3>1. Accept(d, p) /\ FreshNonce(devices[d], p.nonce)
      BY <1>1, <2>2, AcceptingStep DEF NonceInv
    <3>2. PICK device \in Device : /\ device.lastNonce = p.nonce
                                   /\ devices' = [devices EXCEPT ![d] = device]
      BY <1>1, <2>2, AcceptingStep DEF NonceInv
    <3> QED
      BY <3>1, <3>2, AcceptKeepsInv
  <2> QED
    BY <2>1, <2>2
<1>2. CASE Next
  BY <1>2, <1>1, DeviceStepKeepsInv DEF Next
<1>3. CASE UNCHANGED storeVars
  BY <1>3 DEF storeVars, NonceInv, StoreTypeOK, LedgerTypeOK, EventRow, AcceptedNoncesIncrease, Accepted
<1> QED
  BY <1>2, <1>3

\* The service keeps the invariant.
LEMMA NonceInvAlways == Spec => []NonceInv
<1>1. LedgerInv' => LedgerTypeOK'
  BY DEF LedgerInv
<1> QED
  BY <1>1, NonceInvInit, NonceInvStep, LedgerInvAlways, PTL DEF Spec

-----------------------------------------------------------------------------

\* The variables keep their types.
THEOREM IndexerTypeCorrect == Spec => []StoreTypeOK
<1>1. NonceInv => StoreTypeOK
  BY DEF NonceInv
<1> QED
  BY <1>1, NonceInvAlways, PTL

\* "Strict per-device nonce checks": the accepted events of a device carry
\* strictly increasing nonces, whatever is replayed and whatever is pruned.
THEOREM IndexerNoncesIncrease == Spec => []AcceptedNoncesIncrease
<1>1. NonceInv => AcceptedNoncesIncrease
  BY DEF NonceInv
<1> QED
  BY <1>1, NonceInvAlways, PTL

\* "Strict per-device nonce checks": no signed payload is applied twice, however
\* often it is delivered and whatever is recorded or pruned in between.
THEOREM IndexerAppliesOnce == Spec => []PayloadAppliedOnce
<1>1. Init => RowsApart
  BY DEF Init, StoreInit, TableInit, RowsApart
<1>2. NonceInv /\ RowsApart /\ [Next]_storeVars => RowsApart'
  <2> SUFFICES ASSUME NonceInv, RowsApart, [Next]_storeVars PROVE RowsApart'
    OBVIOUS
  <2>1. LogTyped /\ StoreTypeOK
    BY DEF NonceInv, StoreTypeOK, LogTyped
  <2>2. CASE events' = events
    BY <2>2 DEF RowsApart
  <2>3. ASSUME NEW d \in DeviceIds, NEW p \in Payloads, IngestUplink(d, p) PROVE RowsApart'
    <3>1. \E status, error : AppendEvent(status, error, d, p)
      <4>1. CASE RejectUplink(d, p)
        BY <4>1 DEF RejectUplink
      <4>2. CASE ~RejectUplink(d, p)
        BY <2>1, <2>3, <4>2, AcceptingStep DEF Accept
      <4> QED
        BY <4>1, <4>2
    <3> QED
      BY <2>1, <3>1, RowsApartStep
  <2> QED
    BY <2>2, <2>3 DEF Next, RegisterDevice, LinkLorawanDevEui, storeVars
<1>3. NonceInv /\ RowsApart => PayloadAppliedOnce
  BY IncreasingIsOnce DEF NonceInv, StoreTypeOK, LogTyped
<1> QED
  BY <1>1, <1>2, <1>3, NonceInvAlways, PTL DEF Spec

-----------------------------------------------------------------------------
\* Action properties.

\* A nonce moves in an accepting step of its device only.
LEMMA StepMovesNonce ==
    ASSUME NonceInv, [Next]_storeVars, NEW c \in DeviceIds,
           devices[c] # Null, devices[c].lastNonce # devices'[c].lastNonce
    PROVE  /\ devices'[c].lastNonce # Null
           /\ FreshNonce(devices[c], devices'[c].lastNonce)
           /\ recorded' = recorded + 1
           /\ \A e \in events' \ events :
                 /\ e.status = "accepted" /\ e.deviceId = c
                 /\ e.msg.nonce = devices'[c].lastNonce
<1>1. devices \in [DeviceIds -> Device \cup {Null}] /\ StoreTypeOK
  BY DEF NonceInv, StoreTypeOK
<1>2. devices' # devices
  OBVIOUS
<1>3. ASSUME NEW d \in DeviceIds, NEW devEui,
             RegisterDevice(d, devEui) \/ LinkLorawanDevEui(d, devEui)
      PROVE  FALSE
  <2>1. CASE RegisterDevice(d, devEui)
    BY <2>1, <1>1 DEF RegisterDevice
  <2>2. CASE LinkLorawanDevEui(d, devEui)
    <3>1. devices' = [devices EXCEPT ![d].devEui = devEui] /\ devices[c] \in Device
      BY <2>2, <1>1 DEF LinkLorawanDevEui
    <3> QED
      BY <3>1, <1>1 DEF Device
  <2> QED
    BY <1>3, <2>1, <2>2
<1>4. PICK d \in DeviceIds, p \in Payloads : IngestUplink(d, p)
  BY <1>2, <1>3 DEF Next, storeVars
<1>5. ~RejectUplink(d, p)
  BY <1>2 DEF RejectUplink
<1>6. PICK device \in Device : /\ device.lastNonce = p.nonce
                               /\ devices' = [devices EXCEPT ![d] = device]
  BY <1>1, <1>4, <1>5, AcceptingStep
<1>7. Accept(d, p) /\ FreshNonce(devices[d], p.nonce)
  BY <1>1, <1>4, <1>5, AcceptingStep
<1>8. c = d /\ devices'[c].lastNonce = p.nonce
  BY <1>1, <1>6
<1>9. FreshNonce(devices[d], p.nonce) /\ p.nonce # Null
  BY <1>7, <1>8, PayloadFields, ProtocolAssumption
<1>10. /\ recorded' = recorded + 1
       /\ events' \subseteq events \cup {Event(recorded + 1, "accepted", NoError, d, p)}
  BY <1>7, AppendEventAdds DEF Accept
<1> QED
  BY <1>8, <1>9, <1>10 DEF Event

\* A balance falls in a TRANSFER of its owner only, and by its amount.
LEMMA StepSpends ==
    ASSUME NonceInv, LedgerTypeOK, [Next]_storeVars, NEW t \in Ticks, NEW c \in DeviceIds,
           balances'[t][c] < balances[t][c]
    PROVE  \E e \in events' \ events :
              /\ e.status = "accepted" /\ e.msg.op = "TRANSFER"
              /\ e.deviceId = c /\ e.msg.signer = c /\ e.msg.tick = t
              /\ e.msg.amount = balances[t][c] - balances'[t][c]
<1>1. /\ balances \in [Ticks -> [DeviceIds -> Amounts]] /\ balances[t][c] \in Nat
      /\ recorded \in Nat /\ \A e \in events : e.at \in 1..recorded
  BY ProtocolAssumption DEF LedgerTypeOK, Amounts, NonceInv, StoreTypeOK, EventRow
<1>2. balances' # balances
  BY <1>1
<1>3. PICK d \in DeviceIds, p \in Payloads :
         AuthError(devices[d], d, p) = NoError /\ (HandleMint(d, p) \/ HandleTransfer(d, p))
  BY <1>2 DEF Next, storeVars, RegisterDevice, LinkLorawanDevEui, IngestUplink, ApplyOperation,
              HandleDeploy, HandleMessage, HandleConfig, RejectUplink
<1>4. ~HandleMint(d, p)
  <2> SUFFICES ASSUME HandleMint(d, p) PROVE FALSE
    OBVIOUS
  <2>1. p.tick \in Ticks /\ p.amount \in Nat
    BY PayloadFields DEF HandleMint
  <2>2. balances' = [balances EXCEPT ![p.tick] = [balances[p.tick] EXCEPT ![d] = @ + p.amount]]
    BY DEF HandleMint, Credit
  <2>3. balances'[t][c] = balances[t][c] \/ balances'[t][c] = balances[t][c] + p.amount
    BY <2>1, <2>2, <1>1
  <2> QED
    BY <2>1, <2>3, <1>1
<1>5. /\ p.op = "TRANSFER" /\ Accept(d, p)
      /\ balances' = [balances EXCEPT ![p.tick] =
                        Credit(Debit(balances[p.tick], d, p.amount), p.recipient, p.amount)]
  BY <1>3, <1>4 DEF HandleTransfer
<1>6. p.tick \in Ticks /\ p.recipient \in DeviceIds /\ p.amount \in Nat
  BY <1>5, PayloadFields
<1> DEFINE f == balances[p.tick]
           g == Credit(Debit(f, d, p.amount), p.recipient, p.amount)
<1>7. /\ f \in [DeviceIds -> Amounts] /\ \A x \in DeviceIds : f[x] \in Nat
  BY <1>1, <1>6, ProtocolAssumption DEF Amounts
<1>8. p.tick = t /\ g[c] < f[c] /\ balances'[t][c] = g[c]
  BY <1>1, <1>5, <1>6
<1>9. c = d /\ g[c] = f[c] - p.amount
  BY <1>6, <1>7, <1>8 DEF Credit, Debit
<1>10. p.amount = balances[t][c] - balances'[t][c]
  BY <1>6, <1>7, <1>8, <1>9
<1> DEFINE row == Event(recorded + 1, "accepted", NoError, d, p)
<1>11. row \in events'
  BY <1>5, AppendEventKeeps DEF Accept
<1>12. row \notin events
  BY <1>1 DEF Event
<1>13. p.signer = d
  BY <1>3, AuthenticUplink
<1>14. /\ row.status = "accepted" /\ row.msg = p /\ row.deviceId = d
  BY DEF Event
<1> HIDE DEF row
<1> QED
  BY <1>5, <1>8, <1>9, <1>10, <1>11, <1>12, <1>13, <1>14

\* "`nonce` advances only on accepted transactions", for any devices, payloads
\* and retention: the step that moves a nonce moves it up, to the accepted one.
THEOREM IndexerNonceMoves == Spec => NonceMovesWithAcceptance
<1>1. NonceInv /\ [Next]_storeVars =>
        [\A d \in DeviceIds :
           (devices[d] # Null /\ devices[d].lastNonce # devices'[d].lastNonce) =>
              /\ devices'[d].lastNonce # Null
              /\ FreshNonce(devices[d], devices'[d].lastNonce)
              /\ recorded' = recorded + 1
              /\ \A e \in events' \ events :
                    /\ e.status = "accepted" /\ e.deviceId = d
                    /\ e.msg.nonce = devices'[d].lastNonce]_storeVars
  BY StepMovesNonce
<1> QED
  BY <1>1, NonceInvAlways, PTL DEF Spec, NonceMovesWithAcceptance

\* Nobody's balance falls but by a TRANSFER its owner signed, for exactly the
\* amount that left, and the row of it is on record.
THEOREM IndexerOnlyHolderSpends == Spec => OnlyHolderSpends
<1>1. LedgerInv /\ NonceInv /\ [Next]_storeVars =>
        [\A t \in Ticks, d \in DeviceIds : balances'[t][d] < balances[t][d] =>
           \E e \in events' \ events :
              /\ e.status = "accepted" /\ e.msg.op = "TRANSFER"
              /\ e.deviceId = d /\ e.msg.signer = d /\ e.msg.tick = t
              /\ e.msg.amount = balances[t][d] - balances'[t][d]]_storeVars
  BY StepSpends DEF LedgerInv
<1> QED
  BY <1>1, LedgerInvAlways, NonceInvAlways, PTL DEF Spec, OnlyHolderSpends
=============================================================================
