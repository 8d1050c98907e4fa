------------------------------ MODULE Protocol ------------------------------
(***************************************************************************)
(* The vocabulary every module shares: rows of the store, parsed payloads, *)
(* and the rules IndexerService applies to a payload.  The rules are cut   *)
(* where the service awaits the store, so that the models of the           *)
(* interleaved stores can apply each part to what was read by then.        *)
(***************************************************************************)
EXTENDS Integers, FiniteSets

CONSTANTS
    DeviceIds,   \* device ids that can be registered
    PublicChat,  \* PUBLIC_CHAT_DEVICE_ID, nobody's id
    Ticks,       \* token tickers
    DevEuis,     \* LoRaWAN DevEUIs
    MaxAmount,   \* largest amount a payload can carry (2^64 - 1 in the code)
    MaxNonce,    \* largest nonce a payload can carry (2^32 - 1)
    MaxInterval, \* largest CONFIG interval a payload can carry (2^32 - 1)
    Payloads,    \* the signed payloads that are around to be ingested
    Null         \* JavaScript's null: no such row, no such value

Amounts == 0..MaxAmount
Nonces == 0..MaxNonce
Intervals == 0..MaxInterval

-----------------------------------------------------------------------------
\* Rows.

\* A device; its deviceId is the index into `devices`.  The wallet is written
\* once and only echoed, the public key is what `signer` stands for.
Device == [devEui : DevEuis \cup {Null}, lastNonce : Nonces \cup {Null},
           autoMintEnabled : BOOLEAN, autoMintIntervalSeconds : Intervals \cup {Null}]

NewDevice(devEui) ==
    [devEui |-> devEui, lastNonce |-> Null,
     autoMintEnabled |-> FALSE, autoMintIntervalSeconds |-> Null]

\* A token; its tick is the index into `tokens`.
Token == [createdByDeviceId : DeviceIds, maxSupply : Amounts,
          limitPerMint : Amounts, totalSupply : Amounts]

NewToken(d, p) ==
    [createdByDeviceId |-> d, maxSupply |-> p.maxSupply,
     limitPerMint |-> p.limitPerMint, totalSupply |-> 0]

-----------------------------------------------------------------------------
\* Parsed payloads.  `signer` is the device whose key made the signature.

DeployPayload == [op : {"DEPLOY"}, tick : Ticks, maxSupply : Amounts,
                  limitPerMint : Amounts, nonce : Nonces, signer : DeviceIds]
MintPayload == [op : {"MINT"}, tick : Ticks, amount : Amounts,
                nonce : Nonces, signer : DeviceIds]
TransferPayload == [op : {"TRANSFER"}, tick : Ticks, amount : Amounts,
                    recipient : DeviceIds, nonce : Nonces, signer : DeviceIds]
MessagePayload == [op : {"MESSAGE"}, recipient : DeviceIds \cup {PublicChat},
                   nonce : Nonces, signer : DeviceIds]
ConfigPayload == [op : {"CONFIG"}, enabled : BOOLEAN, interval : Intervals,
                  nonce : Nonces, signer : DeviceIds]

ASSUME ProtocolAssumption ==
    /\ IsFiniteSet(DeviceIds)
    /\ MaxAmount \in Nat /\ MaxNonce \in Nat /\ MaxInterval \in Nat
    /\ PublicChat \notin DeviceIds
    /\ Null \notin Int /\ Null \notin Device /\ Null \notin Token
    /\ Null \notin DevEuis
    /\ \A p \in Payloads :
          \/ p \in DeployPayload  \/ p \in MintPayload  \/ p \in TransferPayload
          \/ p \in MessagePayload \/ p \in ConfigPayload

-----------------------------------------------------------------------------
\* The rules, each the error code of the exception thrown or NoError.

NoError == "none"

\* Every code the rules give.
Reasons ==
    {NoError, "device_not_found", "invalid_signature", "replay_detected",
     "invalid_max_supply", "invalid_limit_per_mint", "token_already_exists",
     "invalid_amount", "token_not_found", "mint_limit_exceeded", "max_supply_exceeded",
     "recipient_not_found", "insufficient_balance", "invalid_config_interval"}

\* (mutant) a nonce may be used again
FreshNonceOrEqual(device, nonce) ==
    device.lastNonce = Null \/ nonce >= device.lastNonce

\* assertFreshNonce: strictly greater than the last accepted nonce, if any.
FreshNonce(device, nonce) ==
    device.lastNonce = Null \/ nonce > device.lastNonce

\* (mutant) any registered device's signature will do
AuthErrorAnySigner(device, d, p) ==
    IF device = Null THEN "device_not_found"
    ELSE IF ~FreshNonce(device, p.nonce) THEN "replay_detected"
    ELSE NoError

\* What ingestUplink checks on the device row before it applies the payload.
AuthError(device, d, p) ==
    IF device = Null THEN "device_not_found"
    ELSE IF p.signer # d THEN "invalid_signature"
    ELSE IF ~FreshNonce(device, p.nonce) THEN "replay_detected"
    ELSE NoError

\* handleDeploy before it reads the token.
DeployTermsError(p) ==
    IF p.maxSupply = 0 THEN "invalid_max_supply"
    ELSE IF p.limitPerMint = 0 \/ p.limitPerMint > p.maxSupply
         THEN "invalid_limit_per_mint"
    ELSE NoError

\* assertPositiveAmount.
AmountError(p) == IF p.amount = 0 THEN "invalid_amount" ELSE NoError

\* (mutant) the maximum supply is not looked at
MintErrorUncapped(token, p) ==
    IF token = Null THEN "token_not_found"
    ELSE IF p.amount > token.limitPerMint THEN "mint_limit_exceeded"
    ELSE NoError

\* (mutant) the cap is checked before the amount is added
MintErrorCapBefore(token, p) ==
    IF token = Null THEN "token_not_found"
    ELSE IF p.amount > token.limitPerMint THEN "mint_limit_exceeded"
    ELSE IF token.totalSupply >= token.maxSupply THEN "max_supply_exceeded"
    ELSE NoError

\* handleMint once it has the token.
MintError(token, p) ==
    IF token = Null THEN "token_not_found"
    ELSE IF p.amount > token.limitPerMint THEN "mint_limit_exceeded"
    ELSE IF token.totalSupply + p.amount > token.maxSupply
         THEN "max_supply_exceeded"
    ELSE NoError

\* handleConfig.
ConfigError(p) ==
    IF p.enabled /\ p.interval = 0 THEN "invalid_config_interval" ELSE NoError

\* The rules of the handlers that read nothing from the store.
PayloadError(p) ==
    CASE p.op = "DEPLOY" -> DeployTermsError(p)
      [] p.op \in {"MINT", "TRANSFER"} -> AmountError(p)
      [] p.op = "MESSAGE" -> NoError
      [] p.op = "CONFIG" -> ConfigError(p)

-----------------------------------------------------------------------------
\* The updates the handlers make to a device row and to a balance function.

AcceptNonce(device, p) == [device EXCEPT !.lastNonce = p.nonce]

\* (mutant) CONFIG leaves the nonce alone
ApplyConfigKeepNonce(device, p) ==
    [device EXCEPT !.autoMintEnabled = p.enabled,
                   !.autoMintIntervalSeconds = IF p.enabled THEN p.interval ELSE Null]

ApplyConfig(device, p) ==
    [device EXCEPT !.autoMintEnabled = p.enabled,
                   !.autoMintIntervalSeconds = IF p.enabled THEN p.interval ELSE Null,
                   !.lastNonce = p.nonce]

Credit(f, d, amount) == [f EXCEPT ![d] = @ + amount]
Debit(f, d, amount) == [f EXCEPT ![d] = @ - amount]

\* The event buildEvent makes of a payload ingested for device d, with its
\* place in the order of insertion.
Event(at, status, reason, d, p) ==
    [at |-> at, status |-> status, reason |-> reason, deviceId |-> d, msg |-> p]

(***************************************************************************)
(* The sum of a balance function, counted in indivisible units: the i-th   *)
(* unit of d exists when d owns at least i of them.                        *)
(***************************************************************************)
Units(f) == {u \in DeviceIds \X (1..MaxAmount) : u[2] <= f[u[1]]}
Total(f) == Cardinality(Units(f))
=============================================================================
