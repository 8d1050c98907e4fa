-------------------------------- MODULE Store --------------------------------
(***************************************************************************)
(* The tables behind IndexerService and what must hold of them whichever   *)
(* store keeps them: the operations that are one statement or one short    *)
(* transaction, the rules the handlers apply to what they read, and the    *)
(* properties that relate the event log to devices and ledger.             *)
(***************************************************************************)
EXTENDS TokenLedger, EventTable

VARIABLE devices    \* devices[d]: the registered device, or Null

storeVars == <<devices, tokens, balances, events, recorded>>

StoreInit ==
    /\ devices = [d \in DeviceIds |-> Null]
    /\ LedgerInit
    /\ TableInit

-----------------------------------------------------------------------------
\* Devices.

DevEuiFree(d, devEui) ==
    \A other \in DeviceIds \ {d} :
        devices[other] # Null => devices[other].devEui # devEui

\* registerDevice: refused when the id or the DevEUI is taken.
RegisterDevice(d, devEui) ==
    /\ devices[d] = Null
    /\ devEui # Null => DevEuiFree(d, devEui)
    /\ devices' = [devices EXCEPT ![d] = NewDevice(devEui)]
    /\ UNCHANGED <<tokens, balances, events, recorded>>

-----------------------------------------------------------------------------
\* The handlers' rules that read the tables.

\* (mutant) the sender's balance is not checked
TransferErrorOverdraft(d, p) ==
    IF tokens[p.tick] = Null THEN "token_not_found"
    ELSE IF devices[p.recipient] = Null THEN "recipient_not_found"
    ELSE NoError

TransferError(d, p) ==
    IF tokens[p.tick] = Null THEN "token_not_found"
    ELSE IF devices[p.recipient] = Null THEN "recipient_not_found"
    ELSE IF balances[p.tick][d] < p.amount THEN "insufficient_balance"
    ELSE NoError

MessageError(p) ==
    IF p.recipient # PublicChat /\ devices[p.recipient] = Null
    THEN "recipient_not_found" ELSE NoError

\* (mutant) a ticker can be deployed over
RuleErrorRedeploy(d, p) ==
    CASE p.op = "DEPLOY" -> DeployTermsError(p)
      [] p.op = "MINT" -> IF AmountError(p) # NoError THEN AmountError(p)
                          ELSE MintError(tokens[p.tick], p)
      [] p.op = "TRANSFER" -> IF AmountError(p) # NoError THEN AmountError(p)
                              ELSE TransferError(d, p)
      [] p.op = "MESSAGE" -> MessageError(p)
      [] p.op = "CONFIG" -> ConfigError(p)

\* The first rule of the operation's handler that the payload breaks.
RuleError(d, p) ==
    CASE p.op = "DEPLOY" -> IF DeployTermsError(p) # NoError THEN DeployTermsError(p)
                            ELSE IF tokens[p.tick] # Null THEN "token_already_exists"
                            ELSE NoError
      [] p.op = "MINT" -> IF AmountError(p) # NoError THEN AmountError(p)
                          ELSE MintError(tokens[p.tick], p)
      [] p.op = "TRANSFER" -> IF AmountError(p) # NoError THEN AmountError(p)
                              ELSE TransferError(d, p)
      [] p.op = "MESSAGE" -> MessageError(p)
      [] p.op = "CONFIG" -> ConfigError(p)

-----------------------------------------------------------------------------
\* Properties.

StoreTypeOK ==
    /\ devices \in [DeviceIds -> Device \cup {Null}]
    /\ LedgerTypeOK
    /\ recorded \in 0..MaxEvents
    /\ events \subseteq EventRow

Accepted(d) == {e \in events : e.status = "accepted" /\ e.deviceId = d}

\* The accepted events of a device carry strictly increasing nonces in the
\* order they were recorded, so no signed payload is ever applied twice; and
\* its lastNonce is not behind any of them, even after chat rows were pruned.
AcceptedNoncesIncrease ==
    \A d \in DeviceIds : \A e \in Accepted(d) :
        /\ devices[d] # Null /\ devices[d].lastNonce # Null
        /\ e.msg.nonce <= devices[d].lastNonce
        /\ \A f \in Accepted(d) : e.at < f.at => e.msg.nonce < f.msg.nonce

\* "Strict per-device nonce checks" (README): one signed payload is applied once.
PayloadAppliedOnce ==
    \A e, f \in events :
        (/\ e.status = "accepted" /\ f.status = "accepted"
         /\ e.deviceId = f.deviceId /\ e.msg = f.msg) => e = f

\* "`nonce` advances only on accepted transactions" (README): a device's nonce
\* never goes back, and when it moves the step records no rejection and the
\* nonce becomes the accepted payload's.
NonceMovesWithAcceptance ==
    [][\A d \in DeviceIds :
         (devices[d] # Null /\ devices[d].lastNonce # devices'[d].lastNonce) =>
            /\ devices'[d].lastNonce # Null
            /\ FreshNonce(devices[d], devices'[d].lastNonce)
            /\ recorded' = recorded + 1
            /\ \A e \in events' \ events :
                  /\ e.status = "accepted" /\ e.deviceId = d
                  /\ e.msg.nonce = devices'[d].lastNonce]_storeVars

\* Nobody's balance falls except by a TRANSFER its owner signed, for exactly
\* the amount that left.
OnlyHolderSpends ==
    [][\A t \in Ticks, d \in DeviceIds : balances'[t][d] < balances[t][d] =>
         \E e \in events' \ events :
            /\ e.status = "accepted" /\ e.msg.op = "TRANSFER"
            /\ e.deviceId = d /\ e.msg.signer = d /\ e.msg.tick = t
            /\ e.msg.amount = balances[t][d] - balances'[t][d]]_storeVars

\* What the rows in R move, in units.
Moved(R) == Cardinality({u \in R \X (1..MaxAmount) : u[2] <= u[1].msg.amount})

AcceptedOp(op, t) ==
    {e \in events : e.status = "accepted" /\ e.msg.op = op /\ e.msg.tick = t}

\* The ledger is what the log says ("deterministic state machine for token
\* balances and supply"): a token has the terms of the only accepted DEPLOY of
\* its ticker, its supply is what the accepted MINTs issued, and a balance is
\* what its owner minted and received less what he sent.  Pruning chat rows
\* loses nothing of it.
LedgerMatchesLog ==
    \A t \in Ticks :
        /\ IF tokens[t] = Null
           THEN AcceptedOp("DEPLOY", t) = {}
           ELSE /\ \A e \in AcceptedOp("DEPLOY", t) :
                      NewToken(e.deviceId, e.msg) = [tokens[t] EXCEPT !.totalSupply = 0]
                /\ Cardinality(AcceptedOp("DEPLOY", t)) = 1
                /\ tokens[t].totalSupply = Moved(AcceptedOp("MINT", t))
        /\ \A d \in DeviceIds :
              balances[t][d] =
                  Moved({e \in AcceptedOp("MINT", t) : e.deviceId = d})
                + Moved({e \in AcceptedOp("TRANSFER", t) : e.msg.recipient = d})
                - Moved({e \in AcceptedOp("TRANSFER", t) : e.deviceId = d})

\* The auto-mint settings of a device without a DevEUI, which nobody has linked,
\* are those of the last CONFIG accepted for it: no concurrent uplink writes
\* older ones back.  (A link request may, as it may with the nonce, so nothing is
\* said of a linked device.)
ConfigIsLatest ==
    \A d \in DeviceIds : (devices[d] # Null /\ devices[d].devEui = Null) =>
        LET configs == {e \in Accepted(d) : e.msg.op = "CONFIG"}
        IN /\ configs = {} => ~devices[d].autoMintEnabled
           /\ \A e \in configs : (\A f \in configs : f.at <= e.at) =>
                /\ devices[d].autoMintEnabled = e.msg.enabled
                /\ devices[d].autoMintIntervalSeconds =
                       IF e.msg.enabled THEN e.msg.interval ELSE Null
=============================================================================
