------------------------------ MODULE Indexer ------------------------------
(***************************************************************************)
(* IndexerService over an ideal store: each request happens in one step,   *)
(* and one that fails leaves nothing behind but its record.  This is what  *)
(* the handlers say they do.  Neither store is ideal: MemoryStore rolls    *)
(* nothing back and keeps even a refused DevEUI, PostgreSQL refuses what   *)
(* its columns cannot take, and linking is not a transaction on either.    *)
(* PostgresIndexer and MemoryIndexer are the service on them.              *)
(***************************************************************************)
EXTENDS Store

Init == StoreInit

-----------------------------------------------------------------------------
\* Linking; registerDevice is the store's.

\* linkLorawanDevEui, if it happened at once and a refusal changed nothing:
\* refused when another device has the DevEUI.
LinkLorawanDevEui(d, devEui) ==
    /\ devices[d] # Null
    /\ DevEuiFree(d, devEui)
    /\ devices' = [devices EXCEPT ![d].devEui = devEui]
    /\ UNCHANGED <<tokens, balances, events, recorded>>

-----------------------------------------------------------------------------
\* ingestUplink, one action per handler and one for every refusal.

IngestError(d, p) ==
    IF AuthError(devices[d], d, p) # NoError THEN AuthError(devices[d], d, p)
    ELSE RuleError(d, p)

\* What every payload a handler accepts passes, and the event it leaves.
Accept(d, p) ==
    /\ RuleError(d, p) = NoError
    /\ AppendEvent("accepted", NoError, d, p)

\* saveDevice after the assignment of lastNonce.
SaveNonce(d, p) == devices' = [devices EXCEPT ![d] = AcceptNonce(@, p)]

HandleDeploy(d, p) ==
    /\ p.op = "DEPLOY"
    /\ Accept(d, p)
    /\ tokens' = [tokens EXCEPT ![p.tick] = NewToken(d, p)]
    /\ SaveNonce(d, p)
    /\ UNCHANGED balances

HandleMint(d, p) ==
    /\ p.op = "MINT"
    /\ Accept(d, p)
    /\ tokens' = [tokens EXCEPT ![p.tick].totalSupply = @ + p.amount]
    /\ balances' = [balances EXCEPT ![p.tick] = Credit(@, d, p.amount)]
    /\ SaveNonce(d, p)

\* (mutant) both new balances come from what was read before: a transfer to
\* oneself creates units
HandleTransferReadBoth(d, p) ==
    /\ p.op = "TRANSFER"
    /\ Accept(d, p)
    /\ balances' = [balances EXCEPT ![p.tick][d] = @ - p.amount,
                                   ![p.tick][p.recipient] = balances[p.tick][p.recipient] + p.amount]
    /\ SaveNonce(d, p)
    /\ UNCHANGED tokens

HandleTransfer(d, p) ==
    /\ p.op = "TRANSFER"
    /\ Accept(d, p)
    /\ balances' = [balances EXCEPT ![p.tick] =
                      Credit(Debit(@, d, p.amount), p.recipient, p.amount)]
    /\ SaveNonce(d, p)
    /\ UNCHANGED tokens

HandleMessage(d, p) ==
    /\ p.op = "MESSAGE"
    /\ Accept(d, p)
    /\ SaveNonce(d, p)
    /\ UNCHANGED <<tokens, balances>>

HandleConfig(d, p) ==
    /\ p.op = "CONFIG"
    /\ Accept(d, p)
    /\ devices' = [devices EXCEPT ![d] = ApplyConfig(@, p)]
    /\ UNCHANGED <<tokens, balances>>

\* (mutant) a refused payload burns its nonce
RejectAndBurnNonce(d, p) ==
    /\ IngestError(d, p) # NoError
    /\ AppendEvent("rejected", IngestError(d, p), d, p)
    /\ IF devices[d] # Null THEN SaveNonce(d, p) ELSE UNCHANGED devices
    /\ UNCHANGED <<tokens, balances>>

\* A refusal is recorded and changes nothing else.
RejectUplink(d, p) ==
    /\ IngestError(d, p) # NoError
    /\ AppendEvent("rejected", IngestError(d, p), d, p)
    /\ UNCHANGED <<devices, tokens, balances>>

ApplyOperation(d, p) ==
    \/ HandleDeploy(d, p)
    \/ HandleMint(d, p)
    \/ HandleTransfer(d, p)
    \/ HandleMessage(d, p)
    \/ HandleConfig(d, p)

IngestUplink(d, p) ==
    \/ AuthError(devices[d], d, p) = NoError /\ ApplyOperation(d, p)
    \/ RejectUplink(d, p)

Next ==
    \E d \in DeviceIds :
        \/ \E devEui \in DevEuis \cup {Null} : RegisterDevice(d, devEui)
        \/ \E devEui \in DevEuis : LinkLorawanDevEui(d, devEui)
        \/ \E p \in Payloads : IngestUplink(d, p)

Spec == Init /\ [][Next]_storeVars
=============================================================================
