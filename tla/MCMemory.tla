------------------------------ MODULE MCMemory ------------------------------
(***************************************************************************)
(* Small instances of MemoryIndexer.                                       *)
(***************************************************************************)
EXTENDS MemoryIndexer, MCMessages

CONSTANTS d1, d2, e1,
          MaxRejected   \* bound on the rejections on record

FewRejections == Cardinality({e \in events : e.status = "rejected"}) <= MaxRejected

\* A payload under a device id that is not its signer's, which is refused at once,
\* has its macrotask to itself.
StrangersComeAlone ==
    Len(queue) > 1 => \A i \in DOMAIN queue : LET job == queue[i].job IN
        job.kind = "ingest" => job.msg.signer = job.deviceId

Unlinked == {[deviceId |-> d, devEui |-> Null] : d \in {d1, d2}}
RivalLinks == {[deviceId |-> d, devEui |-> e1] : d \in {d1, d2}}

\* What writes to one token, two balances and two devices: rival deploys, mints
\* up to the cap and over it, a transfer that spends all its sender has, settings
\* and a message.
BatchPayloads ==
    { DeployMsg(d1, 0, 3, 2), DeployMsg(d2, 0, 2, 2), MintMsg(d1, 1, 2), MintMsg(d2, 1, 2),
      TransferMsg(d1, 2, 2, d2), ConfigMsg(d1, 3, TRUE, 1), ChatMsg(d2, 0, d1) }

OneDeploy == { DeployMsg(d1, 0, 1, 1) }
=============================================================================
