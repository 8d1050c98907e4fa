----------------------------- MODULE MCPostgres -----------------------------
(***************************************************************************)
(* Small instances of PostgresIndexer.                                     *)
(***************************************************************************)
EXTENDS PostgresIndexer, MCMessages, TLC

CONSTANTS d1, d2, r1, r2, r3, e1

\* Two devices race for a ticker and for the room below its cap: under one cap
\* both mints fit exactly, under the other only one does.  One then tries a
\* transfer.
RacePayloads ==
    { DeployMsg(d1, 0, 3, 2), DeployMsg(d2, 0, 2, 2),
      MintMsg(d1, 1, 2), MintMsg(d2, 1, 1), TransferMsg(d1, 2, 1, d2) }

\* One payload of each operation that can succeed, to be handed in under either
\* device id, and
\* settings too large for their column.
MixedPayloads ==
    { DeployMsg(d1, 0, 1, 1), MintMsg(d1, 1, 1),
      ChatMsg(d1, 1, d2), ConfigMsg(d1, 2, TRUE, 1),
      ConfigMsg(d1, 1, TRUE, 2) }

\* What the runs that look for one behaviour need.
OneMint == { DeployMsg(d1, 0, 2, 1), MintMsg(d1, 1, 1) }
OneTransfer == OneMint \cup { TransferMsg(d1, 2, 1, d2) }
OneDeploy == { DeployMsg(d1, 0, 2, 1) }

\* Both devices want the same DevEUI.
RaceLinks == {[deviceId |-> d1, devEui |-> e1], [deviceId |-> d2, devEui |-> e1]}

OneLink == {[deviceId |-> d1, devEui |-> e1]}

Interchangeable == Permutations({r1, r2})
=============================================================================
