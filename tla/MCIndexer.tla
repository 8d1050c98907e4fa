----------------------------- MODULE MCIndexer -----------------------------
(***************************************************************************)
(* A small instance of Indexer: two devices, a ticker, a DevEUI, a handful *)
(* of signed payloads that anybody may hand in any number of times, in any *)
(* order, under any device id.                                             *)
(***************************************************************************)
EXTENDS Indexer, MCMessages

CONSTANTS d1, d2, e1,
          MaxRejected   \* bound on the rejections on record, which change nothing else

FewRejections == Cardinality({e \in events : e.status = "rejected"}) <= MaxRejected

\* A deploy with a rival, mints up to the cap and over
\* it, transfers both ways and to oneself, a message, a CONFIG.
SignedPayloads ==
    { DeployMsg(d1, 0, 3, 2), DeployMsg(d2, 0, 2, 1),
      MintMsg(d1, 1, 2), MintMsg(d1, 2, 2), MintMsg(d2, 1, 1),
      TransferMsg(d1, 2, 1, d2), TransferMsg(d1, 3, 1, d1), TransferMsg(d2, 2, 2, d1),
      ChatMsg(d1, 3, PublicChat), ConfigMsg(d2, 1, TRUE, 1) }
=============================================================================
