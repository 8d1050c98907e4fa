----------------------------- MODULE MCMessages -----------------------------
(***************************************************************************)
(* Signed payloads of one ticker, for the small instances.                 *)
(***************************************************************************)
EXTENDS Protocol

CONSTANT tick1

DeployMsg(s, n, max, limit) == [op |-> "DEPLOY", tick |-> tick1, maxSupply |-> max,
                                limitPerMint |-> limit, nonce |-> n, signer |-> s]
MintMsg(s, n, a) == [op |-> "MINT", tick |-> tick1, amount |-> a,
                     nonce |-> n, signer |-> s]
TransferMsg(s, n, a, to) == [op |-> "TRANSFER", tick |-> tick1, amount |-> a,
                             recipient |-> to, nonce |-> n, signer |-> s]
ChatMsg(s, n, to) == [op |-> "MESSAGE", recipient |-> to, nonce |-> n, signer |-> s]
ConfigMsg(s, n, on, i) == [op |-> "CONFIG", enabled |-> on, interval |-> i,
                           nonce |-> n, signer |-> s]
=============================================================================
