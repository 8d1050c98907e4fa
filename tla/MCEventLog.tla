----------------------------- MODULE MCEventLog -----------------------------
(***************************************************************************)
(* A small event log: two devices that write to each other and to          *)
(* everybody, a transfer, two times, two chat rows before pruning starts.  *)
(***************************************************************************)
EXTENDS EventLog, MCMessages

CONSTANTS d1, d2

Accepted(p) == [status |-> "accepted", reason |-> NoError, deviceId |-> p.signer, msg |-> p]
Rejected(p) == [Accepted(p) EXCEPT !.status = "rejected", !.reason = "replay_detected"]

LogPayloads ==
    { ChatMsg(d1, 1, d2), ChatMsg(d2, 1, d1), ChatMsg(d2, 2, PublicChat),
      TransferMsg(d1, 2, 1, d2) }

LogUplinks ==
    {Accepted(p) : p \in LogPayloads} \cup {Rejected(ChatMsg(d1, 1, d2))}
=============================================================================
