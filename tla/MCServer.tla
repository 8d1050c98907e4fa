------------------------------ MODULE MCServer ------------------------------
(***************************************************************************)
(* A small server: a DevEUI whose link moves from one device to another, a *)
(* payload the webhook delivers and one the database refuses, a pool of    *)
(* two clients.                                                            *)
(***************************************************************************)
EXTENDS Server, MCMessages, TLC

CONSTANTS d1, d2, e1, e2

Delivered == ConfigMsg(d1, 1, FALSE, 0)
TooLong == ConfigMsg(d1, 1, TRUE, 1)
ServerPayloads == {Delivered, TooLong}

ServerCalls ==
    { [route |-> "stray"],
      [route |-> "register", device |-> d2, devEui |-> e1],
      [route |-> "link", device |-> d1, devEui |-> e2],
      [route |-> "uplink", device |-> d1, msg |-> TooLong],
      [route |-> "webhook", devEui |-> e1, msg |-> Delivered] }

\* Any number of uplinks comes, but of the other calls one each at most; nothing
\* has to send another.
OthersOnce ==
    \A q, r \in {r \in Requests : request[r].stage # "none"} :
        (Route(q) = Route(r) /\ Route(r) \in {"stray", "register", "link"}) => q = r

\* The signer linked, and the other device not registered; or the other way
\* round about the links, so that the signer's is refused.
ServerDatabases ==
    { d1 :> NewDevice(e1) @@ d2 :> Null,
      d1 :> NewDevice(Null) @@ d2 :> NewDevice(e2) }
=============================================================================
