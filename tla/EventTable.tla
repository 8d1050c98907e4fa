----------------------------- MODULE EventTable -----------------------------
(***************************************************************************)
(* The events table as the service relies on it: a row is added for every  *)
(* request that was parsed, keeps what it says for good, and only chat     *)
(* rows ever leave, when there are more of them than the soft limit.       *)
(* Clocks, orders and queries are EventLog's, which implements this.       *)
(***************************************************************************)
EXTENDS Protocol

CONSTANTS
    ChatSoftLimit,   \* CHAT_RETENTION_SOFT_LIMIT
    MaxEvents        \* bound on the number of events ever recorded

ASSUME StoreAssumption == ChatSoftLimit \in Nat /\ MaxEvents \in Nat

VARIABLES
    events,     \* the rows of the events table
    recorded    \* how many rows were ever inserted

tableVars == <<events, recorded>>

TableInit == events = {} /\ recorded = 0

\* Codes of errors a store raises: the database, its driver, saveDevice.
StoreErrors == {"23514", "22003", "ingest_rejected", "lorawan_dev_eui_already_registered"}

EventRow == [at : 1..recorded, status : {"accepted", "rejected"},
             reason : Reasons \cup StoreErrors, deviceId : DeviceIds, msg : Payloads]

-----------------------------------------------------------------------------
\* appendEvent.  A row's `at` is its place in the order of insertion.

\* pruneChatEvents: above the soft limit, the messages received too long ago
\* go.  The caller of ingestUplink chooses receivedAt, so any of them may be.
\* (The PostgreSQL store prunes after a MESSAGE only.  It is the case of none
\* being old when another event is appended.)
Prunings(log) ==
    LET chat == {e \in log : e.msg.op = "MESSAGE"}
    IN IF Cardinality(chat) <= ChatSoftLimit THEN {log}
       ELSE {log \ old : old \in SUBSET chat}

AppendEvent(status, reason, d, p) ==
    /\ recorded < MaxEvents
    /\ recorded' = recorded + 1
    /\ events' \in Prunings(events \cup {Event(recorded', status, reason, d, p)})

Outcomes == {<<"accepted", NoError>>}
            \cup ({"rejected"} \X ((Reasons \cup StoreErrors) \ {NoError}))

TableNext ==
    \E d \in DeviceIds, p \in Payloads, outcome \in Outcomes :
        AppendEvent(outcome[1], outcome[2], d, p)

TableSpec == TableInit /\ [][TableNext]_tableVars
=============================================================================
