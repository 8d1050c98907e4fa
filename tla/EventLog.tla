------------------------------ MODULE EventLog ------------------------------
(***************************************************************************)
(* The event log of both stores, given the same calls: MemoryStore keeps a *)
(* list in the order of insertion, PostgresStore a table it sorts by the   *)
(* times the rows carry.  What is modelled here and not in EventTable: the *)
(* clock, when chat rows grow old, what the lists of transactions and      *)
(* messages show, and where the two stores part.                           *)
(***************************************************************************)
EXTENDS Protocol, SequencesExt

CONSTANTS
    ChatSoftLimit,  \* CHAT_RETENTION_SOFT_LIMIT
    Retention,      \* CHAT_RETENTION_DAYS, in ticks of the clock
    WindowFactor,   \* listMessages reads this many times its limit,
    WindowFloor,    \* and at least this many messages
    Uplinks,        \* calls of appendEvent: [status, reason, deviceId, msg]
    MaxTime,        \* bound on the clock and on the times callers give
    MaxEvents       \* bound on the number of events ever recorded

ASSUME EventLogAssumption ==
    /\ ChatSoftLimit \in Nat /\ Retention \in Nat
    /\ WindowFactor \in Nat \ {0} /\ WindowFloor \in Nat
    /\ Uplinks \subseteq [status : {"accepted", "rejected"}, reason : Reasons,
                          deviceId : DeviceIds, msg : Payloads]
    /\ \A u \in Uplinks : u.status = "accepted" <=> u.reason = NoError
    /\ MaxTime \in Nat /\ MaxEvents \in Nat
    /\ Null \notin DeviceIds \cup {PublicChat}

VARIABLES
    memory,     \* MemoryStore.events
    table,      \* the rows of PostgresStore's events table
    recorded,   \* how many events were ever appended
    now         \* Date.now()

logVars == <<memory, table, recorded, now>>

Times == 0..MaxTime

LogInit == memory = <<>> /\ table = {} /\ recorded = 0 /\ now = 0

-----------------------------------------------------------------------------
\* Rows: the event as EventTable knows it, and its times.  The recipient is a
\* column of its own; an event that has none never equals a device.

RecipientOf(row) ==
    IF row.event.msg.op \in {"MESSAGE", "TRANSFER"} THEN row.event.msg.recipient ELSE Null
TickOf(row) ==
    IF row.event.msg.op \in {"DEPLOY", "MINT", "TRANSFER"} THEN row.event.msg.tick ELSE Null
IsChat(row) == row.event.msg.op = "MESSAGE"
Old(row) == row.receivedAt < now - Retention

ChatIn(rows) == {row \in rows : IsChat(row)}

\* Array.filter: the rows of the list that are among those kept, in its order.
Selected(list, kept) ==
    LET Upto[i \in 0..Len(list)] ==
            IF i = 0 THEN <<>>
            ELSE IF list[i] \in kept THEN Append(Upto[i - 1], list[i]) ELSE Upto[i - 1]
    IN Upto[Len(list)]

\* LIMIT, and slice(0, limit).
FirstOf(list, limit) == SubSeq(list, 1, IF limit < Len(list) THEN limit ELSE Len(list))

-----------------------------------------------------------------------------
\* appendEvent, in both stores.

Kept(rows) == {row \in rows : ~IsChat(row) \/ ~Old(row)}

\* (mutant) every row past the cutoff goes
PrunedMemoryAll(list) ==
    IF Cardinality(ChatIn(ToSet(list))) <= ChatSoftLimit THEN list
    ELSE Selected(list, {row \in ToSet(list) : ~Old(row)})

\* MemoryStore.pruneChatEvents.
PrunedMemory(list) ==
    IF Cardinality(ChatIn(ToSet(list))) <= ChatSoftLimit THEN list
    ELSE Selected(list, Kept(ToSet(list)))

\* (mutant) the age of a row is the time since it was written
PrunedTableByCreation(rows) ==
    IF Cardinality(ChatIn(rows)) <= ChatSoftLimit THEN rows
    ELSE {row \in rows : ~IsChat(row) \/ row.createdAt >= now - Retention}

\* (mutant) the number of rows is not looked at
PrunedTableUncounted(rows) == Kept(rows)

\* PostgresStore.pruneChatEvents: received_at is never NULL.
PrunedTable(rows) ==
    IF Cardinality(ChatIn(rows)) <= ChatSoftLimit THEN rows
    ELSE Kept(rows)

\* (mutant) the newest row goes to the front of the list
AppendRowFront(u, receivedAt) ==
    LET row == [event |-> Event(recorded + 1, u.status, u.reason, u.deviceId, u.msg),
                receivedAt |-> receivedAt, createdAt |-> now]
    IN /\ recorded < MaxEvents
       /\ recorded' = recorded + 1
       /\ memory' = PrunedMemory(<<row>> \o memory)
       /\ table' = IF IsChat(row) THEN PrunedTable(table \cup {row})
                   ELSE table \cup {row}
       /\ UNCHANGED now

\* buildEvent stamps the row; receivedAt is the caller's word.  MemoryStore
\* prunes after every event, PostgresStore after a message.
AppendRow(u, receivedAt) ==
    LET row == [event |-> Event(recorded + 1, u.status, u.reason, u.deviceId, u.msg),
                receivedAt |-> receivedAt, createdAt |-> now]
    IN /\ recorded < MaxEvents
       /\ recorded' = recorded + 1
       /\ memory' = PrunedMemory(Append(memory, row))
       /\ table' = IF IsChat(row) THEN PrunedTable(table \cup {row})
                   ELSE table \cup {row}
       /\ UNCHANGED now

ClockTicks ==
    /\ now < MaxTime
    /\ now' = now + 1
    /\ UNCHANGED <<memory, table, recorded>>

-----------------------------------------------------------------------------
\* listTransactions of the stores, on the rows its filters keep.

\* MemoryStore: slice(-limit), reversed.
MemoryList(rows, limit) ==
    Reverse(SubSeq(rows, IF limit < Len(rows) THEN Len(rows) - limit + 1 ELSE 1, Len(rows)))

\* (mutant) sorted by when the rows were written
NotBeforeCreated(r1, r2) == r1.createdAt >= r2.createdAt

\* r1 may come before r2 in a list of the table's rows.
NotBefore(r1, r2) ==
    \/ r1.receivedAt > r2.receivedAt
    \/ r1.receivedAt = r2.receivedAt /\ r1.createdAt >= r2.createdAt

\* PostgresStore: ORDER BY received_at DESC, created_at DESC LIMIT limit.  Rows
\* equal in both may come in any order.
TableLists(rows, limit) ==
    {FirstOf(s, limit) :
        s \in {s \in SetToSeqs(rows) : \A i, j \in DOMAIN s : i < j => NotBefore(s[i], s[j])}}

-----------------------------------------------------------------------------
\* IndexerService.listTransactions and listMessages, on the rows of a store.

\* The history of a device and a ticker, when they are given.
InHistory(row, d, t) ==
    /\ ~IsChat(row)
    /\ d # Null => row.event.deviceId = d \/ RecipientOf(row) = d
    /\ t # Null => TickOf(row) = t

Window(limit) ==
    IF limit * WindowFactor > WindowFloor THEN limit * WindowFactor ELSE WindowFloor

\* What listMessages keeps of the window: public messages when no peer is
\* named, else direct messages that involve the device and the peer.
Shown(row, d, peer) ==
    /\ row.event.status = "accepted"
    /\ IF peer = Null
       THEN RecipientOf(row) = PublicChat
       ELSE /\ d # Null
            /\ RecipientOf(row) # PublicChat
            /\ row.event.deviceId = d \/ RecipientOf(row) = d
            /\ row.event.deviceId = peer \/ RecipientOf(row) = peer

\* (mutant) cut to the limit before the filter
ShownFromCutFirst(window, d, peer, limit) ==
    Selected(FirstOf(window, limit), {row \in ToSet(window) : Shown(row, d, peer)})

ShownFrom(window, d, peer, limit) ==
    FirstOf(Selected(window, {row \in ToSet(window) : Shown(row, d, peer)}), limit)

-----------------------------------------------------------------------------

LogNext ==
    \/ ClockTicks
    \/ \E u \in Uplinks, receivedAt \in Times : AppendRow(u, receivedAt)

LogSpec == LogInit /\ [][LogNext]_logVars

-----------------------------------------------------------------------------
\* Properties.

Row == [event : [at : 1..MaxEvents, status : {"accepted", "rejected"}, reason : Reasons,
                 deviceId : DeviceIds, msg : Payloads],
        receivedAt : Times, createdAt : Times]

\* Rows are listed and stored once, the list in the order of insertion.
LogTypeOK ==
    /\ memory \in Seq(Row) /\ table \subseteq Row
    /\ recorded \in 0..MaxEvents /\ now \in Times
    /\ \A i, j \in DOMAIN memory : i < j => memory[i].event.at < memory[j].event.at
    /\ \A r1, r2 \in table : r1.event.at = r2.event.at => r1 = r2

\* Both tables are what the rest of the service takes them for: seen without
\* its times and its order, each log only ever grows by the appended event and
\* loses chat rows, above the soft limit.
MemoryTable == INSTANCE EventTable WITH events <- {row.event : row \in ToSet(memory)}
PostgresTable == INSTANCE EventTable WITH events <- {row.event : row \in table}
TablesImplemented == MemoryTable!TableSpec /\ PostgresTable!TableSpec

\* Messages are kept for CHAT_RETENTION_DAYS: none leaves a log before its
\* time, and a message or, in memory, any event that finds the log above the
\* soft limit leaves no old one behind.
RetentionHolds ==
    [][/\ \A row \in (ToSet(memory) \ ToSet(memory')) \cup (table \ table') : Old(row)
       /\ (memory' # memory /\ Cardinality(ChatIn(ToSet(memory'))) > ChatSoftLimit) =>
             \A row \in ChatIn(ToSet(memory')) : ~Old(row)
       /\ (Cardinality(ChatIn(table')) > ChatSoftLimit /\ ChatIn(table') # ChatIn(table)) =>
             \A row \in ChatIn(table') : ~Old(row)]_logVars

\* The two stores keep the same rows, except that one may have let go of a
\* message past its retention that the other still has: they prune at
\* different events, but by the same clock and the same column.
StoresDifferInOldChatOnly ==
    \A row \in (ToSet(memory) \ table) \cup (table \ ToSet(memory)) : IsChat(row) /\ Old(row)

Limits == 1..2
Devices == DeviceIds \cup {Null}

\* Messages exchanged by d and peer; of a device and itself, every direct message
\* it sent or received; public ones when there is no peer.
Conversation(rows, d, peer) ==
    {row \in ChatIn(rows) :
        /\ row.event.status = "accepted"
        /\ IF peer = Null THEN RecipientOf(row) = PublicChat
           ELSE /\ RecipientOf(row) # PublicChat
                /\ {d, peer} \subseteq {row.event.deviceId, RecipientOf(row)}}

\* A list of messages shows the newest of the conversation asked for, newest
\* first, and nothing of anybody else's; and when the window reaches over all
\* the messages on record, as many of them as the limit allows.  Others'
\* messages, and refused ones, can hide a conversation only by filling the
\* window.
ListsConversation(list, rows, d, peer, limit, Newer(_, _)) ==
    LET wanted == Conversation(rows, d, peer)
    IN /\ ToSet(list) \subseteq wanted
       /\ \A i, j \in DOMAIN list : i < j => Newer(list[i], list[j])
       /\ \A shown \in ToSet(list), hidden \in wanted \ ToSet(list) : Newer(shown, hidden)
       /\ Len(list) <= limit
       /\ Cardinality(ChatIn(rows)) <= Window(limit) =>
             Len(list) = IF limit < Cardinality(wanted) THEN limit ELSE Cardinality(wanted)

ConversationListed ==
    \A limit \in Limits :
        LET memoryWindow == MemoryList(Selected(memory, ChatIn(ToSet(memory))), Window(limit))
            tableWindows == TableLists(ChatIn(table), Window(limit))
            Later(r1, r2) == r1.event.at > r2.event.at
        IN \A d, peer \in Devices :
             /\ ListsConversation(ShownFrom(memoryWindow, d, peer, limit),
                                  ToSet(memory), d, peer, limit, Later)
             /\ \A window \in tableWindows :
                   ListsConversation(ShownFrom(window, d, peer, limit),
                                     table, d, peer, limit, NotBefore)

\* Rows were inserted in the order of their times, and no two at the same.
ReceivedInOrder ==
    \A r1, r2 \in table \cup ToSet(memory) : r1.event.at < r2.event.at =>
        \/ r1.receivedAt < r2.receivedAt
        \/ r1.receivedAt = r2.receivedAt /\ r1.createdAt < r2.createdAt

\* As long as events arrive in the order of their times, the stores answer
\* alike: always for transactions, and for messages while neither has pruned
\* more than the other.
SameAnswers ==
    ReceivedInOrder =>
        /\ \A d \in Devices, t \in Ticks \cup {Null}, limit \in Limits :
              LET Wanted(rows) == {row \in rows : InHistory(row, d, t)}
              IN TableLists(Wanted(table), limit)
                     = {MemoryList(Selected(memory, Wanted(ToSet(memory))), limit)}
        /\ table = ToSet(memory) =>
              \A limit \in Limits :
                  TableLists(ChatIn(table), Window(limit))
                      = {MemoryList(Selected(memory, ChatIn(ToSet(memory))), Window(limit))}
=============================================================================
