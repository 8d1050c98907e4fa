--------------------------- MODULE EventLogProofs ---------------------------
(***************************************************************************)
(* The event logs of both stores, for any clock, retention, limits and     *)
(* calls: they implement EventTable, part in old messages only, keep every *)
(* message its time, and list transactions and messages as promised.       *)
(***************************************************************************)
EXTENDS EventLog, SequenceTheorems, FiniteSetTheorems, WellFoundedInduction, TLAPS

-----------------------------------------------------------------------------
\* Rows and events.

EventsOf(rows) == {row.event : row \in rows}

\* No event is stored twice.
OneRowEach(rows) == \A r1, r2 \in rows : r1.event = r2.event => r1 = r2

\* There are as many chat events as chat rows.
LEMMA ChatCount ==
    ASSUME NEW rows, IsFiniteSet(rows), OneRowEach(rows)
    PROVE  Cardinality({e \in EventsOf(rows) : e.msg.op = "MESSAGE"}) = Cardinality(ChatIn(rows))
<1> DEFINE chat == {e \in EventsOf(rows) : e.msg.op = "MESSAGE"}
           f == [row \in ChatIn(rows) |-> row.event]
<1>1. IsFiniteSet(ChatIn(rows))
  BY FS_Subset DEF ChatIn
<1>2. f \in Bijection(ChatIn(rows), chat)
  <2>1. f \in [ChatIn(rows) -> chat]
    BY DEF ChatIn, IsChat, EventsOf
  <2>2. \A r1, r2 \in ChatIn(rows) : f[r1] = f[r2] => r1 = r2
    BY DEF ChatIn, OneRowEach
  <2>3. \A e \in chat : \E row \in ChatIn(rows) : f[row] = e
    BY DEF ChatIn, IsChat, EventsOf
  <2> QED
    BY <2>1, <2>2, <2>3 DEF Bijection, Injection, Surjection, IsInjective
<1>3. ExistsBijection(ChatIn(rows), chat)
  BY <1>2 DEF ExistsBijection
<1> QED
  BY <1>1, <1>3, FS_Bijection

\* EventTable counts as this module does.
LEMMA SameCount == \A S : PostgresTable!Cardinality(S) = Cardinality(S)
BY Zenon DEF Cardinality, PostgresTable!Cardinality

\* What the table lets go, seen as events, is what a pruning may let go.
LEMMA PruningImplemented ==
    ASSUME NEW rows, IsFiniteSet(rows), OneRowEach(rows)
    PROVE  /\ EventsOf(rows) \in PostgresTable!Prunings(EventsOf(rows))
           /\ EventsOf(PrunedTable(rows)) \in PostgresTable!Prunings(EventsOf(rows))
<1> DEFINE log == EventsOf(rows)
           chat == {e \in log : e.msg.op = "MESSAGE"}
           gone == {row \in rows : IsChat(row) /\ Old(row)}
<1>1. Cardinality(chat) = Cardinality(ChatIn(rows))
  BY ChatCount
<1>2. EventsOf(gone) \in SUBSET chat
  BY DEF EventsOf, IsChat
<1>3. {} \in SUBSET chat /\ log \ {} = log
  OBVIOUS
<1>4. CASE Cardinality(chat) <= ChatSoftLimit
  BY <1>1, <1>4, SameCount DEF PrunedTable, PostgresTable!Prunings
<1>5. CASE ~(Cardinality(chat) <= ChatSoftLimit)
  <2>1. EventsOf(PrunedTable(rows)) = log \ EventsOf(gone)
    <3>1. PrunedTable(rows) = rows \ gone
      BY <1>1, <1>5 DEF PrunedTable, Kept
    <3> QED
      BY <3>1 DEF EventsOf, OneRowEach
  <2>2. ASSUME NEW old \in SUBSET chat PROVE log \ old \in PostgresTable!Prunings(log)
    BY <1>5, SameCount DEF PostgresTable!Prunings
  <2> HIDE DEF chat, gone, log
  <2>3. log \ EventsOf(gone) \in PostgresTable!Prunings(log)
    BY <1>2, <2>2
  <2>4. log \ {} \in PostgresTable!Prunings(log)
    BY <1>3, <2>2
  <2> QED
    BY <1>3, <2>1, <2>3, <2>4 DEF log
<1> QED
  BY <1>4, <1>5

-----------------------------------------------------------------------------
\* The inductive invariant: rows are numbered as they come.

TableInv ==
    /\ IsFiniteSet(table) /\ recorded \in Nat
    /\ \A row \in table : row.event.at \in 1..recorded
    /\ OneRowEach(table)

LEMMA TableInvInit == LogInit => TableInv
BY FS_EmptySet DEF LogInit, TableInv, OneRowEach

\* Appending a row keeps the invariant and appends its event.
LEMMA AppendRowStep ==
    ASSUME TableInv, NEW u \in Uplinks, NEW receivedAt \in Times, AppendRow(u, receivedAt)
    PROVE  TableInv' /\ PostgresTable!TableNext
<1> DEFINE event == Event(recorded + 1, u.status, u.reason, u.deviceId, u.msg)
           row == [event |-> event, receivedAt |-> receivedAt, createdAt |-> now]
           rows == table \cup {row}
<1>1. /\ recorded < MaxEvents /\ recorded' = recorded + 1
      /\ table' = IF IsChat(row) THEN PrunedTable(rows) ELSE rows
  BY DEF AppendRow
<1>2. event.at = recorded + 1
  BY DEF Event
<1> HIDE DEF event
<1>3. row.event = event
  OBVIOUS
<1>4. IsFiniteSet(rows)
  BY FS_AddElement DEF TableInv
<1>5. OneRowEach(rows)
  <2>1. \A r \in table : r.event # event
    BY <1>2 DEF TableInv
  <2> HIDE DEF row
  <2> QED
    BY <1>3, <2>1 DEF TableInv, OneRowEach
<1>6. \A r \in rows : r.event.at \in 1..recorded'
  BY <1>1, <1>2, <1>3 DEF TableInv
<1>7. EventsOf(rows) = EventsOf(table) \cup {event}
  BY <1>3 DEF EventsOf
<1> HIDE DEF row, rows
<1>8. table' \subseteq rows
  BY <1>1 DEF PrunedTable, Kept
<1>9. TableInv'
  <2>1. IsFiniteSet(table')
    BY <1>4, <1>8, FS_Subset
  <2>2. recorded' \in Nat
    BY <1>1 DEF TableInv
  <2>3. OneRowEach(table)'
    BY <1>5, <1>8 DEF OneRowEach
  <2> QED
    BY <1>6, <1>8, <2>1, <2>2, <2>3 DEF TableInv
<1>10. EventsOf(table') \in PostgresTable!Prunings(EventsOf(table) \cup {event})
  BY <1>1, <1>4, <1>5, <1>7, PruningImplemented
<1>11. PostgresTable!AppendEvent(u.status, u.reason, u.deviceId, u.msg)
  BY <1>1, <1>10 DEF PostgresTable!AppendEvent, PostgresTable!Event, EventsOf, Event, event
<1>12. u.deviceId \in DeviceIds /\ u.msg \in Payloads
  BY EventLogAssumption
<1>13. <<u.status, u.reason>> \in PostgresTable!Outcomes
  <2>1. /\ u.status \in {"accepted", "rejected"} /\ u.reason \in Reasons
        /\ u.status = "accepted" <=> u.reason = NoError
    BY EventLogAssumption
  <2> QED
    BY <2>1 DEF PostgresTable!Outcomes, PostgresTable!Reasons, PostgresTable!NoError, Reasons, NoError
<1>14. PostgresTable!TableNext
  BY <1>11, <1>12, <1>13 DEF PostgresTable!TableNext
<1> QED
  BY <1>9, <1>14

\* Every step appends an event or leaves the table alone.
LEMMA TableStep ==
    TableInv /\ [LogNext]_logVars => TableInv' /\ [PostgresTable!TableNext]_PostgresTable!tableVars
<1> SUFFICES ASSUME TableInv, [LogNext]_logVars
             PROVE  TableInv' /\ [PostgresTable!TableNext]_PostgresTable!tableVars
  OBVIOUS
<1>1. CASE UNCHANGED <<table, recorded>>
  BY <1>1 DEF TableInv, OneRowEach, PostgresTable!tableVars
<1>2. CASE \E u \in Uplinks, receivedAt \in Times : AppendRow(u, receivedAt)
  BY <1>2, AppendRowStep
<1> QED
  BY <1>1, <1>2 DEF LogNext, ClockTicks, logVars

-----------------------------------------------------------------------------

\* Seen without its times, the events table is EventTable's: every append adds
\* its event, under the next number, and only chat events ever leave, when
\* there are more of them than the soft limit.
THEOREM PostgresTableImplemented == LogSpec => PostgresTable!TableSpec
<1>1. LogInit => PostgresTable!TableInit
  BY DEF LogInit, PostgresTable!TableInit
<1> QED
  BY <1>1, TableInvInit, TableStep, PTL DEF LogSpec, PostgresTable!TableSpec

-----------------------------------------------------------------------------
\* Lists.

\* The least of a set of numbers: what stands in for induction.
LEMMA Least ==
    ASSUME NEW T \in SUBSET Nat, T # {}
    PROVE  \E n \in T : \A m \in T : n <= m
<1>1. PICK n \in T : \A m \in T : ~(<<m, n>> \in OpToRel(<, Nat))
  BY WFMin, NatLessThanWellFounded, Zenon
<1>2. \A m \in T : ~(m < n)
  BY <1>1, Zenon DEF OpToRel
<1> QED
  BY <1>2

\* What a filter has selected after each row, as far as the n-th.
Filters(f, list, kept, n) ==
    f = [i \in 0..n |-> IF i = 0 THEN <<>>
                        ELSE IF list[i] \in kept THEN Append(f[i - 1], list[i]) ELSE f[i - 1]]

LEMMA FilterExists ==
    ASSUME NEW list, NEW kept, NEW n \in Nat
    PROVE  \E f : Filters(f, list, kept, n)
<1> SUFFICES ASSUME NEW m \in Nat, ~ \E f : Filters(f, list, kept, m),
                    \A k \in Nat : k < m => \E f : Filters(f, list, kept, k)
             PROVE  FALSE
  <2> DEFINE T == {m \in Nat : ~ \E f : Filters(f, list, kept, m)}
  <2>1. T \in SUBSET Nat
    OBVIOUS
  <2>2. T = {} => \E f : Filters(f, list, kept, n)
    OBVIOUS
  <2>3. T # {} => \E m \in T : \A k \in Nat : k < m => k \notin T
    <3> HIDE DEF T
    <3> QED
      BY <2>1, Least
  <2> QED
    BY <2>2, <2>3
<1>1. CASE m = 0
  <2> DEFINE g == [i \in 0..0 |-> <<>>]
  <2>1. Filters(g, list, kept, 0)
    BY DEF Filters
  <2> QED
    BY <1>1, <2>1
<1>2. CASE m # 0
  <2>1. m - 1 \in Nat /\ m - 1 < m
    BY <1>2
  <2>2. PICK f : Filters(f, list, kept, m - 1)
    BY <2>1
  <2> DEFINE g == [i \in 0..m |-> IF i = m
                                  THEN IF list[m] \in kept THEN Append(f[m - 1], list[m]) ELSE f[m - 1]
                                  ELSE f[i]]
  <2>3. \A i \in 0..(m - 1) :
          f[i] = IF i = 0 THEN <<>>
                 ELSE IF list[i] \in kept THEN Append(f[i - 1], list[i]) ELSE f[i - 1]
    BY <2>2 DEF Filters
  <2>4. \A i \in 0..m : i # m => i \in 0..(m - 1)
    BY <2>1
  <2>5. \A i \in 0..m : i # 0 => i - 1 \in 0..m /\ i - 1 # m
    BY <2>1
  <2>6. \A i \in 0..m : g[i] = IF i = 0 THEN <<>>
                               ELSE IF list[i] \in kept THEN Append(g[i - 1], list[i]) ELSE g[i - 1]
    <3> SUFFICES ASSUME NEW i \in 0..m
                 PROVE  g[i] = IF i = 0 THEN <<>>
                               ELSE IF list[i] \in kept THEN Append(g[i - 1], list[i]) ELSE g[i - 1]
      OBVIOUS
    <3>1. i # 0 => g[i - 1] = f[i - 1]
      BY <2>5
    <3>2. CASE i = m
      BY <1>2, <3>1, <3>2
    <3>3. CASE i # m
      BY <2>3, <2>4, <3>1, <3>3
    <3> QED
      BY <3>2, <3>3
  <2>7. Filters(g, list, kept, m)
    BY <2>6 DEF Filters
  <2> QED
    BY <2>7
<1> QED
  BY <1>1, <1>2

LEMMA SelectedFilters ==
    ASSUME NEW S, NEW list \in Seq(S), NEW kept
    PROVE  \E f : Filters(f, list, kept, Len(list)) /\ Selected(list, kept) = f[Len(list)]
<1> DEFINE F == CHOOSE f : f = [i \in 0..Len(list) |->
                  IF i = 0 THEN <<>>
                  ELSE IF list[i] \in kept THEN Append(f[i - 1], list[i]) ELSE f[i - 1]]
<1>1. Len(list) \in Nat
  BY LenProperties
<1>2. \E f : Filters(f, list, kept, Len(list))
  BY <1>1, FilterExists
<1>3. Filters(F, list, kept, Len(list))
  BY <1>2, Zenon DEF Filters
<1>4. Selected(list, kept) = F[Len(list)]
  BY Zenon DEF Selected
<1> QED
  BY <1>3, <1>4

\* s is the rows of the list's first n that are kept, and at tells where each was.
Picks(s, at, list, kept, n) ==
    /\ at \in [1..Len(s) -> 1..n]
    /\ \A i, j \in 1..Len(s) : i < j => at[i] < at[j]
    /\ \A i \in 1..Len(s) : s[i] = list[at[i]] /\ list[at[i]] \in kept
    /\ \A k \in 1..n : list[k] \in kept => \E i \in 1..Len(s) : at[i] = k

\* One row more.
LEMMA PicksStep ==
    ASSUME NEW S, NEW list \in Seq(S), NEW kept, NEW n \in 1..Len(list),
           NEW s \in Seq(S), NEW at, Picks(s, at, list, kept, n - 1),
           NEW t, t = IF list[n] \in kept THEN Append(s, list[n]) ELSE s
    PROVE  t \in Seq(S) /\ \E b : Picks(t, b, list, kept, n)
<1>1. /\ Len(list) \in Nat /\ list[n] \in S /\ Len(s) \in Nat /\ DOMAIN list = 1..Len(list)
  BY LenProperties, ElementOfSeq
<1>2. n \in Nat /\ n - 1 \in Nat /\ n >= 1
  BY <1>1
<1>3. CASE list[n] \notin kept
  <2>1. t = s
    BY <1>3
  <2>2. at \in [1..Len(s) -> 1..n]
    BY <1>2 DEF Picks
  <2>3. \A k \in 1..n : list[k] \in kept => \E i \in 1..Len(s) : at[i] = k
    <3> SUFFICES ASSUME NEW k \in 1..n, list[k] \in kept PROVE \E i \in 1..Len(s) : at[i] = k
      OBVIOUS
    <3>1. k # n
      BY <1>3
    <3>2. k \in 1..(n - 1)
      BY <1>2, <3>1
    <3> QED
      BY <3>2 DEF Picks
  <2>4. Picks(t, at, list, kept, n)
    BY <2>1, <2>2, <2>3 DEF Picks
  <2> QED
    BY <2>1, <2>4
<1>4. CASE list[n] \in kept
  <2> DEFINE m == Len(s) + 1
             b == [i \in 1..m |-> IF i = m THEN n ELSE at[i]]
  <2>1. /\ t \in Seq(S) /\ Len(t) = m /\ t[m] = list[n]
        /\ \A i \in 1..Len(s) : t[i] = s[i]
    BY <1>1, <1>4, AppendProperties
  <2>2. \A i \in 1..m : i # m => i \in 1..Len(s)
    BY <1>1
  <2>3. \A i \in 1..Len(s) : i \in 1..m /\ i # m /\ b[i] = at[i] /\ at[i] \in 1..(n - 1)
    BY <1>1 DEF Picks
  <2>4. m \in 1..m /\ b[m] = n
    BY <1>1
  <2> HIDE DEF b
  <2>5. b \in [1..m -> 1..n]
    <3>1. \A i \in 1..m : b[i] \in 1..n
      BY <1>2, <2>2, <2>3, <2>4
    <3> QED
      BY <3>1 DEF b
  <2>6. \A i, j \in 1..m : i < j => b[i] < b[j]
    <3> SUFFICES ASSUME NEW i \in 1..m, NEW j \in 1..m, i < j PROVE b[i] < b[j]
      OBVIOUS
    <3>1. i # m
      BY <1>1
    <3>2. i \in 1..Len(s) /\ b[i] = at[i] /\ at[i] \in 1..(n - 1)
      BY <2>2, <2>3, <3>1
    <3>3. CASE j = m
      BY <1>2, <2>4, <3>2, <3>3
    <3>4. CASE j # m
      <4>1. j \in 1..Len(s) /\ b[j] = at[j]
        BY <2>2, <2>3, <3>4
      <4> QED
        BY <3>2, <4>1 DEF Picks
    <3> QED
      BY <3>3, <3>4
  <2>7. \A i \in 1..m : t[i] = list[b[i]] /\ list[b[i]] \in kept
    BY <1>4, <2>1, <2>2, <2>3, <2>4 DEF Picks
  <2>8. \A k \in 1..n : list[k] \in kept => \E i \in 1..m : b[i] = k
    <3> SUFFICES ASSUME NEW k \in 1..n, list[k] \in kept, k # n PROVE \E i \in 1..m : b[i] = k
      BY <2>4
    <3>1. k \in 1..(n - 1)
      BY <1>2
    <3>2. PICK i \in 1..Len(s) : at[i] = k
      BY <3>1 DEF Picks
    <3> QED
      BY <2>3, <3>2
  <2>9. Picks(t, b, list, kept, n)
    BY <2>1, <2>5, <2>6, <2>7, <2>8 DEF Picks
  <2> QED
    BY <2>1, <2>9
<1> QED
  BY <1>3, <1>4

\* A filter selects the rows that are kept, each where it was, in their order.
LEMMA SelectedIs ==
    ASSUME NEW S, NEW list \in Seq(S), NEW kept
    PROVE  /\ Selected(list, kept) \in Seq(S)
           /\ \E at : Picks(Selected(list, kept), at, list, kept, Len(list))
<1>1. PICK f : Filters(f, list, kept, Len(list)) /\ Selected(list, kept) = f[Len(list)]
  BY SelectedFilters
<1>2. Len(list) \in Nat
  BY LenProperties
<1> DEFINE Done(n) == f[n] \in Seq(S) /\ \E at : Picks(f[n], at, list, kept, n)
           T == {n \in 0..Len(list) : ~Done(n)}
<1>3. \A i \in 0..Len(list) :
        f[i] = IF i = 0 THEN <<>>
               ELSE IF list[i] \in kept THEN Append(f[i - 1], list[i]) ELSE f[i - 1]
  BY <1>1 DEF Filters
<1>4. Done(0)
  <2>1. f[0] = <<>> /\ Len(<<>>) = 0
    BY <1>2, <1>3
  <2>2. f[0] \in Seq(S) /\ Len(f[0]) = 0
    BY <2>1, EmptySeq
  <2> DEFINE e == [i \in 1..0 |-> i]
  <2>3. \A i \in 1..0 : FALSE
    OBVIOUS
  <2>4. Picks(f[0], e, list, kept, 0)
    BY <2>2, <2>3 DEF Picks
  <2> QED
    BY <2>2, <2>4
<1>5. ASSUME NEW n \in 0..Len(list), n # 0, Done(n - 1) PROVE Done(n)
  <2>1. n \in 1..Len(list) /\ n - 1 \in 0..Len(list)
    BY <1>2, <1>5
  <2>2. PICK at : Picks(f[n - 1], at, list, kept, n - 1)
    BY <1>5
  <2>3. f[n] = IF list[n] \in kept THEN Append(f[n - 1], list[n]) ELSE f[n - 1]
    BY <1>3, <1>5
  <2> QED
    BY <1>5, <2>1, <2>2, <2>3, PicksStep
<1> HIDE DEF Done
<1>6. T = {}
  <2> SUFFICES ASSUME T # {} PROVE FALSE
    OBVIOUS
  <2>1. T \in SUBSET Nat
    OBVIOUS
  <2>2. PICK n \in T : \A m \in T : n <= m
    BY <2>1, Least
  <2>3. n # 0 /\ n \in 0..Len(list) /\ ~Done(n)
    BY <1>4, <2>2
  <2>4. n - 1 \in 0..Len(list) /\ ~(n <= n - 1)
    BY <1>2, <2>3
  <2>5. Done(n - 1)
    BY <2>2, <2>4
  <2> QED
    BY <1>5, <2>3, <2>5
<1>7. Len(list) \in 0..Len(list)
  BY <1>2
<1>8. Done(Len(list))
  BY <1>6, <1>7
<1> QED
  BY <1>1, <1>8 DEF Done

\* No row of the list comes twice, and they come by their numbers.
Ascending(list) == \A i, j \in DOMAIN list : i < j => list[i].event.at < list[j].event.at

\* So a filter of a log is one.
LEMMA SelectedRows ==
    ASSUME NEW S, NEW list \in Seq(S), NEW kept
    PROVE  /\ Selected(list, kept) \in Seq(S)
           /\ ToSet(Selected(list, kept)) = ToSet(list) \cap kept
           /\ Ascending(list) => Ascending(Selected(list, kept))
<1> DEFINE s == Selected(list, kept)
<1>1. s \in Seq(S) /\ \E at : Picks(s, at, list, kept, Len(list))
  BY SelectedIs
<1> HIDE DEF s
<1>2. PICK at : Picks(s, at, list, kept, Len(list))
  BY <1>1
<1>3. DOMAIN list = 1..Len(list) /\ DOMAIN s = 1..Len(s)
  BY <1>1, LenProperties
<1>4. \A i \in DOMAIN s : at[i] \in DOMAIN list /\ s[i] = list[at[i]] /\ s[i] \in kept
  BY <1>2, <1>3 DEF Picks
<1>5. ToSet(s) \subseteq ToSet(list) \cap kept
  BY <1>4 DEF ToSet
<1>6. ASSUME NEW row \in ToSet(list) \cap kept PROVE row \in ToSet(s)
  <2>1. PICK k \in DOMAIN list : list[k] = row
    BY DEF ToSet
  <2>2. PICK i \in DOMAIN s : at[i] = k
    BY <1>2, <1>3, <2>1 DEF Picks
  <2> QED
    BY <1>4, <2>1, <2>2 DEF ToSet
<1>7. ToSet(s) = ToSet(list) \cap kept
  BY <1>5, <1>6
<1>8. Ascending(list) => Ascending(s)
  BY <1>2, <1>3, <1>4 DEF Ascending, Picks
<1> QED
  BY <1>1, <1>7, <1>8 DEF s

LEMMA ListFinite ==
    ASSUME NEW S, NEW list \in Seq(S)
    PROVE  IsFiniteSet(ToSet(list))
<1> DEFINE f == [i \in 1..Len(list) |-> list[i]]
<1>1. Len(list) \in Nat /\ DOMAIN list = 1..Len(list)
  BY LenProperties
<1>2. IsFiniteSet(1..Len(list))
  BY <1>1, FS_Interval
<1>3. f \in Surjection(1..Len(list), ToSet(list))
  BY <1>1 DEF Surjection, ToSet
<1> QED
  BY <1>2, <1>3, FS_Surjection

-----------------------------------------------------------------------------
\* The stores' rows.

LogInv ==
    /\ LogTypeOK
    /\ \A row \in ToSet(memory) \cup table : row.event.at \in 1..recorded

LEMMA LogInvInit == LogInit => LogInv
<1> SUFFICES ASSUME LogInit PROVE LogInv
  OBVIOUS
<1>1. memory = <<>> /\ table = {} /\ recorded = 0 /\ now = 0
  BY DEF LogInit
<1>2. memory \in Seq(Row) /\ DOMAIN memory = {}
  BY <1>1, EmptySeq
<1>3. recorded \in 0..MaxEvents /\ now \in Times
  BY <1>1, EventLogAssumption DEF Times
<1>4. ToSet(memory) = {}
  BY <1>2 DEF ToSet
<1> QED
  BY <1>1, <1>2, <1>3, <1>4 DEF LogInv, LogTypeOK

\* The row an append adds.
RowOf(u, receivedAt) ==
    [event |-> Event(recorded + 1, u.status, u.reason, u.deviceId, u.msg),
     receivedAt |-> receivedAt, createdAt |-> now]

LEMMA RowTyped ==
    ASSUME LogInv, NEW u \in Uplinks, NEW receivedAt \in Times, recorded < MaxEvents
    PROVE  RowOf(u, receivedAt) \in Row /\ RowOf(u, receivedAt).event.at = recorded + 1
<1>1. /\ u.status \in {"accepted", "rejected"} /\ u.reason \in Reasons
      /\ u.deviceId \in DeviceIds /\ u.msg \in Payloads
  BY EventLogAssumption
<1>2. recorded + 1 \in 1..MaxEvents /\ now \in Times
  BY EventLogAssumption DEF LogInv, LogTypeOK
<1> QED
  BY <1>1, <1>2 DEF RowOf, Row, Event

\* What the stores keep of the rows they have after an append.
LEMMA PrunedMemoryKeeps ==
    ASSUME NEW S, NEW list \in Seq(S)
    PROVE  /\ PrunedMemory(list) \in Seq(S)
           /\ ToSet(PrunedMemory(list)) \subseteq ToSet(list)
           /\ \A row \in ToSet(list) \ ToSet(PrunedMemory(list)) : IsChat(row) /\ Old(row)
           /\ Ascending(list) => Ascending(PrunedMemory(list))
           /\ \/ PrunedMemory(list) = list /\ Cardinality(ChatIn(ToSet(list))) <= ChatSoftLimit
              \/ \A row \in ChatIn(ToSet(PrunedMemory(list))) : ~Old(row)
<1> DEFINE kept == Kept(ToSet(list))
<1>1. /\ Selected(list, kept) \in Seq(S)
      /\ ToSet(Selected(list, kept)) = ToSet(list) \cap kept
      /\ Ascending(list) => Ascending(Selected(list, kept))
  BY SelectedRows
<1>2. \A row : row \in kept <=> row \in ToSet(list) /\ (~IsChat(row) \/ ~Old(row))
  BY DEF Kept
<1> HIDE DEF kept
<1>3. CASE Cardinality(ChatIn(ToSet(list))) <= ChatSoftLimit
  BY <1>3 DEF PrunedMemory
<1>4. CASE ~(Cardinality(ChatIn(ToSet(list))) <= ChatSoftLimit)
  <2>1. PrunedMemory(list) = Selected(list, kept)
    BY <1>4 DEF PrunedMemory, kept
  <2> QED
    BY <1>1, <1>2, <2>1 DEF ChatIn
<1> QED
  BY <1>3, <1>4

LEMMA PrunedTableKeeps ==
    ASSUME NEW rows
    PROVE  /\ PrunedTable(rows) \subseteq rows
           /\ \A row \in rows \ PrunedTable(rows) : IsChat(row) /\ Old(row)
           /\ \/ PrunedTable(rows) = rows /\ Cardinality(ChatIn(rows)) <= ChatSoftLimit
              \/ \A row \in ChatIn(PrunedTable(rows)) : ~Old(row)
BY DEF PrunedTable, Kept, ChatIn

LEMMA Appended ==
    ASSUME LogInv, NEW u \in Uplinks, NEW receivedAt \in Times, AppendRow(u, receivedAt)
    PROVE  LET row == RowOf(u, receivedAt)
               list == Append(memory, row)
           IN /\ recorded < MaxEvents /\ recorded' = recorded + 1 /\ now' = now
              /\ memory' = PrunedMemory(list)
              /\ table' = IF IsChat(row) THEN PrunedTable(table \cup {row}) ELSE table \cup {row}
              /\ row \in Row /\ row.event.at = recorded + 1
              /\ list \in Seq(Row) /\ ToSet(list) = ToSet(memory) \cup {row}
              /\ Ascending(list)
<1> DEFINE row == RowOf(u, receivedAt)
           list == Append(memory, row)
<1>1. /\ recorded < MaxEvents /\ recorded' = recorded + 1 /\ now' = now
      /\ memory' = PrunedMemory(list)
      /\ table' = IF IsChat(row) THEN PrunedTable(table \cup {row}) ELSE table \cup {row}
  BY DEF AppendRow, RowOf
<1>2. row \in Row /\ row.event.at = recorded + 1
  BY <1>1, RowTyped
<1> HIDE DEF row
<1>3. memory \in Seq(Row)
  BY DEF LogInv, LogTypeOK
<1>4. /\ list \in Seq(Row) /\ Len(list) = Len(memory) + 1 /\ Len(memory) \in Nat
      /\ \A i \in 1..Len(memory) : list[i] = memory[i]
      /\ list[Len(memory) + 1] = row
  BY <1>2, <1>3, AppendProperties, LenProperties
<1>5. DOMAIN memory = 1..Len(memory) /\ DOMAIN list = 1..(Len(memory) + 1)
  BY <1>3, <1>4, LenProperties
<1> HIDE DEF list
<1>6. ToSet(list) = ToSet(memory) \cup {row}
  <2>1. \A i \in DOMAIN list : list[i] = row \/ (i \in DOMAIN memory /\ list[i] = memory[i])
    BY <1>4, <1>5
  <2>2. \A i \in DOMAIN memory : i \in DOMAIN list /\ list[i] = memory[i]
    BY <1>4, <1>5
  <2>3. Len(memory) + 1 \in DOMAIN list
    BY <1>4, <1>5
  <2> QED
    BY <1>4, <2>1, <2>2, <2>3 DEF ToSet
<1>7. Ascending(list)
  <2> SUFFICES ASSUME NEW i \in DOMAIN list, NEW j \in DOMAIN list, i < j
               PROVE  list[i].event.at < list[j].event.at
    BY DEF Ascending
  <2>1. i \in DOMAIN memory /\ list[i] = memory[i]
    BY <1>4, <1>5
  <2>2. memory[i].event.at \in 1..recorded
    BY <2>1 DEF LogInv, ToSet
  <2>3. CASE j \in DOMAIN memory
    <3>1. list[j] = memory[j]
      BY <1>4, <1>5, <2>3
    <3> QED
      BY <2>1, <2>3, <3>1 DEF LogInv, LogTypeOK
  <2>4. CASE j \notin DOMAIN memory
    <3>1. list[j] = row
      BY <1>4, <1>5, <2>4
    <3> QED
      BY <1>2, <2>1, <2>2, <3>1 DEF LogInv, LogTypeOK
  <2> QED
    BY <2>3, <2>4
<1> QED
  BY <1>1, <1>2, <1>4, <1>6, <1>7 DEF list, row

LEMMA LogInvStep == LogInv /\ [LogNext]_logVars => LogInv'
<1> SUFFICES ASSUME LogInv, [LogNext]_logVars PROVE LogInv'
  OBVIOUS
<1>1. CASE UNCHANGED logVars
  BY <1>1 DEF logVars, LogInv, LogTypeOK, ToSet
<1>2. CASE ClockTicks
  <2>1. now' \in Times /\ UNCHANGED <<memory, table, recorded>>
    BY <1>2, EventLogAssumption DEF ClockTicks, Times, LogInv, LogTypeOK
  <2> QED
    BY <2>1 DEF LogInv, LogTypeOK, ToSet
<1>3. ASSUME NEW u \in Uplinks, NEW receivedAt \in Times, AppendRow(u, receivedAt)
      PROVE  LogInv'
  <2>1. PICK row \in Row, list \in Seq(Row) :
          /\ recorded < MaxEvents /\ recorded' = recorded + 1 /\ now' = now
          /\ memory' = PrunedMemory(list)
          /\ table' = IF IsChat(row) THEN PrunedTable(table \cup {row}) ELSE table \cup {row}
          /\ row.event.at = recorded + 1 /\ ToSet(list) = ToSet(memory) \cup {row}
          /\ Ascending(list)
    BY <1>3, Appended
  <2>2. /\ memory' \in Seq(Row) /\ Ascending(memory')
        /\ ToSet(memory') \subseteq ToSet(memory) \cup {row}
    BY <2>1, PrunedMemoryKeeps
  <2>3. table' \subseteq table \cup {row}
    BY <2>1, PrunedTableKeeps
  <2>4. recorded \in Nat /\ recorded' \in 0..MaxEvents /\ 1..recorded \subseteq 1..recorded'
    BY <2>1, EventLogAssumption DEF LogInv, LogTypeOK
  <2>5. \A r \in ToSet(memory) \cup table : r.event.at \in 1..recorded
    BY DEF LogInv
  <2>6. \A r \in ToSet(memory') \cup table' : r.event.at \in 1..recorded'
    <3> SUFFICES ASSUME NEW r \in ToSet(memory') \cup table' PROVE r.event.at \in 1..recorded'
      OBVIOUS
    <3>1. CASE r = row
      BY <2>1, <2>4, <3>1
    <3>2. CASE r # row
      <4>1. r \in ToSet(memory) \cup table
        BY <2>2, <2>3, <3>2
      <4> QED
        BY <2>4, <2>5, <4>1
    <3> QED
      BY <3>1, <3>2
  <2>7. \A r1, r2 \in table' : r1.event.at = r2.event.at => r1 = r2
    <3>1. \A r \in table : r.event.at # row.event.at
      BY <2>1, <2>4, <2>5
    <3>2. \A r \in table' : r = row \/ r \in table
      BY <2>3
    <3> QED
      BY <3>1, <3>2 DEF LogInv, LogTypeOK
  <2>8. table' \subseteq Row /\ now' \in Times
    BY <2>1, <2>3 DEF LogInv, LogTypeOK
  <2> QED
    BY <2>2, <2>4, <2>6, <2>7, <2>8 DEF LogInv, LogTypeOK, Ascending, ToSet
<1> QED
  BY <1>1, <1>2, <1>3 DEF LogNext

LEMMA LogInvAlways == LogSpec => []LogInv
BY LogInvInit, LogInvStep, PTL DEF LogSpec

\* The rows of both stores are what appendEvent makes, one for an event, and
\* MemoryStore's in the order they came.
THEOREM LogTypeCorrect == LogSpec => []LogTypeOK
<1>1. LogInv => LogTypeOK
  BY DEF LogInv
<1> QED
  BY <1>1, LogInvAlways, PTL

\* Once old, a row stays old.
LEMMA OldStaysOld ==
    ASSUME LogInv, NEW row \in Row, Old(row), now' \in Times, now <= now'
    PROVE  Old(row)'
<1>1. row.receivedAt \in Nat /\ now \in Nat /\ now' \in Nat
  BY EventLogAssumption DEF Row, Times, LogInv, LogTypeOK
<1> QED
  BY <1>1, EventLogAssumption DEF Old

\* However differently the stores prune, they part only in messages past their
\* retention.
THEOREM StoresPartInOldChat == LogSpec => []StoresDifferInOldChatOnly
<1>1. LogInit => StoresDifferInOldChatOnly
  BY EmptySeq DEF LogInit, StoresDifferInOldChatOnly, ToSet
<1>2. LogInv /\ StoresDifferInOldChatOnly /\ [LogNext]_logVars => StoresDifferInOldChatOnly'
  <2> SUFFICES ASSUME LogInv, StoresDifferInOldChatOnly, [LogNext]_logVars
               PROVE  StoresDifferInOldChatOnly'
    OBVIOUS
  <2>1. /\ \A row \in ToSet(memory) \cup table : row \in Row
        /\ now \in Int
    BY EventLogAssumption DEF LogInv, LogTypeOK, ToSet, Times
  <2>2. CASE UNCHANGED logVars
    BY <2>2 DEF logVars, StoresDifferInOldChatOnly, Old, ToSet
  <2>3. CASE ClockTicks
    <3>1. UNCHANGED <<memory, table>> /\ now <= now' /\ now' \in Times
      BY <2>1, <2>3, LogInvStep DEF ClockTicks, LogNext, LogInv, LogTypeOK
    <3>2. \A row \in Row : Old(row) => Old(row)'
      BY <3>1, OldStaysOld
    <3> QED
      BY <2>1, <3>1, <3>2 DEF StoresDifferInOldChatOnly, ToSet
  <2>4. ASSUME NEW u \in Uplinks, NEW receivedAt \in Times, AppendRow(u, receivedAt)
        PROVE  StoresDifferInOldChatOnly'
    <3>1. PICK row \in Row, list \in Seq(Row) :
            /\ now' = now /\ memory' = PrunedMemory(list)
            /\ table' = IF IsChat(row) THEN PrunedTable(table \cup {row}) ELSE table \cup {row}
            /\ ToSet(list) = ToSet(memory) \cup {row}
      BY <2>4, Appended
    <3>2. /\ ToSet(memory') \subseteq ToSet(memory) \cup {row}
          /\ \A r \in (ToSet(memory) \cup {row}) \ ToSet(memory') : IsChat(r) /\ Old(r)
      BY <3>1, PrunedMemoryKeeps
    <3>3. /\ table' \subseteq table \cup {row}
          /\ \A r \in (table \cup {row}) \ table' : IsChat(r) /\ Old(r)
      BY <3>1, PrunedTableKeeps
    <3>4. \A r : Old(r)' <=> Old(r)
      BY <3>1 DEF Old
    <3>5. \A r \in (ToSet(memory') \ table') \cup (table' \ ToSet(memory')) : IsChat(r) /\ Old(r)
      BY <3>2, <3>3 DEF StoresDifferInOldChatOnly
    <3> QED
      BY <3>4, <3>5 DEF StoresDifferInOldChatOnly, ToSet
  <2> QED
    BY <2>2, <2>3, <2>4 DEF LogNext
<1> QED
  BY <1>1, <1>2, LogInvAlways, PTL DEF LogSpec

\* Messages leave after their retention only, and an append that finds a log
\* above the soft limit leaves no older one behind.
THEOREM MessagesAreKept == LogSpec => RetentionHolds
<1>1. LogInv /\ TableInv /\ [LogNext]_logVars =>
       [/\ \A row \in (ToSet(memory) \ ToSet(memory')) \cup (table \ table') : Old(row)
        /\ (memory' # memory /\ Cardinality(ChatIn(ToSet(memory'))) > ChatSoftLimit) =>
              \A row \in ChatIn(ToSet(memory')) : ~Old(row)
        /\ (Cardinality(ChatIn(table')) > ChatSoftLimit /\ ChatIn(table') # ChatIn(table)) =>
              \A row \in ChatIn(table') : ~Old(row)]_logVars
  <2> SUFFICES ASSUME LogInv, TableInv, LogNext
               PROVE  /\ \A row \in (ToSet(memory) \ ToSet(memory')) \cup (table \ table') : Old(row)
                      /\ (memory' # memory /\ Cardinality(ChatIn(ToSet(memory'))) > ChatSoftLimit) =>
                            \A row \in ChatIn(ToSet(memory')) : ~Old(row)
                      /\ (Cardinality(ChatIn(table')) > ChatSoftLimit /\ ChatIn(table') # ChatIn(table)) =>
                            \A row \in ChatIn(table') : ~Old(row)
    OBVIOUS
  <2>1. CASE ClockTicks
    BY <2>1 DEF ClockTicks
  <2>2. ASSUME NEW u \in Uplinks, NEW receivedAt \in Times, AppendRow(u, receivedAt)
        PROVE  /\ \A row \in (ToSet(memory) \ ToSet(memory')) \cup (table \ table') : Old(row)
               /\ (memory' # memory /\ Cardinality(ChatIn(ToSet(memory'))) > ChatSoftLimit) =>
                     \A row \in ChatIn(ToSet(memory')) : ~Old(row)
               /\ (Cardinality(ChatIn(table')) > ChatSoftLimit /\ ChatIn(table') # ChatIn(table)) =>
                     \A row \in ChatIn(table') : ~Old(row)
    <3>1. PICK row \in Row, list \in Seq(Row) :
            /\ memory' = PrunedMemory(list)
            /\ table' = IF IsChat(row) THEN PrunedTable(table \cup {row}) ELSE table \cup {row}
            /\ ToSet(list) = ToSet(memory) \cup {row}
      BY <2>2, Appended
    <3>2. /\ \A r \in ToSet(list) \ ToSet(memory') : Old(r)
          /\ \/ memory' = list /\ Cardinality(ChatIn(ToSet(list))) <= ChatSoftLimit
             \/ \A r \in ChatIn(ToSet(memory')) : ~Old(r)
      BY <3>1, PrunedMemoryKeeps
    <3>3. /\ \A r \in table \ table' : Old(r)
          /\ \/ ~IsChat(row) /\ table' = table \cup {row}
             \/ /\ table' = table \cup {row}
                /\ Cardinality(ChatIn(table \cup {row})) <= ChatSoftLimit
             \/ \A r \in ChatIn(table') : ~Old(r)
      BY <3>1, PrunedTableKeeps
    <3>4. ~IsChat(row) => ChatIn(table \cup {row}) = ChatIn(table)
      BY DEF ChatIn
    <3>5. /\ Cardinality(ChatIn(ToSet(list))) \in Nat
          /\ Cardinality(ChatIn(table \cup {row})) \in Nat
      <4>1. IsFiniteSet(ToSet(list)) /\ IsFiniteSet(table \cup {row})
        BY ListFinite, FS_AddElement DEF TableInv
      <4>2. IsFiniteSet(ChatIn(ToSet(list))) /\ IsFiniteSet(ChatIn(table \cup {row}))
        BY <4>1, FS_Subset DEF ChatIn
      <4> QED
        BY <4>2, FS_CardinalityType
    <3>6. \A n \in Nat : ~(n > ChatSoftLimit /\ n <= ChatSoftLimit)
      BY EventLogAssumption
    <3>7. \A r \in (ToSet(memory) \ ToSet(memory')) \cup (table \ table') : Old(r)
      BY <3>1, <3>2, <3>3
    <3>8. Cardinality(ChatIn(ToSet(memory'))) > ChatSoftLimit =>
            \A r \in ChatIn(ToSet(memory')) : ~Old(r)
      BY <3>2, <3>5, <3>6
    <3>9. (Cardinality(ChatIn(table')) > ChatSoftLimit /\ ChatIn(table') # ChatIn(table)) =>
            \A r \in ChatIn(table') : ~Old(r)
      BY <3>3, <3>4, <3>5, <3>6
    <3> QED
      BY <3>7, <3>8, <3>9
  <2> QED
    BY <2>1, <2>2 DEF LogNext
<1> QED
  BY <1>1, LogInvAlways, TableInvInit, TableStep, PTL DEF LogSpec, RetentionHolds

-----------------------------------------------------------------------------
\* MemoryStore's list, seen as a table.

LEMMA SameMemoryCount == \A S : MemoryTable!Cardinality(S) = Cardinality(S)
BY Zenon DEF Cardinality, MemoryTable!Cardinality

\* Every row of an ascending list has an event of its own.
LEMMA AscendingOnce ==
    ASSUME NEW list \in Seq(Row), Ascending(list)
    PROVE  OneRowEach(ToSet(list))
<1> SUFFICES ASSUME NEW i \in DOMAIN list, NEW j \in DOMAIN list, list[i].event = list[j].event
             PROVE  list[i] = list[j]
  BY DEF OneRowEach, ToSet
<1>1. DOMAIN list = 1..Len(list) /\ Len(list) \in Nat
  BY LenProperties
<1>2. list[i] \in Row /\ list[j] \in Row
  BY ElementOfSeq, <1>1
<1>3. list[i].event.at \in Nat /\ list[j].event.at = list[i].event.at
  BY <1>2, EventLogAssumption DEF Row
<1>4. ~(i < j) /\ ~(j < i)
  BY <1>3 DEF Ascending
<1> QED
  BY <1>1, <1>4

\* What the list lets go, seen as events, is what a pruning may let go.
LEMMA MemoryPruningImplemented ==
    ASSUME NEW list \in Seq(Row), Ascending(list)
    PROVE  EventsOf(ToSet(PrunedMemory(list))) \in MemoryTable!Prunings(EventsOf(ToSet(list)))
<1> DEFINE rows == ToSet(list)
           log == EventsOf(rows)
           chat == {e \in log : e.msg.op = "MESSAGE"}
           left == ToSet(PrunedMemory(list))
           gone == rows \ left
<1>1. OneRowEach(rows) /\ IsFiniteSet(rows)
  BY AscendingOnce, ListFinite
<1>2. Cardinality(chat) = Cardinality(ChatIn(rows))
  BY <1>1, ChatCount
<1>3. /\ left \subseteq rows /\ \A row \in gone : IsChat(row)
      /\ Cardinality(ChatIn(rows)) <= ChatSoftLimit => left = rows
  BY PrunedMemoryKeeps DEF PrunedMemory
<1> HIDE DEF rows, left
<1>4. EventsOf(gone) \in SUBSET chat
  BY <1>3 DEF EventsOf, IsChat
<1>5. CASE Cardinality(chat) <= ChatSoftLimit
  BY <1>2, <1>3, <1>5, SameMemoryCount DEF MemoryTable!Prunings, left, rows
<1>6. CASE ~(Cardinality(chat) <= ChatSoftLimit)
  <2>1. EventsOf(left) = log \ EventsOf(gone)
    BY <1>1, <1>3 DEF EventsOf, OneRowEach
  <2>2. ASSUME NEW old \in SUBSET chat PROVE log \ old \in MemoryTable!Prunings(log)
    BY <1>6, SameMemoryCount DEF MemoryTable!Prunings
  <2> HIDE DEF chat, gone, log
  <2>3. log \ EventsOf(gone) \in MemoryTable!Prunings(log)
    BY <1>4, <2>2
  <2> QED
    BY <2>1, <2>3 DEF log, left, rows
<1> QED
  BY <1>5, <1>6

\* Every step appends an event or leaves the list alone.
LEMMA MemoryTableStep ==
    LogInv /\ [LogNext]_logVars => [MemoryTable!TableNext]_MemoryTable!tableVars
<1> SUFFICES ASSUME LogInv, [LogNext]_logVars
             PROVE  [MemoryTable!TableNext]_MemoryTable!tableVars
  OBVIOUS
<1>1. CASE UNCHANGED <<memory, recorded>>
  BY <1>1 DEF MemoryTable!tableVars, ToSet
<1>2. ASSUME NEW u \in Uplinks, NEW receivedAt \in Times, AppendRow(u, receivedAt)
      PROVE  MemoryTable!TableNext
  <2>1. PICK row \in Row, list \in Seq(Row) :
          /\ recorded < MaxEvents /\ recorded' = recorded + 1
          /\ memory' = PrunedMemory(list)
          /\ row.event = Event(recorded + 1, u.status, u.reason, u.deviceId, u.msg)
          /\ ToSet(list) = ToSet(memory) \cup {row}
          /\ Ascending(list)
    <3>1. RowOf(u, receivedAt).event = Event(recorded + 1, u.status, u.reason, u.deviceId, u.msg)
      BY DEF RowOf
    <3> QED
      BY <1>2, <3>1, Appended
  <2>2. EventsOf(ToSet(list)) = EventsOf(ToSet(memory)) \cup {row.event}
    BY <2>1 DEF EventsOf
  <2>3. EventsOf(ToSet(memory')) \in MemoryTable!Prunings(EventsOf(ToSet(memory)) \cup {row.event})
    BY <2>1, <2>2, MemoryPruningImplemented
  <2>4. EventsOf(ToSet(memory')) = {r.event : r \in ToSet(memory)}'
    BY DEF EventsOf, ToSet
  <2>5. row.event = MemoryTable!Event(recorded', u.status, u.reason, u.deviceId, u.msg)
    BY <2>1 DEF MemoryTable!Event, Event
  <2>6. MemoryTable!AppendEvent(u.status, u.reason, u.deviceId, u.msg)
    BY <2>1, <2>3, <2>4, <2>5 DEF MemoryTable!AppendEvent, EventsOf
  <2>7. u.deviceId \in DeviceIds /\ u.msg \in Payloads
    BY EventLogAssumption
  <2>8. <<u.status, u.reason>> \in MemoryTable!Outcomes
    <3>1. /\ u.status \in {"accepted", "rejected"} /\ u.reason \in Reasons
          /\ u.status = "accepted" <=> u.reason = NoError
      BY EventLogAssumption
    <3> QED
      BY <3>1 DEF MemoryTable!Outcomes, MemoryTable!Reasons, MemoryTable!NoError, Reasons, NoError
  <2> QED
    BY <2>6, <2>7, <2>8 DEF MemoryTable!TableNext
<1> QED
  BY <1>1, <1>2 DEF LogNext, ClockTicks, logVars

\* Both stores' logs are the one EventTable promises.
THEOREM BothTablesImplemented == LogSpec => TablesImplemented
<1>1. LogInit => MemoryTable!TableInit
  <2> SUFFICES ASSUME LogInit PROVE MemoryTable!TableInit
    OBVIOUS
  <2>1. ToSet(memory) = {} /\ recorded = 0
    BY EmptySeq DEF LogInit, ToSet
  <2> QED
    BY <2>1 DEF MemoryTable!TableInit
<1>2. LogSpec => MemoryTable!TableSpec
  BY <1>1, LogInvAlways, MemoryTableStep, PTL DEF LogSpec, MemoryTable!TableSpec
<1> QED
  BY <1>2, PostgresTableImplemented DEF TablesImplemented

-----------------------------------------------------------------------------
\* Lists of rows, each once.

Lists(s, rows) ==
    /\ s \in Seq(rows) /\ ToSet(s) = rows
    /\ \A i, j \in DOMAIN s : i # j => s[i] # s[j]

\* A list has as many rows as there are.
LEMMA ListsLength ==
    ASSUME NEW rows, NEW s, Lists(s, rows)
    PROVE  Len(s) = Cardinality(rows)
<1>1. s \in Seq(rows) /\ Len(s) \in Nat /\ DOMAIN s = 1..Len(s)
  BY LenProperties DEF Lists
<1> DEFINE f == [i \in 1..Len(s) |-> s[i]]
<1>2. \A i \in 1..Len(s) : s[i] \in rows
  BY <1>1, ElementOfSeq
<1>3. f \in Bijection(1..Len(s), rows)
  BY <1>1, <1>2 DEF Bijection, Injection, Surjection, IsInjective, Lists, ToSet
<1>4. ExistsBijection(1..Len(s), rows)
  BY <1>3 DEF ExistsBijection
<1> QED
  BY <1>1, <1>4, FS_CountingElements

\* What SetToSeqs gives.
LEMMA SeqsOf ==
    ASSUME NEW rows, IsFiniteSet(rows), NEW s
    PROVE  s \in SetToSeqs(rows) <=> Lists(s, rows)
<1>1. Cardinality(rows) \in Nat
  BY FS_CardinalityType
<1>2. ASSUME s \in SetToSeqs(rows) PROVE Lists(s, rows)
  <2> DEFINE n == Cardinality(rows)
  <2>1. s \in [1..n -> rows] /\ \A i, j \in 1..n : i # j => s[i] # s[j]
    BY <1>2 DEF SetToSeqs
  <2> HIDE DEF n
  <2>2. s \in Injection(1..n, rows)
    BY <2>1 DEF Injection, IsInjective
  <2>3. IsFiniteSet(1..n) /\ Cardinality(1..n) = Cardinality(rows)
    BY <1>1, FS_Interval DEF n
  <2>4. s \in Surjection(1..n, rows)
    BY <2>2, <2>3, FS_Injection
  <2>5. s \in Seq(rows) /\ DOMAIN s = 1..n
    BY <1>1, <2>1 DEF n
  <2> QED
    BY <2>1, <2>4, <2>5 DEF Lists, ToSet, Surjection
<1>3. ASSUME Lists(s, rows) PROVE s \in SetToSeqs(rows)
  <2>1. s \in Seq(rows) /\ DOMAIN s = 1..Len(s) /\ Len(s) = Cardinality(rows)
    BY <1>3, ListsLength, LenProperties DEF Lists
  <2>2. s \in [1..Len(s) -> rows]
    BY <2>1, LenProperties
  <2> QED
    BY <1>3, <2>1, <2>2 DEF SetToSeqs, Lists
<1> QED
  BY <1>2, <1>3

\* The first rows of a list.
LEMMA FirstOfIs ==
    ASSUME NEW S, NEW s \in Seq(S), NEW limit \in Nat,
           NEW n, n = IF limit < Len(s) THEN limit ELSE Len(s)
    PROVE  /\ FirstOf(s, limit) \in Seq(S) /\ Len(FirstOf(s, limit)) = n
           /\ n \in 0..Len(s)
           /\ \A i \in 1..n : FirstOf(s, limit)[i] = s[i]
<1>1. Len(s) \in Nat /\ \A i \in 1..Len(s) : s[i] \in S
  BY LenProperties, ElementOfSeq
<1>2. n \in Nat /\ n <= Len(s)
  BY <1>1
<1>3. \A i \in 1..n : s[i] \in S
  BY <1>1, <1>2
<1>4. FirstOf(s, limit) = SubSeq(s, 1, n)
  BY DEF FirstOf
<1>5. /\ SubSeq(s, 1, n) \in Seq(S)
      /\ Len(SubSeq(s, 1, n)) = IF 1 <= n THEN n - 1 + 1 ELSE 0
      /\ \A i \in 1..(n - 1 + 1) : SubSeq(s, 1, n)[i] = s[1 + i - 1]
  BY <1>2, <1>3, SubSeqProperties
<1> QED
  BY <1>2, <1>4, <1>5

-----------------------------------------------------------------------------
\* The order of the answers.

Descending(list) == \A i, j \in DOMAIN list : i < j => list[j].event.at < list[i].event.at

\* There is one list of the same rows from the newest.
LEMMA DescendingUnique ==
    ASSUME NEW s \in Seq(Row), NEW t \in Seq(Row), Len(s) = Len(t), ToSet(s) = ToSet(t),
           Descending(s), Descending(t)
    PROVE  s = t
<1>1. Len(s) \in Nat /\ DOMAIN s = 1..Len(s) /\ DOMAIN t = 1..Len(s)
  BY LenProperties
<1>2. \A i \in 1..Len(s) : s[i].event.at \in Nat /\ t[i].event.at \in Nat
  <2>1. \A i \in 1..Len(s) : s[i] \in Row /\ t[i] \in Row
    BY <1>1, ElementOfSeq
  <2> QED
    BY <2>1, EventLogAssumption DEF Row
<1> DEFINE T == {i \in 1..Len(s) : s[i] # t[i]}
<1>3. T = {}
  <2> SUFFICES ASSUME T # {} PROVE FALSE
    OBVIOUS
  <2>1. T \in SUBSET Nat
    OBVIOUS
  <2>2. PICK i \in T : \A k \in T : i <= k
    BY <2>1, Least
  <2>3. i \in 1..Len(s) /\ s[i] # t[i] /\ \A k \in 1..Len(s) : k < i => s[k] = t[k]
    BY <1>1, <2>2
  <2>4. PICK j \in 1..Len(s) : t[j] = s[i]
    BY <1>1, <2>3 DEF ToSet
  <2>5. PICK k \in 1..Len(s) : s[k] = t[i]
    BY <1>1, <2>3 DEF ToSet
  <2>6. j # i /\ k # i
    BY <2>3, <2>4, <2>5
  <2>7. ~(j < i)
    <3>1. ASSUME j < i PROVE FALSE
      <4>1. s[j] = s[i]
        BY <2>3, <2>4, <3>1
      <4>2. s[i].event.at < s[j].event.at
        BY <1>1, <2>3, <3>1 DEF Descending
      <4>3. s[i].event.at \in Nat
        BY <1>2, <2>3
      <4> QED
        BY <4>1, <4>2, <4>3
    <3> QED
      BY <3>1
  <2>8. ~(k < i)
    <3>1. ASSUME k < i PROVE FALSE
      <4>1. t[k] = t[i]
        BY <2>3, <2>5, <3>1
      <4>2. t[i].event.at < t[k].event.at
        BY <1>1, <2>3, <3>1 DEF Descending
      <4>3. t[i].event.at \in Nat
        BY <1>2, <2>3
      <4> QED
        BY <4>1, <4>2, <4>3
    <3> QED
      BY <3>1
  <2>9. i < j /\ i < k
    BY <1>1, <2>3, <2>6, <2>7, <2>8
  <2>10. s[i].event.at < t[i].event.at
    BY <1>1, <2>3, <2>4, <2>9 DEF Descending
  <2>11. t[i].event.at < s[i].event.at
    BY <1>1, <2>3, <2>5, <2>9 DEF Descending
  <2> QED
    BY <1>2, <2>3, <2>10, <2>11
<1> QED
  BY <1>1, <1>3

LEMMA Reversed ==
    ASSUME NEW list \in Seq(Row), Ascending(list)
    PROVE  /\ Reverse(list) \in Seq(Row) /\ Len(Reverse(list)) = Len(list)
           /\ \A i \in 1..Len(list) : Reverse(list)[i] = list[Len(list) - i + 1]
           /\ ToSet(Reverse(list)) = ToSet(list)
           /\ Descending(Reverse(list))
<1> DEFINE n == Len(list)
           r == Reverse(list)
<1>1. n \in Nat /\ DOMAIN list = 1..n /\ \A i \in 1..n : list[i] \in Row
  BY LenProperties, ElementOfSeq
<1>2. \A i \in 1..n : n - i + 1 \in 1..n /\ (n - (n - i + 1)) + 1 = i
  BY <1>1
<1>3. r = [i \in 1..n |-> list[(n - i) + 1]]
  BY DEF Reverse
<1>4. /\ r \in Seq(Row) /\ Len(r) = n /\ DOMAIN r = 1..n
      /\ \A i \in 1..n : r[i] = list[n - i + 1]
  BY <1>1, <1>2, <1>3
<1> HIDE DEF r, n
<1>5. ToSet(r) = ToSet(list)
  <2>1. ToSet(r) \subseteq ToSet(list)
    BY <1>1, <1>2, <1>4 DEF ToSet
  <2>2. \A i \in 1..n : n - i + 1 \in DOMAIN r /\ r[n - i + 1] = list[i]
    BY <1>1, <1>2, <1>4
  <2>3. ToSet(list) \subseteq ToSet(r)
    BY <1>1, <2>2 DEF ToSet
  <2> QED
    BY <2>1, <2>3
<1>6. Descending(r)
  <2> SUFFICES ASSUME NEW i \in 1..n, NEW j \in 1..n, i < j
               PROVE  r[j].event.at < r[i].event.at
    BY <1>4 DEF Descending
  <2>1. n - j + 1 < n - i + 1 /\ n - j + 1 \in DOMAIN list /\ n - i + 1 \in DOMAIN list
    BY <1>1, <1>2
  <2>2. list[n - j + 1].event.at < list[n - i + 1].event.at
    BY <2>1 DEF Ascending
  <2> QED
    BY <1>4, <2>2
<1> QED
  BY <1>4, <1>5, <1>6 DEF r, n

\* slice(-limit), reversed: the newest rows, from the newest.
LEMMA NewestFirst ==
    ASSUME NEW list \in Seq(Row), Ascending(list), NEW limit \in Nat
    PROVE  MemoryList(list, limit) = FirstOf(Reverse(list), limit)
<1> DEFINE n == Len(list)
           m == IF limit < n THEN limit ELSE n
           a == IF limit < n THEN n - limit + 1 ELSE 1
           cut == SubSeq(list, a, n)
<1>1. n \in Nat /\ \A i \in 1..n : list[i] \in Row
  BY LenProperties, ElementOfSeq
<1>2. a \in 1..(n + 1) /\ m \in 0..n /\ n - a + 1 = m
  BY <1>1
<1>3. \A i \in a..n : list[i] \in Row
  BY <1>1, <1>2
<1>4. /\ Len(cut) = IF a <= n THEN n - a + 1 ELSE 0
      /\ \A i \in 1..(n - a + 1) : cut[i] = list[a + i - 1]
  BY <1>1, <1>2, <1>3, SubSeqProperties
<1>5. MemoryList(list, limit) = Reverse(cut)
  BY DEF MemoryList
<1> HIDE DEF a, m, cut
<1>6. Len(cut) = m /\ \A i \in 1..m : cut[(m - i) + 1] = list[n - i + 1]
  <2>1. Len(cut) = m
    BY <1>1, <1>2, <1>4
  <2>2. ASSUME NEW i \in 1..m PROVE cut[(m - i) + 1] = list[n - i + 1]
    <3>1. (m - i) + 1 \in 1..(n - a + 1) /\ a + ((m - i) + 1) - 1 = n - i + 1
      BY <1>1, <1>2
    <3> QED
      BY <1>4, <3>1
  <2> QED
    BY <2>1, <2>2
<1>7. Reverse(cut) = [i \in 1..m |-> list[n - i + 1]]
  BY <1>6 DEF Reverse
<1>8. /\ Reverse(list) \in Seq(Row) /\ Len(Reverse(list)) = n
      /\ \A i \in 1..n : Reverse(list)[i] = list[n - i + 1]
  BY Reversed
<1>9. /\ FirstOf(Reverse(list), limit) \in Seq(Row) /\ Len(FirstOf(Reverse(list), limit)) = m
      /\ \A i \in 1..m : FirstOf(Reverse(list), limit)[i] = Reverse(list)[i]
  BY <1>8, FirstOfIs DEF m
<1>10. \A i \in 1..m : FirstOf(Reverse(list), limit)[i] = list[n - i + 1]
  <2>1. \A i \in 1..m : i \in 1..n
    BY <1>1, <1>2
  <2> QED
    BY <1>8, <1>9, <2>1
<1>11. FirstOf(Reverse(list), limit) = [i \in 1..m |-> FirstOf(Reverse(list), limit)[i]]
  BY <1>9, LenProperties
<1> QED
  BY <1>5, <1>7, <1>10, <1>11

\* r1 was received, or else written, before r2.
Before(r1, r2) ==
    \/ r1.receivedAt < r2.receivedAt
    \/ r1.receivedAt = r2.receivedAt /\ r1.createdAt < r2.createdAt

\* Rows that came in the order of their times have one order in both stores.
LEMMA SameList ==
    ASSUME NEW list \in Seq(Row), Ascending(list), NEW limit \in Nat,
           \A r1, r2 \in ToSet(list) : r1.event.at < r2.event.at => Before(r1, r2)
    PROVE  TableLists(ToSet(list), limit) = {MemoryList(list, limit)}
<1> DEFINE rows == ToSet(list)
           r == Reverse(list)
           Sorted(s) == \A i, j \in DOMAIN s : i < j => NotBefore(s[i], s[j])
<1>1. IsFiniteSet(rows) /\ \A row \in rows : row \in Row
  <2>1. \A i \in DOMAIN list : list[i] \in Row
    BY LenProperties, ElementOfSeq
  <2> QED
    BY <2>1, ListFinite DEF ToSet
<1>2. \A row \in rows : row.event.at \in Nat /\ row.receivedAt \in Nat /\ row.createdAt \in Nat
  BY <1>1, EventLogAssumption DEF Row, Times
<1>3. \A r1, r2 \in rows : r1.event.at = r2.event.at => r1 = r2
  <2> SUFFICES ASSUME NEW i \in DOMAIN list, NEW j \in DOMAIN list,
                      list[i].event.at = list[j].event.at
               PROVE  list[i] = list[j]
    BY DEF ToSet
  <2>1. DOMAIN list = 1..Len(list) /\ Len(list) \in Nat /\ list[i].event.at \in Nat
    BY <1>2, LenProperties DEF ToSet
  <2>2. ~(i < j) /\ ~(j < i)
    BY <2>1 DEF Ascending
  <2> QED
    BY <2>1, <2>2
<1>4. /\ r \in Seq(Row) /\ Len(r) = Len(list) /\ ToSet(r) = rows /\ Descending(r)
      /\ DOMAIN r = 1..Len(r) /\ Len(r) \in Nat
  BY Reversed, LenProperties
<1>5. \A r1, r2 \in rows : Before(r1, r2) => ~NotBefore(r1, r2) /\ NotBefore(r2, r1)
  BY <1>2 DEF Before, NotBefore
<1> HIDE DEF rows, r
<1>6. Lists(r, rows) /\ Sorted(r)
  <2>1. \A i \in 1..Len(r) : r[i] \in rows
    BY <1>4 DEF ToSet
  <2>2. r \in Seq(rows)
    BY <1>4, <2>1, LenProperties
  <2>3. \A i, j \in DOMAIN r : i < j => r[j].event.at < r[i].event.at
    BY <1>4 DEF Descending
  <2>4. \A i, j \in DOMAIN r : i < j => r[i] # r[j]
    <3> SUFFICES ASSUME NEW i \in DOMAIN r, NEW j \in DOMAIN r, i < j, r[i] = r[j] PROVE FALSE
      OBVIOUS
    <3>1. r[i].event.at < r[i].event.at
      BY <2>3
    <3> QED
      BY <1>2, <1>4, <2>1, <3>1
  <2>5. \A i, j \in DOMAIN r : i # j => r[i] # r[j]
    <3> SUFFICES ASSUME NEW i \in DOMAIN r, NEW j \in DOMAIN r, i # j PROVE r[i] # r[j]
      OBVIOUS
    <3>1. i < j \/ j < i
      BY <1>4
    <3> QED
      BY <2>4, <3>1
  <2>6. Sorted(r)
    <3> SUFFICES ASSUME NEW i \in DOMAIN r, NEW j \in DOMAIN r, i < j
                 PROVE  NotBefore(r[i], r[j])
      OBVIOUS
    <3>1. r[i] \in rows /\ r[j] \in rows
      BY <1>4, <2>1
    <3>2. Before(r[j], r[i])
      BY <2>3, <3>1 DEF rows
    <3> QED
      BY <1>5, <3>1, <3>2
  <2> QED
    BY <1>4, <2>2, <2>5, <2>6 DEF Lists
<1>7. ASSUME NEW s, Lists(s, rows), Sorted(s) PROVE s = r
  <2>1. s \in Seq(rows) /\ ToSet(s) = ToSet(r) /\ DOMAIN s = 1..Len(s) /\ Len(s) \in Nat
    BY <1>4, <1>7, LenProperties DEF Lists
  <2>2. \A i \in 1..Len(s) : s[i] \in rows
    BY <2>1, ElementOfSeq
  <2>3. s \in Seq(Row)
    BY <1>1, <2>1, <2>2
  <2>4. Len(s) = Len(r)
    BY <1>6, <1>7, ListsLength
  <2>5. Descending(s)
    <3> SUFFICES ASSUME NEW i \in 1..Len(s), NEW j \in 1..Len(s), i < j
                 PROVE  s[j].event.at < s[i].event.at
      BY <2>1 DEF Descending
    <3>1. s[i] \in rows /\ s[j] \in rows /\ s[i] # s[j]
      BY <1>7, <2>1, <2>2 DEF Lists
    <3>2. s[i].event.at # s[j].event.at
      BY <1>3, <3>1 DEF rows
    <3>3. ~(s[i].event.at < s[j].event.at)
      <4>1. s[i].event.at < s[j].event.at => Before(s[i], s[j])
        BY <3>1 DEF rows
      <4>2. NotBefore(s[i], s[j])
        BY <1>7, <2>1
      <4> QED
        BY <1>5, <3>1, <4>1, <4>2
    <3> QED
      BY <1>2, <3>1, <3>2, <3>3
  <2> QED
    BY <1>4, <2>1, <2>3, <2>4, <2>5, DescendingUnique
<1>8. {s \in SetToSeqs(rows) : Sorted(s)} = {r}
  <2>1. \A s : s \in SetToSeqs(rows) <=> Lists(s, rows)
    BY <1>1, SeqsOf
  <2> HIDE DEF Sorted
  <2> QED
    BY <1>6, <1>7, <2>1
<1>9. TableLists(rows, limit) = {FirstOf(s, limit) : s \in {r}}
  BY <1>8 DEF TableLists
<1>10. MemoryList(list, limit) = FirstOf(r, limit)
  BY NewestFirst DEF r
<1> QED
  BY <1>9, <1>10 DEF rows

\* So the stores answer alike: a row only one of them has is a message, which
\* no list of transactions shows.
LEMMA AnswersAlike ==
    ASSUME LogInv, StoresDifferInOldChatOnly
    PROVE  SameAnswers
<1> SUFFICES ASSUME ReceivedInOrder PROVE SameAnswers
  BY DEF SameAnswers
<1>1. memory \in Seq(Row) /\ Ascending(memory)
  BY DEF LogInv, LogTypeOK, Ascending
<1>2. \A r1, r2 \in ToSet(memory) : r1.event.at < r2.event.at => Before(r1, r2)
  BY DEF ReceivedInOrder, Before
<1>3. ASSUME NEW rows \in SUBSET ToSet(memory), NEW limit \in Nat
      PROVE  TableLists(rows, limit) = {MemoryList(Selected(memory, rows), limit)}
  <2> DEFINE list == Selected(memory, rows)
  <2>1. /\ list \in Seq(Row) /\ ToSet(list) = ToSet(memory) \cap rows
        /\ Ascending(memory) => Ascending(list)
    BY <1>1, SelectedRows
  <2> HIDE DEF list
  <2>2. list \in Seq(Row) /\ ToSet(list) = rows /\ Ascending(list)
    BY <1>1, <2>1
  <2>3. \A r1, r2 \in ToSet(list) : r1.event.at < r2.event.at => Before(r1, r2)
    BY <1>2, <2>2
  <2>4. TableLists(ToSet(list), limit) = {MemoryList(list, limit)}
    BY <2>2, <2>3, SameList
  <2> QED
    BY <2>2, <2>4 DEF list
<1>4. \A limit \in Limits : limit \in Nat /\ Window(limit) \in Nat
  BY EventLogAssumption DEF Limits, Window
<1>5. ASSUME NEW d \in Devices, NEW t \in Ticks \cup {Null}, NEW limit \in Limits
      PROVE  TableLists({row \in table : InHistory(row, d, t)}, limit)
               = {MemoryList(Selected(memory, {row \in ToSet(memory) : InHistory(row, d, t)}), limit)}
  <2> DEFINE wanted == {row \in ToSet(memory) : InHistory(row, d, t)}
  <2>1. {row \in table : InHistory(row, d, t)} = wanted
    BY DEF StoresDifferInOldChatOnly, InHistory
  <2>2. wanted \in SUBSET ToSet(memory)
    OBVIOUS
  <2> HIDE DEF wanted
  <2>3. TableLists(wanted, limit) = {MemoryList(Selected(memory, wanted), limit)}
    BY <1>3, <1>4, <2>2
  <2> QED
    BY <2>1, <2>3 DEF wanted
<1>6. ASSUME table = ToSet(memory), NEW limit \in Limits
      PROVE  TableLists(ChatIn(table), Window(limit))
               = {MemoryList(Selected(memory, ChatIn(ToSet(memory))), Window(limit))}
  <2>1. ChatIn(table) = ChatIn(ToSet(memory)) /\ ChatIn(table) \in SUBSET ToSet(memory)
    BY <1>6 DEF ChatIn
  <2>2. Window(limit) \in Nat
    BY <1>4
  <2> QED
    BY <1>3, <2>1, <2>2
<1> QED
  BY <1>5, <1>6 DEF SameAnswers

\* While events arrive in the order of their times, the two stores answer every
\* list of transactions alike, whatever they have pruned.
THEOREM StoresAnswerAlike == LogSpec => []SameAnswers
BY AnswersAlike, LogInvAlways, StoresPartInOldChat, PTL

-----------------------------------------------------------------------------
\* Lists of messages.

\* The filter of listMessages keeps the conversation.
LEMMA ShownIs ==
    ASSUME NEW rows \in SUBSET Row, NEW d \in Devices, NEW peer \in Devices,
           NEW row \in ChatIn(rows)
    PROVE  Shown(row, d, peer) <=> row \in Conversation(rows, d, peer)
<1> DEFINE from == row.event.deviceId
           to == RecipientOf(row)
<1>1. row \in Row /\ IsChat(row)
  BY DEF ChatIn
<1>2. row.event.deviceId \in DeviceIds /\ row.event.msg \in Payloads
  BY <1>1 DEF Row
<1>3. row.event.msg \in MessagePayload
  BY <1>1, <1>2, ProtocolAssumption
     DEF IsChat, DeployPayload, MintPayload, TransferPayload, MessagePayload, ConfigPayload
<1>4. to \in DeviceIds \cup {PublicChat}
  BY <1>1, <1>3 DEF RecipientOf, IsChat, MessagePayload
<1>5. from \in DeviceIds
  BY <1>2
<1>6. Null \notin DeviceIds /\ Null # PublicChat /\ PublicChat \notin DeviceIds
  BY ProtocolAssumption, EventLogAssumption
<1>7. Shown(row, d, peer) <=>
        /\ row.event.status = "accepted"
        /\ IF peer = Null THEN to = PublicChat
           ELSE d # Null /\ to # PublicChat /\ (from = d \/ to = d) /\ (from = peer \/ to = peer)
  BY DEF Shown
<1>8. row \in Conversation(rows, d, peer) <=>
        /\ row.event.status = "accepted"
        /\ IF peer = Null THEN to = PublicChat
           ELSE to # PublicChat /\ {d, peer} \subseteq {from, to}
  BY DEF Conversation
<1> HIDE DEF from, to
<1>9. ASSUME peer # Null
      PROVE  (d # Null /\ to # PublicChat /\ (from = d \/ to = d) /\ (from = peer \/ to = peer))
               <=> to # PublicChat /\ {d, peer} \subseteq {from, to}
  <2>1. d # PublicChat /\ peer # PublicChat /\ from # Null /\ to # Null
    BY <1>4, <1>5, <1>6, <1>9 DEF Devices
  <2>2. {d, peer} \subseteq {from, to} <=> (from = d \/ to = d) /\ (from = peer \/ to = peer)
    OBVIOUS
  <2> QED
    BY <2>1, <2>2
<1> QED
  BY <1>7, <1>8, <1>9

\* A list in an order, a relation on rows; and one that shows the first of those
\* wanted among the messages on record.
InOrder(s, order) == \A i, j \in DOMAIN s : i < j => <<s[i], s[j]>> \in order

ShowsFirst(list, chat, wanted, order, limit) ==
    /\ ToSet(list) \subseteq wanted
    /\ InOrder(list, order)
    /\ \A shown \in ToSet(list), hidden \in wanted \ ToSet(list) : <<shown, hidden>> \in order
    /\ Len(list) <= limit
    /\ Cardinality(chat) <= Window(limit) =>
         Len(list) = IF limit < Cardinality(wanted) THEN limit ELSE Cardinality(wanted)

\* When the messages on record stand in an order, the list shows the first of
\* the conversation.
LEMMA FirstShown ==
    ASSUME NEW rows \in SUBSET Row, NEW s, Lists(s, ChatIn(rows)),
           NEW order, InOrder(s, order),
           NEW d \in Devices, NEW peer \in Devices,
           NEW limit \in Limits
    PROVE  ShowsFirst(ShownFrom(FirstOf(s, Window(limit)), d, peer, limit),
                      ChatIn(rows), Conversation(rows, d, peer), order, limit)
<1> DEFINE list == ShownFrom(FirstOf(s, Window(limit)), d, peer, limit)
           wanted == Conversation(rows, d, peer)
           chat == ChatIn(rows)
           n == Len(s)
           w == FirstOf(s, Window(limit))
           m == IF Window(limit) < n THEN Window(limit) ELSE n
           kept == {row \in ToSet(w) : Shown(row, d, peer)}
           sel == Selected(w, kept)
           k == IF limit < Len(sel) THEN limit ELSE Len(sel)
<1>1. limit \in Nat /\ Window(limit) \in Nat
  BY EventLogAssumption DEF Limits, Window
<1>2. /\ s \in Seq(chat) /\ ToSet(s) = chat /\ n \in Nat /\ DOMAIN s = 1..n
      /\ \A i \in 1..n : s[i] \in chat
      /\ \A i, j \in 1..n : i # j => s[i] # s[j]
  BY LenProperties, ElementOfSeq DEF Lists
<1>3. /\ w \in Seq(chat) /\ Len(w) = m /\ m \in 0..n /\ \A i \in 1..m : w[i] = s[i]
      /\ DOMAIN w = 1..m
  <2>1. /\ w \in Seq(chat) /\ Len(w) = m /\ m \in 0..n
        /\ \A i \in 1..m : w[i] = s[i]
    <3>1. ASSUME NEW x, x = IF Window(limit) < Len(s) THEN Window(limit) ELSE Len(s)
          PROVE  /\ w \in Seq(chat) /\ Len(w) = x /\ x \in 0..Len(s)
                 /\ \A i \in 1..x : w[i] = s[i]
      BY <1>1, <1>2, <3>1, FirstOfIs
    <3> HIDE DEF w, chat
    <3> QED
      BY <3>1
  <2>2. DOMAIN w = 1..Len(w)
    BY <2>1, LenProperties
  <2> QED
    BY <2>1, <2>2
<1>4. \A row \in chat : Shown(row, d, peer) <=> row \in wanted
  BY ShownIs
<1>5. wanted \subseteq chat
  BY DEF Conversation
<1>6. list = FirstOf(sel, limit)
  BY DEF ShownFrom
<1> HIDE DEF list, wanted, chat, w, m
<1>7. \A row : row \in kept <=> row \in ToSet(w) /\ row \in wanted
  <2>1. \A row \in ToSet(w) : row \in chat
    BY <1>2, <1>3 DEF ToSet
  <2> QED
    BY <1>4, <2>1
<1> HIDE DEF kept
<1>8. sel \in Seq(chat) /\ \E at : Picks(sel, at, w, kept, m)
  BY <1>3, SelectedIs
<1> HIDE DEF sel
<1>9. PICK at : Picks(sel, at, w, kept, m)
  BY <1>8
<1>10. Len(sel) \in Nat /\ DOMAIN sel = 1..Len(sel)
  BY <1>8, LenProperties
<1>11. /\ list \in Seq(chat) /\ Len(list) = k /\ k \in 0..Len(sel) /\ DOMAIN list = 1..k
       /\ \A i \in 1..k : list[i] = sel[i]
  <2>1. /\ list \in Seq(chat) /\ Len(list) = k /\ k \in 0..Len(sel)
        /\ \A i \in 1..k : list[i] = sel[i]
    <3>1. ASSUME NEW x, x = IF limit < Len(sel) THEN limit ELSE Len(sel)
          PROVE  /\ FirstOf(sel, limit) \in Seq(chat) /\ Len(FirstOf(sel, limit)) = x
                 /\ x \in 0..Len(sel) /\ \A i \in 1..x : FirstOf(sel, limit)[i] = sel[i]
      BY <1>1, <1>8, <3>1, FirstOfIs
    <3> QED
      BY <1>6, <3>1
  <2>2. DOMAIN list = 1..Len(list)
    BY <2>1, LenProperties
  <2> QED
    BY <2>1, <2>2
<1>12. \A i \in 1..Len(sel) : at[i] \in 1..m /\ at[i] \in 1..n /\ sel[i] = s[at[i]] /\ sel[i] \in wanted
  <2> SUFFICES ASSUME NEW i \in 1..Len(sel)
               PROVE  at[i] \in 1..m /\ at[i] \in 1..n /\ sel[i] = s[at[i]] /\ sel[i] \in wanted
    OBVIOUS
  <2>1. at[i] \in 1..m /\ sel[i] = w[at[i]] /\ w[at[i]] \in kept
    BY <1>9 DEF Picks
  <2>2. at[i] \in 1..n
    BY <1>2, <1>3, <2>1
  <2> QED
    BY <1>3, <1>7, <2>1, <2>2
<1>13. \A i, j \in 1..Len(sel) : i < j => at[i] < at[j]
  BY <1>9 DEF Picks
<1>14. \A q \in 1..m : s[q] \in wanted => \E i \in 1..Len(sel) : at[i] = q
  <2> SUFFICES ASSUME NEW q \in 1..m, s[q] \in wanted PROVE \E i \in 1..Len(sel) : at[i] = q
    OBVIOUS
  <2>1. w[q] = s[q] /\ w[q] \in ToSet(w)
    BY <1>3 DEF ToSet
  <2>2. w[q] \in kept
    BY <1>7, <2>1
  <2> QED
    BY <1>9, <2>2 DEF Picks
<1>15. \A i \in 1..k : i \in 1..Len(sel)
  BY <1>10, <1>11
<1> HIDE DEF k
<1>16. ToSet(list) \subseteq wanted
  BY <1>11, <1>12, <1>15 DEF ToSet
<1>17. \A i, j \in DOMAIN list : i < j => <<list[i], list[j]>> \in order
  <2> SUFFICES ASSUME NEW i \in 1..k, NEW j \in 1..k, i < j PROVE <<list[i], list[j]>> \in order
    BY <1>11
  <2>1. at[i] < at[j] /\ at[i] \in DOMAIN s /\ at[j] \in DOMAIN s
    BY <1>2, <1>12, <1>13, <1>15
  <2>2. list[i] = s[at[i]] /\ list[j] = s[at[j]]
    BY <1>11, <1>12, <1>15
  <2> QED
    BY <2>1, <2>2 DEF InOrder
<1>18. ASSUME NEW i \in 1..k, NEW hidden \in wanted, hidden \notin ToSet(list)
       PROVE  <<list[i], hidden>> \in order
  <2>1. PICK q \in 1..n : s[q] = hidden
    BY <1>2, <1>5 DEF ToSet
  <2>2. i \in 1..Len(sel) /\ at[i] \in 1..m /\ list[i] = s[at[i]]
    BY <1>11, <1>12, <1>15
  <2>3. ~(q <= at[i])
    <3> SUFFICES ASSUME q <= at[i] PROVE FALSE
      OBVIOUS
    <3>1. q \in 1..m
      BY <1>3, <2>2
    <3>2. PICK j \in 1..Len(sel) : at[j] = q
      BY <1>14, <2>1, <3>1
    <3>3. ~(i < j)
      <4>1. i < j => at[i] < at[j]
        BY <1>13, <2>2
      <4> QED
        BY <1>3, <2>2, <3>2, <4>1
    <3>4. j \in 1..k
      BY <1>10, <1>11, <3>3
    <3>5. list[j] = hidden
      BY <1>11, <1>12, <2>1, <3>2, <3>4
    <3> QED
      BY <1>11, <1>18, <3>4, <3>5 DEF ToSet
  <2>4. at[i] < q /\ at[i] \in DOMAIN s /\ q \in DOMAIN s
    BY <1>2, <1>3, <2>2, <2>3
  <2> QED
    BY <2>1, <2>2, <2>4 DEF InOrder
<1>19. \A shown \in ToSet(list), hidden \in wanted \ ToSet(list) : <<shown, hidden>> \in order
  BY <1>11, <1>18 DEF ToSet
<1>20. Len(list) <= limit
  BY <1>1, <1>10, <1>11 DEF k
<1>21. ASSUME Cardinality(chat) <= Window(limit)
       PROVE  Len(list) = IF limit < Cardinality(wanted) THEN limit ELSE Cardinality(wanted)
  <2>1. n = Cardinality(chat)
    BY ListsLength DEF chat
  <2>2. m = n
    BY <1>1, <1>2, <1>21, <2>1 DEF m
  <2>3. \A i \in 1..Len(sel) : sel[i] \in wanted
    BY <1>12
  <2>4. sel \in Seq(wanted)
    BY <1>8, <2>3, LenProperties
  <2>5. ToSet(sel) = wanted
    <3>1. ASSUME NEW row \in wanted PROVE row \in ToSet(sel)
      <4>1. PICK q \in 1..n : s[q] = row
        BY <1>2, <1>5 DEF ToSet
      <4>2. PICK i \in 1..Len(sel) : at[i] = q
        BY <1>14, <2>2, <4>1
      <4> QED
        BY <1>10, <1>12, <4>1, <4>2 DEF ToSet
    <3> QED
      BY <1>10, <2>3, <3>1 DEF ToSet
  <2>6. \A i, j \in 1..Len(sel) : i # j => sel[i] # sel[j]
    <3> SUFFICES ASSUME NEW i \in 1..Len(sel), NEW j \in 1..Len(sel), i # j PROVE sel[i] # sel[j]
      OBVIOUS
    <3>1. i < j \/ j < i
      BY <1>10
    <3>2. at[i] # at[j]
      <4>1. at[i] \in 1..m /\ at[j] \in 1..m /\ (at[i] < at[j] \/ at[j] < at[i])
        BY <1>12, <1>13, <3>1
      <4> QED
        BY <4>1
    <3> QED
      BY <1>2, <1>12, <3>2
  <2>7. Lists(sel, wanted)
    BY <1>10, <2>4, <2>5, <2>6 DEF Lists
  <2>8. Len(sel) = Cardinality(wanted)
    BY <2>7, ListsLength
  <2> QED
    BY <1>11, <2>8 DEF k
<1> QED
  BY <1>16, <1>17, <1>19, <1>20, <1>21 DEF ShowsFirst, InOrder, list, wanted, chat

\* listMessages over MemoryStore.
LEMMA MemoryConversation ==
    ASSUME LogInv, NEW d \in Devices, NEW peer \in Devices,
           NEW limit \in Limits,
           NEW list, list = ShownFrom(MemoryList(Selected(memory, ChatIn(ToSet(memory))),
                                                 Window(limit)), d, peer, limit),
           NEW wanted, wanted = Conversation(ToSet(memory), d, peer)
    PROVE  /\ ToSet(list) \subseteq wanted
           /\ \A i, j \in DOMAIN list : i < j => list[i].event.at > list[j].event.at
           /\ \A shown \in ToSet(list), hidden \in wanted \ ToSet(list) :
                 shown.event.at > hidden.event.at
           /\ Len(list) <= limit
           /\ Cardinality(ChatIn(ToSet(memory))) <= Window(limit) =>
                Len(list) = IF limit < Cardinality(wanted) THEN limit ELSE Cardinality(wanted)
<1> DEFINE rows == ToSet(memory)
           chat == Selected(memory, ChatIn(rows))
           s == Reverse(chat)
           order == {pair \in Row \X Row : pair[1].event.at > pair[2].event.at}
<1>1. memory \in Seq(Row) /\ Ascending(memory)
  BY DEF LogInv, LogTypeOK, Ascending
<1>2. rows \in SUBSET Row
  <2>1. \A i \in DOMAIN memory : memory[i] \in Row
    BY <1>1, LenProperties, ElementOfSeq
  <2> QED
    BY <2>1 DEF ToSet
<1>3. chat \in Seq(Row) /\ ToSet(chat) = ChatIn(rows) /\ Ascending(chat)
  <2>1. /\ chat \in Seq(Row) /\ ToSet(chat) = ToSet(memory) \cap ChatIn(rows)
        /\ Ascending(memory) => Ascending(chat)
    BY <1>1, SelectedRows
  <2> HIDE DEF chat
  <2>2. ChatIn(rows) \subseteq rows
    BY DEF ChatIn
  <2> QED
    BY <1>1, <2>1, <2>2
<1> HIDE DEF rows, chat
<1>4. s \in Seq(Row) /\ ToSet(s) = ChatIn(rows) /\ Descending(s)
  BY <1>3, Reversed
<1> HIDE DEF s
<1>5. DOMAIN s = 1..Len(s) /\ Len(s) \in Nat /\ \A i \in 1..Len(s) : s[i] \in Row /\ s[i] \in ChatIn(rows)
  BY <1>4, LenProperties, ElementOfSeq DEF ToSet
<1>6. \A row \in Row : row.event.at \in Nat
  BY EventLogAssumption DEF Row
<1>7. \A i, j \in DOMAIN s : i < j => s[j].event.at < s[i].event.at
  BY <1>4 DEF Descending
<1>8. Lists(s, ChatIn(rows))
  <2>1. s \in Seq(ChatIn(rows))
    BY <1>4, <1>5, LenProperties
  <2>2. \A i, j \in DOMAIN s : i < j => s[i] # s[j]
    <3> SUFFICES ASSUME NEW i \in DOMAIN s, NEW j \in DOMAIN s, i < j, s[i] = s[j] PROVE FALSE
      OBVIOUS
    <3>1. s[i].event.at < s[i].event.at /\ s[i] \in Row
      BY <1>5, <1>7
    <3> QED
      BY <1>6, <3>1
  <2>3. \A i, j \in DOMAIN s : i # j => s[i] # s[j]
    <3> SUFFICES ASSUME NEW i \in DOMAIN s, NEW j \in DOMAIN s, i # j PROVE s[i] # s[j]
      OBVIOUS
    <3>1. i < j \/ j < i
      BY <1>5
    <3> QED
      BY <2>2, <3>1
  <2> QED
    BY <1>4, <2>1, <2>3 DEF Lists
<1>9. InOrder(s, order)
  <2> SUFFICES ASSUME NEW i \in DOMAIN s, NEW j \in DOMAIN s, i < j
               PROVE  <<s[i], s[j]>> \in order
    BY DEF InOrder
  <2>1. s[i] \in Row /\ s[j] \in Row /\ s[j].event.at < s[i].event.at
    BY <1>5, <1>7
  <2> QED
    BY <1>6, <2>1
<1>10. list = ShownFrom(FirstOf(s, Window(limit)), d, peer, limit)
  <2>1. Window(limit) \in Nat
    BY EventLogAssumption DEF Limits, Window
  <2>2. MemoryList(chat, Window(limit)) = FirstOf(s, Window(limit))
    BY <1>3, <2>1, NewestFirst DEF s
  <2> QED
    BY <2>2 DEF chat, rows
<1>11. wanted = Conversation(rows, d, peer)
  BY DEF rows
<1>12. \A r1, r2 : <<r1, r2>> \in order => r1.event.at > r2.event.at
  OBVIOUS
<1> HIDE DEF order
<1>13. ShowsFirst(ShownFrom(FirstOf(s, Window(limit)), d, peer, limit),
                  ChatIn(rows), Conversation(rows, d, peer), order, limit)
  BY <1>2, <1>8, <1>9, FirstShown
<1> QED
  BY <1>10, <1>11, <1>12, <1>13 DEF rows, ShowsFirst, InOrder

\* listMessages over PostgresStore, however rows of the same times come.
LEMMA TableConversation ==
    ASSUME LogInv, TableInv, NEW d \in Devices, NEW peer \in Devices,
           NEW limit \in Limits, NEW window \in TableLists(ChatIn(table), Window(limit)),
           NEW list, list = ShownFrom(window, d, peer, limit),
           NEW wanted, wanted = Conversation(table, d, peer)
    PROVE  /\ ToSet(list) \subseteq wanted
           /\ \A i, j \in DOMAIN list : i < j => NotBefore(list[i], list[j])
           /\ \A shown \in ToSet(list), hidden \in wanted \ ToSet(list) : NotBefore(shown, hidden)
           /\ Len(list) <= limit
           /\ Cardinality(ChatIn(table)) <= Window(limit) =>
                Len(list) = IF limit < Cardinality(wanted) THEN limit ELSE Cardinality(wanted)
<1> DEFINE chat == ChatIn(table)
           order == {pair \in chat \X chat : NotBefore(pair[1], pair[2])}
<1>1. table \in SUBSET Row /\ IsFiniteSet(chat)
  BY FS_Subset DEF LogInv, LogTypeOK, TableInv, ChatIn
<1>2. PICK s \in SetToSeqs(chat) :
        /\ \A i, j \in DOMAIN s : i < j => NotBefore(s[i], s[j])
        /\ window = FirstOf(s, Window(limit))
  BY DEF TableLists
<1>3. Lists(s, chat)
  BY <1>1, <1>2, SeqsOf
<1>4. InOrder(s, order)
  <2>1. \A i \in DOMAIN s : s[i] \in chat
    BY <1>3, LenProperties, ElementOfSeq DEF Lists
  <2> QED
    BY <1>2, <2>1 DEF InOrder
<1>5. \A r1, r2 : <<r1, r2>> \in order => NotBefore(r1, r2)
  OBVIOUS
<1>6. list = ShownFrom(FirstOf(s, Window(limit)), d, peer, limit)
  BY <1>2
<1> HIDE DEF order
<1>7. ShowsFirst(ShownFrom(FirstOf(s, Window(limit)), d, peer, limit),
                 ChatIn(table), Conversation(table, d, peer), order, limit)
  BY <1>1, <1>3, <1>4, FirstShown
<1> QED
  BY <1>5, <1>6, <1>7 DEF ShowsFirst, InOrder

\* Both stores show the newest messages of the conversation asked for, and of
\* no other.
LEMMA Listed ==
    ASSUME LogInv, TableInv
    PROVE  ConversationListed
<1> SUFFICES ASSUME NEW limit \in Limits, NEW d \in Devices, NEW peer \in Devices
             PROVE  LET memoryWindow == MemoryList(Selected(memory, ChatIn(ToSet(memory))),
                                                   Window(limit))
                        tableWindows == TableLists(ChatIn(table), Window(limit))
                        Later(r1, r2) == r1.event.at > r2.event.at
                    IN /\ ListsConversation(ShownFrom(memoryWindow, d, peer, limit),
                                            ToSet(memory), d, peer, limit, Later)
                       /\ \A window \in tableWindows :
                             ListsConversation(ShownFrom(window, d, peer, limit),
                                               table, d, peer, limit, NotBefore)
  BY Zenon DEF ConversationListed
<1> DEFINE memoryList == ShownFrom(MemoryList(Selected(memory, ChatIn(ToSet(memory))),
                                              Window(limit)), d, peer, limit)
           Later(r1, r2) == r1.event.at > r2.event.at
<1>1. ListsConversation(memoryList, ToSet(memory), d, peer, limit, Later)
  BY MemoryConversation DEF ListsConversation
<1>2. ASSUME NEW window \in TableLists(ChatIn(table), Window(limit))
      PROVE  ListsConversation(ShownFrom(window, d, peer, limit), table, d, peer, limit, NotBefore)
  BY TableConversation DEF ListsConversation
<1> QED
  BY <1>1, <1>2

\* A list of messages is what it says, in both stores, at all times.
THEOREM MessagesListed == LogSpec => []ConversationListed
BY Listed, LogInvAlways, TableInvInit, TableStep, PTL DEF LogSpec
=============================================================================
