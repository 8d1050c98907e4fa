# Verification of the lora20 indexer

TLA+ models of the lora20 indexer, a Node.js service that turns signed LoRaWAN
payloads into a ledger of tokens, device settings and chat messages. This
directory holds the models, the TLC configurations that check them on small
instances, and theorems about them checked by TLAPS. Paths such as
`domain/indexer-service.js` are below `src/src/`.

## 1. The system

### Components, their state and operations

| component | state | operations | correct when |
|---|---|---|---|
| `IndexerService` (`domain/indexer-service.js`) | none of its own; the objects a request holds between two awaits | `registerDevice`, `linkLorawanDevEui`, `ingestUplink` with `handleDeploy/Mint/Transfer/Message/Config`, and the reading operations | every accepted payload is signed by its device, has a fresh nonce, and obeys the rules at the moment it takes effect; a refused one changes nothing but the log |
| `PostgresStore` (`store/postgres-store.js`, `sql/schema.sql`) | the tables `devices`, `device_public_keys`, `device_nonces`, `tokens`, `balances`, `events`; the pool's clients; open transactions and their row locks | `withTransaction`, `registerDevice`, `getDevice`, `saveDevice`, `createToken`, `getToken`, `saveToken`, `getBalance`, `addBalance`, `appendEvent`, `pruneChatEvents`, listings, `close` | concurrent transactions amount to ledger steps one after another; every client and lock is given back; answers and log agree |
| `MemoryStore` (`store/memory-store.js`) | maps of JavaScript objects, shared with whoever asked for them; the list of events | the same interface; `withTransaction` just calls | the same, between macrotasks |
| event log (`appendEvent`, `pruneChatEvents`, `listTransactions`, `listMessages`) | rows with the caller's `receivedAt` and the store's clock | append, prune, list newest first | nothing but an old message is ever dropped; both stores tell the same story; a conversation is found |
| parser and codec (`protocol/parser.js`, `protocol/chat-codec.js`) | the bit buffer of the loops | parse a payload, pack and unpack chat text | layouts are read at the right offsets; unpacking undoes packing; any bytes are parsed or refused |
| HTTP router and ChirpStack webhook (`api/*.js`) | none | one handler per route; the webhook resolves a DevEUI to a device, then ingests | a delivery reaches the device linked at that time, and acts only for the device that signed it |
| server (`server.js`, `store/create-store.js`) | listening, closing, closed; connections kept alive; the pool ending | start, shut down on a signal | who waits gets an answer before the pool closes; a signal ends the process |
| signatures, ids, encodings (`crypto/ed25519.js`, `domain/device-id.js`, `protocol/encoding.js`) | none | verify, hash, decode | |

Requests arrive over HTTP, in any order and number, concurrently. The router
calls the service; the service awaits the store; the PostgreSQL store sends each
statement on a pooled connection. Nothing else is shared: the requests interact
through the store only, through row locks, unique indexes and the pool in one
case, through shared objects and the microtask queue in the other.

### What is hard

* A handler reads, awaits, and writes what it computed from what it read. On
  PostgreSQL row locks protect that, where the statement takes them
  (`FOR UPDATE OF d` leaves the joined nonce out). In memory nothing does but the
  order of the microtasks.
* `linkLorawanDevEui` is not a transaction. `saveDevice` writes a whole row, and
  the nonce, from the object the request read. An uplink of the device may commit
  between any two of its statements.
* The webhook looks the device up in one transaction and ingests in another.
* Rejections are recorded after the rollback, on another connection.
* The process may die between any two statements; a connection may break, also
  between a COMMIT and its acknowledgement.
* The pool is finite, and a request takes a client up to two times. A shutdown
  ends the pool while handlers whose clients left still run.
* The in-memory store hands out its own objects and rolls nothing back.
* Chat rows are deleted from the same log nonces and ledger are judged by; the
  two stores delete at different events and sort by different columns.
* `listMessages` filters after it has read a window.
* A message's length is given twice, by a count of characters and by its bytes.

The list of hazards, line by line with the properties aimed at each, is
`hazards` in `PROJECT.json`.

## 2. Modules

| module | models | kind |
|---|---|---|
| `Protocol` | rows, parsed payloads, the rules of the handlers in their order and the updates they make | vocabulary |
| `TokenLedger` | what the service promises about tokens: `Deploy`, `Mint`, `Transfer` (`LedgerSpec`) | abstract specification |
| `EventTable` | what the service relies on in an event log: rows are appended, and above the soft limit chat rows may go (`TableSpec`) | abstract specification |
| `Store` | the tables, the operations that are one statement or one short transaction, and the properties relating log, devices and ledger | shared by the next four |
| `Indexer` | what the handlers say they do: one step per request, one that fails leaves nothing but its record. Neither store is that ideal | specification |
| `PostgresIndexer` | the service on PostgreSQL: one step per statement, with pool, locks, crashes and lost connections; implements `LedgerSpec` | detailed specification |
| `MemoryIndexer` | the service on `MemoryStore`: one step per piece of code between two awaits; instantiates `Store` | detailed specification |
| `Server` | the process: connections and clients that leave, the routes with every wait for the pool or a row, links statement by statement, signals and shutdown | composition over the handlers of `Indexer` |
| `EventLog` | both stores' logs under the same calls: clock, times, pruning, lists; implements `EventTable` twice | detailed specification |
| `ChatCodec` | the loops of `encodePackedMessage` and `decodePackedMessage`, a turn a step | algorithm |
| `PayloadParser` | the device's payload builders, `parsePayload` and the decoder it calls | composition over `ChatCodec` |
| `MCMessages`, `MCIndexer`, `MCPostgres`, `MCMemory`, `MCServer`, `MCEventLog`, `MCWire` | small payload sets, calls, links and symmetry for TLC | instances |
| `StoreProofs` | theorems about the ledger and lemmas about log, ledger and settings, whoever writes them | proofs |
| `IndexerProofs`, `PostgresProofs` and `PostgresTableProofs`, `MemoryProofs`, `ServerProofs`, `EventLogProofs`, `WireProofs` | theorems about the module they are named for (`WireProofs`: `ChatCodec` and `PayloadParser`) | proofs |

`TokenLedger` extends `Protocol`; `Store` extends `TokenLedger` and `EventTable`;
`Indexer` and `PostgresIndexer` extend `Store`; `Server` extends `Indexer`. Since
`tokens` and `balances` have the same name and type in all of them, the refinement
mapping is the identity and `LedgerSpec` is checked as a property as it stands.
`MemoryIndexer` keeps token *objects* and a map to them, and gives `Store` the
state function `tokens` in place of the variable. `EventLog` instantiates
`EventTable` twice, with the events of the list and those of the table in place of
its variable: seen without times and order, each is such a table. So what the
models over `EventTable` say holds with the clock and either store's pruning.

### How state corresponds to the code

* `devices[d]` joins the rows of `devices` and `device_nonces`; `Null` is no row.
  The wallet and timestamps are never read by a rule and are left out; the public
  key is what a payload's `signer` is compared with.
* `tokens[t]`, `balances[t][d]`: a balance row that is missing is 0, as in
  `getBalance`.
* `events` is the set of rows of the log; `at` is the place of a row in the order
  of insertion, `recorded` the number ever inserted.
* `PostgresIndexer`: `pc[r]` is the statement request `r` sends next, `row[r]` and
  `tokenRow[r]` the objects it holds, `deviceLock`/`tokenLock` the row locks (the
  latter also the lock an uncommitted insertion of a ticker puts on the index),
  `clients` the pool.
* `MemoryIndexer`: `queue` is the microtask queue; an element is the continuation
  of one request and what its local variables hold.
* `Server`: `request[r]` is what a handler has: its call, the stage it awaits in, the
  device found for it, the row it has read, its reply. `conn[r]` is its connection, `listener` the HTTP
  server, `notRunning` a second `server.close` whose callback waits for the same
  `'close'` event, `pool` and `exit` what the callbacks do.
* `EventLog`: `memory` is `MemoryStore.events`, `table` the rows with `received_at`
  and `created_at`, `now` is `Date.now()`.
* `ChatCodec`, `PayloadParser`: `bitBuffer`, `bitCount`, `position` and the outputs are
  the loops' variables. `frame` is the payload as pairs of the field a byte was
  written for and its value, so that what the parser reads as a field can be
  compared with what was written as one.

A definition whose comment begins with "(mutant)" is not part of a model. It is a
plausible slip in the definition below it, there to show that a property would
notice: substituted for it, TLC finds the property violated
(`mutants` in `PROJECT.json`).

### What the models simplify

* Outside `PayloadParser` a payload is parsed already. One that does not parse is
  refused before any store is asked for anything but BEGIN, and leaves no event
  (in `Server` it is among the "stray" requests).
* `PostgresIndexer` makes the writes of a transaction together with its COMMIT.
  At READ COMMITTED nobody sees them before; the rows they touch are locked by the
  transaction before or are written by increments (`addBalance`). The deletion of
  old chat rows belongs to the appending transaction, or follows the appended
  rejection at once.
* `getDevice` on the recipient of a message or transfer is one read without a
  lock, made where the lookup before it is made. Devices are never deleted, so a
  recipient once found stays there.
* `registerDevice` is one step and does not count among the pool's clients in
  `PostgresIndexer`: its inserts conflict on unique keys and do nothing else.
* A broken connection frees its locks at once. The server may take a while to
  notice; then others wait longer, which is a longer stutter here.
* In memory, requests interleave only within a macrotask: requests pipelined on
  one connection, or calls a program embedding the service makes together
  (`Promise.all`). Two requests on different sockets are different macrotasks,
  and everything one of them awaits is a microtask. The exact number of
  microtask hops before a service call and on an exception's way out is left
  open (`Wait`).
* Any payload may come under any device id and any number of times: this
  covers replays, repeated webhook deliveries and a DevEUI linked to the wrong device.
* In `Server` an uplink's transaction takes its snapshot in one step and, once it has
  the lock on its device's row, does the rest in another: the handler of `Indexer`
  applied to the row as locked, that is with the nonce of the snapshot, or the first
  error of rules and database. What the row and ticker locks do inside that step is
  `PostgresIndexer`'s matter. A link's five statements, and the calls of one
  request, are steps of their own. A process that dies is also `PostgresIndexer`'s; here it ends
  by `process.exit` only.
* `PostgresIndexer` leaves out the last statement of a link request, a `getDevice`
  whose result is the answer; `Server` has it (`LinkAnswer`).
* A character of a text is its index in the chat alphabet, or none of them. A
  field is its bytes; reading them as a number (`readBigUInt64BE` and so on) is
  left out, and so is the ASCII text of a ticker beyond the bytes it allows.
* In `EventLog` the calls are drawn from a set and not decided by the service.

## 3. Runs

Passing runs:

| run | instance | shows |
|---|---|---|
| `indexer` | 2 devices, 1 ticker, supply up to 3, a DevEUI, messages pruned from the first on, 5 events | the handlers, each atomic, implement `LedgerSpec`; the sum of balances is the supply; the supply is capped; nonces move with acceptances only; only the holder spends |
| `pg_race` | 2 devices, 2 requests at a time, one per device, a fault | rival deploys, mints for the last units under the cap and a transfer implement `LedgerSpec`, also through a crash or a lost connection; the ledger is what the log says; nonces increase |
| `pg_mixed` | 2 devices, every operation, links, registration, a fault, requests of one device may overlap | what was checked still holds at COMMIT through crashes and lost connections; no uplink writes back an older row, neither over a CONFIG nor over a link; a nonce moves with an uplink accepted or a link's write, and with nothing else; locks and clients are held by open transactions only; answers agree with the log |
| `pg_waiting` | 3 requests of one device, 2 clients, a link, a fault | under fairness every request ends |
| `mem_batch` | 2 devices, batches of up to 3 requests, of one device or both, 2 rival links, 4 events | no update of the ledger is lost or made twice between the awaits, also by requests that fail after their writes; the cap holds; every nonce is on record; a token is replaced, or a balance overdrawn, only by requests that are under way at once |
| `server` | 3 requests of 5 calls, 2 database clients, clients that leave, any number of signals | every decided uplink has one row on record; while links move statement by statement, a device's row changes only in a link request for it or when an uplink commits that it signed; a shutdown cuts nobody off, and ends |
| `event_log` | 2 devices, 4 payloads, 2 times, a soft limit of 2 rows, 4 events | both stores' logs implement `EventTable`, keep messages for the retention time, differ only in messages past it, list conversations as far as the window reaches, and answer alike when uplinks come in order |
| `wire` | the code's own lengths: texts over 4 bit patterns up to 5 characters, long ones at the limit of 32, payloads of every length up to 92 bytes and messages of up to 255 characters made of one byte | any payload is parsed or refused as malformed; texts come back; fields are the bytes written for them |

Runs that refute a statement of the repository (`findings` in `PROJECT.json`
quotes it):

| run | statement | what happens |
|---|---|---|
| `pg_twice` | strict per-device nonce checks | one MINT delivered twice at once: the second waits for the device row, but its nonce is from before the wait; both are accepted |
| `pg_link` | the nonce advances only on accepted transactions | a link reads the device, an uplink is accepted, the link writes the old nonce back |
| `pg_transfer` | deterministic state machine for balances | a transfer the rules allow fails on `CHECK (balance >= 0)`: the debit is proposed as a row with a negative balance |
| `mem_rejected` | rejected transactions do not burn the nonce | after a refused link, an uplink is applied in part, its nonce spent, and recorded as rejected |

The models show more of the same kind without a run of its own: a COMMIT whose
acknowledgement is lost leaves an applied payload with an accepted and a rejected event;
a link writes the settings it read back over a CONFIG accepted meanwhile;
in memory two transfers of one device in one macrotask read the balance before
either debits it, a payload sent twice in one macrotask is applied twice, of two
deploys of one ticker in a macrotask the second replaces the first one's token, and a
refused link leaves two devices with one DevEUI; a CONFIG interval over 2^31 - 1
fails on PostgreSQL with the database's code. Were transfers to succeed on
PostgreSQL, two opposite ones could wait for each other: the recipient's row is
share-locked by the foreign key of `balances` while the sender's row is locked by
its transaction. A second signal during a shutdown makes the process exit with 1
at the `'close'` event, before the pool has ended. A handler whose client left may find the
pool ending between its transaction and the record of its refusal, which is then
not recorded; a client that still waits never meets that (`NoClientCutOff`).

### Bounds, and why they are enough

Every bound is a CONSTANT. `MaxEvents`, `MaxRequests` and `MaxFaults` cap histories;
`MaxAmount`, `MaxNonce`, `MaxInterval` are the ranges of the payload's fields (64 and 32
bits in the code). The hazards need two actors and one shared row: two devices,
one ticker, a third request only to make somebody wait for a client. A supply
of 3 with mints of 1 and 2 meets the cap exactly, from below, and over it. Two to
four nonces give an increase, a repeat and a step back. One fault at any point
covers crash recovery, as nothing survives a crash but the tables, which
are arbitrary reachable ones then. `MaxRejected` (a state constraint) caps the
rejections on record: a rejection changes nothing but the log, so histories with
more of them repeat those with fewer. `ChatSoftLimit` is 0 to 2, so that pruning
begins with the first to third message. `Overlap` and `Together` say which
requests may run together. Of the passing runs only `pg_race` keeps two requests of one
device apart, for its `AcceptedNoncesIncrease` and `NonceMovesWithAcceptance` are what
`pg_twice` and `pg_link` refute otherwise; the theorems about PostgreSQL make no such
restriction, and `pg_mixed` has requests of one device overlap.

In `mem_batch` all the payloads may share a macrotask, and within the bound of four
events a balance is overdrawn, a token replaced by a rival's, a nonce burned by a
refused `saveDevice` and a payload applied twice, so that each property has its case.
A supply less than what was minted, because rivals' mints went to two objects, takes
four uplinks in one macrotask and is beyond the bound; the theorem covers it. `StrangersComeAlone` (a state
constraint) keeps a payload that is not its device's, which is refused before it reads
anything more, to a macrotask of its own.

In `server`, three requests on two clients are two that hold them and one that waits,
or a link beside an uplink and a webhook call; `Databases` are the device tables the process may
start on: the DevEUI linked to the signer, or the signer yet to be linked and the other
device in its way. `OthersOnce` (a state constraint) lets each call but the uplinks come once.
It cuts off only arrivals, which no fairness asks for, so it hides no way for a shutdown not to end
within these requests.

In `event_log`, `MaxTime` is one tick of the clock, which with a `Retention` of no
tick is enough for a row to be old at once, later, or never, and for times that
are late, early or equal; the window is twice the limit of one, so that four
events can fill it with others' messages. In `wire` the lengths are the code's
own (`SignatureLength` 64, `MaxCharCount` 32); `Patterns` are bits alternating,
all clear and all set, so that a bit kept, lost or shifted shows; four characters
fill three bytes, so five cross the boundary.

For what section 4 proves none of these bounds is needed.

Deadlock is not checked: the runs end when the bound on requests is reached, the
parser when the payload is parsed, the server when it has exited. That nobody
waits forever is `EveryRequestEnds`, that the server exits `ShutdownEnds`.

### Fairness

`pg_waiting`: weak fairness of the steps of each request. A request
goes on when its statement is answered, when the pool's queue (first come, first
served) gives it a client, and when the database's lock queue gives it the row;
all three serve a request that stays able to go on. Arrivals, faults and
registrations are not fair.

`server`: weak fairness of each handler (the event loop resumes it, the database
answers it, the pool's queue serves it), of `IdleEnds` (Node closes an idle
connection at `keepAliveTimeout`), and of the two callbacks of a shutdown. A client
has not to leave and no signal has to come. Two things are assumed: that bodies are sent
to their end (a request arrives whole here), and that no client keeps a connection busy
with ever new requests (`MaxRequests`). Nothing in `server.js` ensures either during a
shutdown: `server.close` also stops the periodic check by which Node enforces its request
timeout, so a client that stops in the middle of a body can hold the shutdown up.

## 4. Theorems

All are proved for every value of the constants that satisfies the ASSUMEs: any
number of devices, tickers and requests, any range of amounts, any set of
payloads, links and faults. No theorem has a hypothesis beyond these: in particular
requests of one device, duplicates and links overlap in all that are about a store or the server.

### The ledger and the log (`StoreProofs`)

* `LedgerConserves`: `LedgerSpec` keeps its types, the sum of each token's balances
  equal to its supply, and the supply within the cap. The invariant `LedgerInv` is
  inductive only as a whole: a balance stays within its range because it is at most
  the sum, which is the supply, which is at most the cap. A sum is the cardinality of
  a set of indivisible units (`Units`), which turns arithmetic over a finite function
  into lemmas on finite sets (`TotalOfCredit`, `TotalOfDebit`).
  `LedgerTermsAreFinal`: no step changes the terms of a deployed token.
* The lemmas the three services share: what an append adds to the log and what pruning
  may take from it (`AppendEventAdds`, `AppendEventKeeps`, `AppendEventLoses`); that a
  DEPLOY, MINT or TRANSFER with its row keeps the ledger equal to the log
  (`DeployLogged`, `MintLogged`, `TransferLogged`; the invariant `LogLedgerInv` adds to
  `LedgerMatchesLog` that the log is finite and its rows are numbered up to `recorded`,
  so that a new row is new and counts once); that a fresh payload keeps the nonces in
  order (`AcceptedKeepsOrder`); and when a device's settings still follow its CONFIGs
  (`ConfigInv`, which adds that a device without a row has none).

### The atomic service (`IndexerProofs`)

These are about what the handlers say they do, a request at a time. What of it survives on the
stores is in the sections after this one; `IndexerNoncesIncrease` and `IndexerAppliesOnce`, for
instance, do not (`pg_twice`, `pg_link`).

* `IndexerImplementsLedger`: every step of `Indexer` is a step of the ledger or leaves
  it alone. `IndexerSupplyBacked`, `IndexerSupplyCapped` and `IndexerTermsAreFinal` follow.
* `IndexerLedgerMatchesLog`: balances and supplies are what the accepted rows add up to.
* `IndexerTypeCorrect`, `IndexerNoncesIncrease`, and from the same invariant
  (`NonceInv`) the action properties `IndexerNonceMoves` and `IndexerOnlyHolderSpends`.
  `IndexerAppliesOnce`: one signed payload is applied once (`IncreasingIsOnce`: what is
  accepted twice would have one nonce at two places of the log).

### PostgreSQL (`PostgresProofs`, `PostgresTableProofs`)

* `PostgresImplementsLedger`, `PostgresChecksHold`, and with them `PostgresSupplyBacked`,
  `PostgresSupplyCapped` and `PostgresTermsAreFinal`: whatever interleaves and fails,
  what a transaction checked still holds when it commits, so its writes are a step of
  the ledger. The invariant `RequestsOK` says for each request, by its `pc`, what it
  holds: the device row from `getDevice` on, the ticker from `getToken` or
  `createToken` on, both equal to what it read (the nonce excepted, which a link request may write
  under somebody's lock). The proof has two
  halves: a step establishes what it needs for its own request (`RequestOK(r)'`), and
  leaves what the others have locked as it was (`Undisturbed(q)`), which keeps their
  `RequestOK` (`UndisturbedKeeps`).
* `PostgresLocksFollow`: no lock and no client of the pool outlives its transaction,
  and the pool never hands out more than it has. `LocksInv` says so request by
  request (`HoldsOK`), so that a step has to be looked at for its own request only
  (`UntouchedHolds` for the others).
* `PostgresTypeCorrect` and `PostgresLedgerMatchesLog`: a step records nothing, or
  commits an accepted uplink, or records a rejection its request has reached
  (`StepRecords`); `RecordsOK` gives the last a payload and an error code.
* `PostgresUplinksKeepRows`: an uplink writes a whole device row back, and still undoes
  no setting and no link committed while it waited, because what it holds is the row
  as it was locked (`RequestsOK`). `PostgresConfigIsLatest`: so the settings of a device
  without a DevEUI are those of its last CONFIG. Of a linked device that is not so,
  and not claimed: a link holds no lock from its read to its write.
* `PostgresAnswersAreOnRecord`: `AnswersOK` follows a request from the commit, or from
  the recorded rejection, to its answer.
* `PostgresNonceMoves`: a nonce moves in the step that accepts an uplink of its device, to
  that uplink's, or in the last write of a link request for it (`StepRecords`). That it
  goes forward only, and that a payload is applied once, cannot be proved, since `pg_link` and
  `pg_twice` refute it.
* `PostgresNeverStuck`: while a request is in progress, some request finds what its
  statement waits for (`CanGo`, the guards of `Progress`: every step meets them,
  `ProgressCanGo`). Suppose none did. Nobody holds a ticker then, since a holder's
  next statement waits for nothing; so nobody waits for a ticker; so nobody is past
  `getDevice`, no device is locked, and nobody waits for one; so no transaction is
  open and the pool has a client. `LocksInv` gives the holders, and `RoomInv` that
  every event still to come has room below `MaxEvents`: a request may record two, if
  the acknowledgement of its COMMIT is lost. `PostgresRunsDown`: each step of a request
  lowers its `Rank`, the statements it may still send, ten at most after its
  arrival, and nothing raises one but an arrival.

### Memory (`MemoryProofs`)

`TypeInv` types the tables and says of each continuation in the queue which operation
it belongs to and what was checked before it (`Fits`). From it alone follow
`MemoryTypeCorrect` and `MemorySupplyCapped`, for any order of turns.

The queue is first in first out, so what a request has read grows stale only through
one that stands behind it (`Carries`: a step moves the queue by none or one, and puts at
its end the head, further on, or somebody who has just arrived). Two theorems are just that:

* `MemoryOverdraftTakesTwo`. The balance a transfer read still covers its debit, or another
  debit of its device stands behind it (`FundsRead`).
* `MemoryReplacedByRivalOnly`. What a handler read in the tokens map is still there, or who has
  written the map since stands behind it (`TokenRead`).

The other two relate the tables to the log in every state, and say at rest what the
properties say:

* `MemoryNonceSpentOnRecord`. A device's nonce can be traced (`Traced`) to the last of its
  uplinks about to append their rows, to one that `saveDevice` has refused, recorded or not yet,
  or to the last accepted row; nobody leaves the queue with a nonce but by leaving its
  row (`Unspent`).
* `MemoryLedgerMatchesEffects`. `EffectsInv` adds to the rows the uplinks still in the queue that
  have written their part of the ledger: the supply or the sender's balance (`Issued`), or the
  owner's too (`Settled`). Each is counted under its turn, the place it has in the line of all
  that ever waited, which is the same while it waits; `k` turns are over. `Balanced(k)`: a balance
  is the sum over both. `TokensBacked(k)`: an object that the map leads to, or that a
  handler has read there, has the terms of a deploy of its ticker and at most the supply
  the ticker's mints made, and exactly that when it has no rival. When a turn moves an amount it
  joins the sum, and when its row is added it moves from the one set to the other; at rest
  only the rows are left. Uplinks that fail after they wrote the ledger are included, for
  their rows are among the effective ones.

`MemoryRunsDown`: a turn of the head brings its request to its answer or to a later await
(`Rank`), or is a `Wait`.

### The server (`ServerProofs`)

Types (`ServerTypeCorrect`), `ServerCutsNobodyOff`, `ServerUplinksActForSigner`,
`ServerRecordsOnce`, `ServerLedgerMatchesLog` and `ServerImplementsLedger`. `ServerInv`
joins the invariants of ledger and log with what is known of a request at its
stage (`RequestsOK`), that a row it has read is of a device that is there (`RowsKnown`), that there are no more open transactions than clients
(`PoolOK`), `OneRowPerUplink` itself (inductive with these: a request moves
to "finished" with its row), and `ShutdownInv`: as long as somebody waits, the
`'close'` event is still to come, so the pool is open and the process runs.

`ServerNeverStuck`: while a request is served or a shutdown is under way, the process can go on
(`CanGo`, the guards of `Handle`, `IdleEnds`, `ServerCloses` and `PoolEnds`). With the pool open, a
request in its transaction can end it, and if there is none every client is back
(`OpenPoolServes`); with the pool ending, transactions end and then the process does; otherwise
the connections that are left are kept ones, which end by themselves, and without any
`'close'` comes (`BusyCanGo`). A handler the ending pool leaves in its queue does not count: nobody
waits for its answer. `ServerRunsDown`: a handler's step takes its request to a later stage, no step
takes one back, and a connection opens once, is kept at most once and goes for good.

### The event log (`EventLogProofs`)

`LogTypeCorrect`; `BothTablesImplemented` (and `PostgresTableImplemented`, a part of it):
both logs, whatever the clock and the times callers give, implement `EventTable`
(`TableInv`: one row per event, and finitely many, so that chat events are counted as
chat rows are); `StoresPartInOldChat`; `MessagesAreKept`; `StoresAnswerAlike`;
`MessagesListed`. `LogInv` adds to the types that rows are numbered up to `recorded`.

The library's induction theorems cannot be used (they take an operator), so what
would be an induction over a list is a least counterexample: an index where the
claim fails has a least one below it, by well-foundedness of `<` on the naturals
(`Least`). A list is described by its set of rows and its order (`Lists`), two ordered
lists of the same rows are equal (`DescendingUnique`), and the results of `SelectSeq` and of
sorting are used by what characterises them.

### The wire (`WireProofs`)

* `WireTypeCorrect`, `ParserDecides`: for texts and payloads of any length and any
  limits, the bit buffer holds no bit but those still to come, and the decoder never
  throws on what the parser lets through. `WireInv` ties the decoder's position in the
  bytes, the characters done and the bits held together: 8 times the first is 6 times
  the second plus the third.
* `TextComesBack`: what is decoded is the six bits that belong to each character, and a
  text that was encoded, sent and parsed comes back. `BitsInv` follows the bits: each bit
  of the characters taken is in the packed bytes or still in the buffer (`Packing`);
  the sent bytes, padded and cut out of the frame by the parser, hold the
  text's bits (`Packed`, `MessageCut`); each decoded character is its six bits, and the
  buffer has the rest of the bytes taken (`Unpacking`). A bit is a quotient and a
  remainder by powers of two (`BitOf`), for there is no operator on bits the prover knows.
* `ParserReadsFields`: the parser takes what the device's builders write, of each
  operation and around any text, each field gets the bytes written for it, and every
  byte of a payload that is taken, a field of a built one or of any other, is read for exactly
  one field. For each operation a lemma says where the builder puts each field
  and another where the parser cuts it out; `TakenInv` keeps the cuts of the payload that
  was taken, and `TakenIsRead` compares the two and counts the bytes read.

### Assumptions

They are those named in `Protocol`, `EventTable`, `PostgresIndexer`, `MemoryIndexer`,
`Server`, `EventLog`, `ChatCodec` and `PayloadParser`; TLC evaluates them in every run
of these modules. They say that the constants are numbers and finite sets of what they
are named for, that `Null` is none of the values it stands beside (in `EventLog`: no
device and not the public chat, so that no filter is told from a filter),
that an accepted event has no error, that the devices a server starts with share no
DevEUI, and that `MaxEvents` leaves room for the requests.

### Only model-checked

`EveryRequestEnds` and `ShutdownEnds`: liveness under fairness, and ENABLED, are beyond the
prover. The safety they rest on is proved. Arrivals are bounded and ranks go one way
(`PostgresRunsDown`, `ServerRunsDown`), so from some point on no request moves; if one were
still under way, somebody could go on (`PostgresNeverStuck`, `ServerNeverStuck`), would stay
able to, and fairness would make it move. What is not proved is this last argument,
and that `CanGo` and `CanHandle`, which list the guards, imply that a step exists. The
runs `pg_waiting` and `server` check the liveness itself, `pg_waiting` for a pool of two.

Every other property of a passing run is the subject of a theorem.

## 5. Plan

Done: the service on both stores and the ledger it implements, the event log, the
wire format, the server with its shutdown, and the theorems above. What is left: the
foreign keys' share locks, should transfers be made to succeed on PostgreSQL. The
opposite transfers of section 3 would then be a run, and `PostgresNeverStuck` false.

Not modelled, and not planned: JSON bodies, CORS, status codes and serializers
(wording); the listings of tokens and balances, `getToken` and `health`, which
return rows as they are; SHA-256, Ed25519, hex and base64 (a device id is a model
value, a signature names its signer and cannot be forged); `ensureCompatibility` (a
schema change made once at startup) and `create-store.js` (reads the environment
once); Docker, Caddy and the health probe (configuration).
