-------------------------- MODULE PostgresIndexer --------------------------
(***************************************************************************)
(* IndexerService on PostgresStore: requests run concurrently, each a      *)
(* sequence of statements on a pooled connection at READ COMMITTED, and    *)
(* hold row locks until COMMIT or ROLLBACK.  The tables of Store are the   *)
(* committed state.  What a transaction has written is invisible until it  *)
(* commits, so its writes are made with COMMIT; what it has read, and may  *)
(* have read too early, is kept in `row` and `tokenRow`.                   *)
(***************************************************************************)
EXTENDS Store

CONSTANTS
    Requests,           \* requests that can be in progress at once
    PoolSize,           \* connections of the pool (10 by default)
    Registered,         \* devices already registered when the service starts
    Links,              \* the link requests that may come: [deviceId, devEui]
    Overlap,            \* whether requests of one device may be in progress together
    MaxStoredInterval,  \* largest value of an INTEGER column (2^31 - 1)
    MaxRequests,        \* bound on the number of requests
    MaxFaults           \* bound on the number of crashes and lost connections

ASSUME PostgresAssumption ==
    /\ PoolSize \in Nat \ {0}
    /\ Registered \subseteq DeviceIds
    /\ Links \subseteq [deviceId : DeviceIds, devEui : DevEuis]
    /\ Overlap \in BOOLEAN
    /\ MaxStoredInterval \in Nat /\ MaxRequests \in Nat /\ MaxFaults \in Nat
    /\ MaxEvents >= 2 * MaxRequests   \* a request records two events at most
    /\ Null \notin Requests

VARIABLES
    pc,          \* pc[r]: the statement request r executes next
    job,         \* job[r]: what r was asked to do
    row,         \* row[r]: the device object r holds
    tokenRow,    \* tokenRow[r]: the token object r holds
    reason,      \* reason[r]: the error r ends with, or NoError
    deviceLock,  \* deviceLock[d]: the request whose transaction locks d's row
    tokenLock,   \* tokenLock[t]: the same for t's row, or for its insertion
    clients,     \* the requests that hold a connection
    arrived,     \* requests so far
    faults       \* crashes and lost connections so far

requestVars == <<pc, job, row, tokenRow, reason>>
lockVars == <<deviceLock, tokenLock>>
vars == <<storeVars, requestVars, lockVars, clients, arrived, faults>>

Jobs == [kind : {"ingest"}, deviceId : DeviceIds, msg : Payloads]
        \cup [kind : {"link"}, deviceId : DeviceIds, devEui : DevEuis]

\* The calls that may come: any payload under any device id, and the links.
Calls == {j \in Jobs : j.kind = "link" =>
                          [deviceId |-> j.deviceId, devEui |-> j.devEui] \in Links}

\* Where a request waits for a connection of the pool, and what it needs it for.
Then == [client |-> "select", recordClient |-> "record",
         updateClient |-> "update", nonceClient |-> "nonce"]

\* Where a request has a connection; from "token" on in an open transaction
\* that may hold locks.
Locking == {"token", "insert", "commit", "rollback"}
Connected == {"select", "device", "record", "update", "nonce"} \cup Locking

Labels == {"idle", "respond"} \cup DOMAIN Then \cup Connected

Init ==
    /\ devices = [d \in DeviceIds |-> IF d \in Registered THEN NewDevice(Null) ELSE Null]
    /\ LedgerInit
    /\ events = {} /\ recorded = 0
    /\ pc = [r \in Requests |-> "idle"]
    /\ job = [r \in Requests |-> Null]
    /\ row = [r \in Requests |-> Null]
    /\ tokenRow = [r \in Requests |-> Null]
    /\ reason = [r \in Requests |-> NoError]
    /\ deviceLock = [d \in DeviceIds |-> Null]
    /\ tokenLock = [t \in Ticks |-> Null]
    /\ clients = {} /\ arrived = 0 /\ faults = 0

-----------------------------------------------------------------------------
\* Steps every request makes.

Goto(r, label) == pc' = [pc EXCEPT ![r] = label]

Free(locks, r) == [x \in DOMAIN locks |-> IF locks[x] = r THEN Null ELSE locks[x]]

\* COMMIT, ROLLBACK or a lost connection: the locks go, the client goes back.
EndTransaction(r) ==
    /\ deviceLock' = Free(deviceLock, r)
    /\ tokenLock' = Free(tokenLock, r)
    /\ clients' = clients \ {r}

Arrive(r) ==
    /\ pc[r] = "idle" /\ arrived < MaxRequests
    /\ \E j \in Calls :
          /\ Overlap \/ \A q \in Requests : pc[q] # "idle" => job[q].deviceId # j.deviceId
          /\ job' = [job EXCEPT ![r] = j]
    /\ Goto(r, "client")
    /\ arrived' = arrived + 1
    /\ UNCHANGED <<storeVars, row, tokenRow, reason, lockVars, clients, faults>>

\* pool.connect, also inside pool.query.
Checkout(r) ==
    /\ pc[r] \in DOMAIN Then
    /\ Cardinality(clients) < PoolSize
    /\ clients' = clients \cup {r}
    /\ Goto(r, Then[pc[r]])
    /\ UNCHANGED <<storeVars, job, row, tokenRow, reason, lockVars, arrived, faults>>

\* The answer goes out; the request's objects are garbage.
Respond(r) ==
    /\ pc[r] = "respond"
    /\ Goto(r, "idle")
    /\ job' = [job EXCEPT ![r] = Null]
    /\ row' = [row EXCEPT ![r] = Null]
    /\ tokenRow' = [tokenRow EXCEPT ![r] = Null]
    /\ reason' = [reason EXCEPT ![r] = NoError]
    /\ UNCHANGED <<storeVars, lockVars, clients, arrived, faults>>

\* The statement SELECT ... FROM devices d LEFT JOIN device_nonces n ... FOR
\* UPDATE OF d begins: its snapshot is taken now.
SelectDevice(r) ==
    /\ pc[r] = "select"
    /\ row' = [row EXCEPT ![r] = devices[job[r].deviceId]]
    /\ Goto(r, "device")
    /\ UNCHANGED <<storeVars, job, tokenRow, reason, lockVars, clients, arrived, faults>>

\* (mutant) the row is not read again after the wait
LockedSnapshot(r) == row[r]

\* What the statement returns once it has the lock on the row of d: the newest
\* version of that row, joined with the nonce of the snapshot, for only `d` is
\* locked and read again.
LockedRow(r) ==
    IF row[r] = Null THEN Null
    ELSE [devices[job[r].deviceId] EXCEPT !.lastNonce = row[r].lastNonce]

DeviceRowFree(r) == row[r] = Null \/ deviceLock[job[r].deviceId] = Null

-----------------------------------------------------------------------------
\* ingestUplink: the transaction.

\* The rules that need no token, and the INTEGER column of saveDevice.
EarlyError(p) ==
    IF PayloadError(p) # NoError THEN PayloadError(p)
    ELSE IF p.op = "MESSAGE" THEN MessageError(p)
    ELSE IF p.op = "CONFIG" /\ p.enabled /\ p.interval > MaxStoredInterval THEN "22003"
    ELSE NoError

TokenOps == {"DEPLOY", "MINT", "TRANSFER"}

\* The device row is locked, the payload checked.
GetDevice(r) ==
    LET d == job[r].deviceId
        p == job[r].msg
        device == LockedRow(r)
        error == IF AuthError(device, d, p) # NoError THEN AuthError(device, d, p)
                 ELSE EarlyError(p)
    IN /\ pc[r] = "device" /\ job[r].kind = "ingest"
       /\ DeviceRowFree(r)
       /\ row' = [row EXCEPT ![r] = device]
       /\ deviceLock' = IF device = Null THEN deviceLock ELSE [deviceLock EXCEPT ![d] = r]
       /\ reason' = [reason EXCEPT ![r] = error]
       /\ Goto(r, IF error # NoError THEN "rollback"
                  ELSE IF p.op \in TokenOps THEN "token" ELSE "commit")
       /\ UNCHANGED <<storeVars, job, tokenRow, tokenLock, clients, arrived, faults>>

\* addBalance with a negative amount: the row proposed for insertion breaks
\* CHECK (balance >= 0) before ON CONFLICT looks for the existing one.
NegativeInsert == "23514"

\* The rules that need the token, and what addBalance makes of a transfer.
TokenError(token, d, p) ==
    CASE p.op = "DEPLOY" -> IF token # Null THEN "token_already_exists" ELSE NoError
      [] p.op = "MINT" -> MintError(token, p)
      [] p.op = "TRANSFER" -> IF TransferError(d, p) # NoError THEN TransferError(d, p)
                              ELSE NegativeInsert

\* (mutant) getToken without FOR UPDATE
GetTokenUnlocked(r) ==
    LET p == job[r].msg
        token == tokens[p.tick]
        error == TokenError(token, job[r].deviceId, p)
    IN /\ pc[r] = "token"
       /\ tokenRow' = [tokenRow EXCEPT ![r] = token]
       /\ reason' = [reason EXCEPT ![r] = error]
       /\ Goto(r, IF error # NoError THEN "rollback"
                  ELSE IF p.op = "DEPLOY" THEN "insert" ELSE "commit")
       /\ UNCHANGED <<storeVars, job, row, lockVars, clients, arrived, faults>>

\* getToken with FOR UPDATE waits for whoever has the row.  A row that is not
\* there, or not committed, is not locked.
GetToken(r) ==
    LET p == job[r].msg
        token == tokens[p.tick]
        error == TokenError(token, job[r].deviceId, p)
    IN /\ pc[r] = "token"
       /\ token = Null \/ tokenLock[p.tick] = Null
       /\ tokenRow' = [tokenRow EXCEPT ![r] = token]
       /\ tokenLock' = IF token = Null THEN tokenLock ELSE [tokenLock EXCEPT ![p.tick] = r]
       /\ reason' = [reason EXCEPT ![r] = error]
       /\ Goto(r, IF error # NoError THEN "rollback"
                  ELSE IF p.op = "DEPLOY" THEN "insert" ELSE "commit")
       /\ UNCHANGED <<storeVars, job, row, deviceLock, clients, arrived, faults>>

\* (mutant) the INSERT overwrites a row of the same tick
CreateOrReplaceToken(r) ==
    LET t == job[r].msg.tick
    IN /\ pc[r] = "insert"
       /\ tokenLock[t] = Null
       /\ tokenLock' = [tokenLock EXCEPT ![t] = r]
       /\ Goto(r, "commit")
       /\ UNCHANGED <<storeVars, job, row, tokenRow, reason, deviceLock, clients, arrived, faults>>

\* createToken: the INSERT waits for an uncommitted one of the same tick, then
\* succeeds or fails with 23505.
CreateToken(r) ==
    LET t == job[r].msg.tick
        taken == tokens[t] # Null
    IN /\ pc[r] = "insert"
       /\ tokenLock[t] = Null
       /\ tokenLock' = IF taken THEN tokenLock ELSE [tokenLock EXCEPT ![t] = r]
       /\ reason' = [reason EXCEPT ![r] = IF taken THEN "token_already_exists" ELSE NoError]
       /\ Goto(r, IF taken THEN "rollback" ELSE "commit")
       /\ UNCHANGED <<storeVars, job, row, tokenRow, deviceLock, clients, arrived, faults>>

\* saveToken writes the object getToken returned, with the mint added.
MintedToken(r) == [tokenRow[r] EXCEPT !.totalSupply = @ + job[r].msg.amount]

\* saveDevice writes the object getDevice returned, as the handler changed it.
ServedDevice(r) ==
    IF job[r].msg.op = "CONFIG" THEN ApplyConfig(row[r], job[r].msg)
    ELSE AcceptNonce(row[r], job[r].msg)

\* The rows an accepted uplink leaves; addBalance adds to what the table holds.
Writes(r) ==
    LET d == job[r].deviceId
        p == job[r].msg
    IN /\ CASE p.op = "DEPLOY" ->
                 /\ tokens' = [tokens EXCEPT ![p.tick] = NewToken(d, p)]
                 /\ UNCHANGED balances
            [] p.op = "MINT" ->
                 /\ tokens' = [tokens EXCEPT ![p.tick] = MintedToken(r)]
                 /\ balances' = [balances EXCEPT ![p.tick] = Credit(@, d, p.amount)]
            [] OTHER -> UNCHANGED ledgerVars
       /\ devices' = [devices EXCEPT ![d] = ServedDevice(r)]
       /\ AppendEvent("accepted", NoError, d, p)

Commit(r) ==
    /\ pc[r] = "commit"
    /\ Writes(r)
    /\ EndTransaction(r)
    /\ Goto(r, "respond")
    /\ UNCHANGED <<job, row, tokenRow, reason, arrived, faults>>

Rollback(r) ==
    /\ pc[r] = "rollback"
    /\ EndTransaction(r)
    /\ Goto(r, "recordClient")
    /\ UNCHANGED <<storeVars, job, row, tokenRow, reason, arrived, faults>>

\* (mutant) a refused payload burns its nonce
RecordAndBurnNonce(r) ==
    /\ pc[r] = "record"
    /\ AppendEvent("rejected", reason[r], job[r].deviceId, job[r].msg)
    /\ devices' = IF row[r] = Null THEN devices
                  ELSE [devices EXCEPT ![job[r].deviceId].lastNonce = job[r].msg.nonce]
    /\ clients' = clients \ {r}
    /\ Goto(r, "respond")
    /\ UNCHANGED <<tokens, balances, job, row, tokenRow, reason, lockVars, arrived, faults>>

\* The rejected event, on a connection of its own.
RecordRejection(r) ==
    /\ pc[r] = "record"
    /\ AppendEvent("rejected", reason[r], job[r].deviceId, job[r].msg)
    /\ clients' = clients \ {r}
    /\ Goto(r, "respond")
    /\ UNCHANGED <<devices, tokens, balances, job, row, tokenRow, reason,
                   lockVars, arrived, faults>>

-----------------------------------------------------------------------------
\* linkLorawanDevEui: three statements, each its own transaction.

\* getDevice: the lock is gone when the statement ends.
LinkGetDevice(r) ==
    /\ pc[r] = "device" /\ job[r].kind = "link"
    /\ DeviceRowFree(r)
    /\ row' = [row EXCEPT ![r] = LockedRow(r)]
    /\ reason' = [reason EXCEPT ![r] = IF row[r] = Null THEN "device_not_found" ELSE NoError]
    /\ clients' = clients \ {r}
    /\ Goto(r, IF row[r] = Null THEN "respond" ELSE "updateClient")
    /\ UNCHANGED <<storeVars, job, tokenRow, lockVars, arrived, faults>>

\* (mutant) the UPDATE does not wait for the row lock
LinkUpdateUnlocked(r) ==
    LET d == job[r].deviceId
        free == DevEuiFree(d, job[r].devEui)
    IN /\ pc[r] = "update"
       /\ devices' = IF ~free THEN devices
                     ELSE [devices EXCEPT ![d] =
                             [row[r] EXCEPT !.devEui = job[r].devEui,
                                            !.lastNonce = devices[d].lastNonce]]
       /\ reason' = [reason EXCEPT ![r] =
                       IF free THEN NoError ELSE "lorawan_dev_eui_already_registered"]
       /\ clients' = clients \ {r}
       /\ Goto(r, IF free THEN "nonceClient" ELSE "respond")
       /\ UNCHANGED <<tokens, balances, events, recorded, job, row, tokenRow,
                      lockVars, arrived, faults>>

\* saveDevice, UPDATE devices: every column but the nonce, under the unique
\* index on the DevEUI.
LinkUpdateDevice(r) ==
    LET d == job[r].deviceId
        free == DevEuiFree(d, job[r].devEui)
    IN /\ pc[r] = "update"
       /\ deviceLock[d] = Null
       /\ devices' = IF ~free THEN devices
                     ELSE [devices EXCEPT ![d] =
                             [row[r] EXCEPT !.devEui = job[r].devEui,
                                            !.lastNonce = devices[d].lastNonce]]
       /\ reason' = [reason EXCEPT ![r] =
                       IF free THEN NoError ELSE "lorawan_dev_eui_already_registered"]
       /\ clients' = clients \ {r}
       /\ Goto(r, IF free THEN "nonceClient" ELSE "respond")
       /\ UNCHANGED <<tokens, balances, events, recorded, job, row, tokenRow,
                      lockVars, arrived, faults>>

\* saveDevice, INSERT INTO device_nonces ... DO UPDATE: the nonce that was read.
LinkSaveNonce(r) ==
    /\ pc[r] = "nonce"
    /\ devices' = [devices EXCEPT ![job[r].deviceId].lastNonce = row[r].lastNonce]
    /\ clients' = clients \ {r}
    /\ Goto(r, "respond")
    /\ UNCHANGED <<tokens, balances, events, recorded, job, row, tokenRow, reason,
                   lockVars, arrived, faults>>

-----------------------------------------------------------------------------
\* Faults.

\* The process dies and is started again.  The database rolls back whatever
\* was open; nobody gets an answer.
Crash ==
    /\ faults < MaxFaults
    /\ \E r \in Requests : pc[r] # "idle"
    /\ faults' = faults + 1
    /\ pc' = [r \in Requests |-> "idle"]
    /\ job' = [r \in Requests |-> Null]
    /\ row' = [r \in Requests |-> Null]
    /\ tokenRow' = [r \in Requests |-> Null]
    /\ reason' = [r \in Requests |-> NoError]
    /\ deviceLock' = [d \in DeviceIds |-> Null]
    /\ tokenLock' = [t \in Ticks |-> Null]
    /\ clients' = {}
    /\ UNCHANGED <<storeVars, arrived>>

\* Where a request goes whose connection broke.  An ingest transaction goes on
\* to record a rejection, unless not even BEGIN had been answered, when nothing
\* is parsed yet; the other statements are the last their request makes.
AfterLoss(r) ==
    IF job[r].kind = "ingest" /\ pc[r] \in {"device"} \cup Locking
    THEN "recordClient" ELSE "respond"

\* (mutant) the error of a broken connection is swallowed
LoseConnectionQuietly(r) ==
    /\ faults < MaxFaults
    /\ pc[r] \in Connected
    /\ UNCHANGED storeVars
    /\ faults' = faults + 1
    /\ EndTransaction(r)
    /\ Goto(r, "respond")
    /\ UNCHANGED <<job, row, tokenRow, reason, arrived>>

\* (mutant) locks survive the connection
LoseConnectionKeepLocks(r) ==
    /\ faults < MaxFaults
    /\ pc[r] \in Connected
    /\ UNCHANGED storeVars
    /\ faults' = faults + 1
    /\ clients' = clients \ {r}
    /\ reason' = [reason EXCEPT ![r] = "ingest_rejected"]
    /\ Goto(r, AfterLoss(r))
    /\ UNCHANGED <<job, row, tokenRow, lockVars, arrived>>

\* A connection breaks: the statement fails, ROLLBACK fails too, and the
\* database drops the transaction.  If COMMIT had been sent, it may have been
\* carried out.  (A statement of its own that was carried out but not answered
\* is that statement and an answer.)
LoseConnection(r) ==
    /\ faults < MaxFaults
    /\ pc[r] \in Connected
    /\ \/ UNCHANGED storeVars
       \/ pc[r] = "commit" /\ Writes(r)
    /\ faults' = faults + 1
    /\ EndTransaction(r)
    /\ reason' = [reason EXCEPT ![r] = "ingest_rejected"]
    /\ Goto(r, AfterLoss(r))
    /\ UNCHANGED <<job, row, tokenRow, arrived>>

-----------------------------------------------------------------------------

\* registerDevice: one transaction of inserts under unique keys.
Register ==
    /\ \E d \in DeviceIds, devEui \in DevEuis \cup {Null} : RegisterDevice(d, devEui)
    /\ UNCHANGED <<requestVars, lockVars, clients, arrived, faults>>

\* The steps a request makes once it has arrived.
Progress(r) ==
    \/ Checkout(r) \/ SelectDevice(r) \/ Respond(r)
    \/ GetDevice(r) \/ GetToken(r) \/ CreateToken(r)
    \/ Commit(r) \/ Rollback(r) \/ RecordRejection(r)
    \/ LinkGetDevice(r) \/ LinkUpdateDevice(r) \/ LinkSaveNonce(r)

Next ==
    \/ \E r \in Requests : Arrive(r) \/ Progress(r) \/ LoseConnection(r)
    \/ Register
    \/ Crash

Spec == Init /\ [][Next]_vars

\* The event loop, the pool's queue and the database's lock queues serve every
\* request that can go on.
FairSpec == Spec /\ \A r \in Requests : WF_vars(Progress(r))

-----------------------------------------------------------------------------
\* Properties.

PostgresTypeOK ==
    /\ StoreTypeOK
    /\ pc \in [Requests -> Labels]
    /\ job \in [Requests -> Jobs \cup {Null}]
    /\ row \in [Requests -> Device \cup {Null}]
    /\ tokenRow \in [Requests -> Token \cup {Null}]
    /\ deviceLock \in [DeviceIds -> Requests \cup {Null}]
    /\ tokenLock \in [Ticks -> Requests \cup {Null}]
    /\ clients \subseteq Requests

\* Locks and connections are held by the transactions that need them and by
\* nobody else: none outlives its transaction, after a rejection, a lost
\* connection or a crash, and no transaction commits without the row locks its
\* reads were protected by.
LocksFollowTransactions ==
    /\ \A d \in DeviceIds : deviceLock[d] # Null =>
          /\ pc[deviceLock[d]] \in Locking
          /\ job[deviceLock[d]].deviceId = d
    /\ \A t \in Ticks : tokenLock[t] # Null =>
          /\ pc[tokenLock[t]] \in {"commit", "rollback"}
          /\ job[tokenLock[t]].msg.op \in TokenOps
          /\ job[tokenLock[t]].msg.tick = t
    /\ \A r \in Requests :
          /\ pc[r] \in Locking \ {"rollback"} => deviceLock[job[r].deviceId] = r
          /\ pc[r] = "commit" /\ job[r].msg.op \in TokenOps => tokenLock[job[r].msg.tick] = r
    /\ clients = {r \in Requests : pc[r] \in Connected}
    /\ Cardinality(clients) <= PoolSize

\* What a transaction checked when it read is still true when it commits: the
\* ticker is still free, the token it will overwrite is the one it read and
\* still has room for the mint, and its device row lacks no update but one of
\* the nonce.
ChecksHoldAtCommit ==
    \A r \in Requests : pc[r] = "commit" =>
        LET p == job[r].msg
            device == devices[job[r].deviceId]
        IN /\ p.op \in {"DEPLOY", "MINT", "MESSAGE", "CONFIG"}
           /\ p.op = "DEPLOY" => tokens[p.tick] = Null /\ DeployTermsError(p) = NoError
           /\ p.op = "MINT" => /\ tokens[p.tick] # Null /\ tokenRow[r] = tokens[p.tick]
                               /\ p.amount > 0 /\ MintError(tokens[p.tick], p) = NoError
           /\ device # Null
           /\ row[r] = [device EXCEPT !.lastNonce = row[r].lastNonce]

\* An uplink answered "accepted", or with an error that is not that of a broken
\* connection, is in the committed log with that outcome (a message may have
\* been pruned since): no answer tells of a transaction that did not commit.
AnswersAreOnRecord ==
    [][\A r \in Requests :
         (/\ Respond(r) /\ job[r].kind = "ingest" /\ job[r].msg.op # "MESSAGE"
          /\ reason[r] # "ingest_rejected") =>
            \E e \in events :
               /\ e.msg = job[r].msg /\ e.deviceId = job[r].deviceId
               /\ e.reason = reason[r]
               /\ e.status = IF reason[r] = NoError THEN "accepted" ELSE "rejected"]_vars

\* An accepted uplink changes what it is about in the newest version of its
\* device's row, and nothing else of any device: although it writes back the
\* whole row it read, it undoes neither a CONFIG nor a link that was committed
\* while it waited for the lock.
UplinksKeepRows ==
    [][\A e \in events' \ events : e.status = "accepted" =>
         devices' = [devices EXCEPT ![e.deviceId] =
                       IF e.msg.op = "CONFIG" THEN ApplyConfig(@, e.msg)
                       ELSE AcceptNonce(@, e.msg)]]_vars

\* Whatever is in progress for a device, its nonce moves with an uplink of its
\* own that is accepted in the same step, and becomes that uplink's, or with the
\* last statement of a link request; never with a refusal, a failed transaction
\* or anything done for another device.
NonceMovesByUplinkOrLink ==
    [][\A d \in DeviceIds :
         (devices[d] # Null /\ devices'[d].lastNonce # devices[d].lastNonce) =>
            \/ /\ recorded' = recorded + 1
               /\ \A e \in events' \ events :
                     /\ e.status = "accepted" /\ e.deviceId = d
                     /\ e.msg.nonce = devices'[d].lastNonce
            \/ \E r \in Requests : LinkSaveNonce(r) /\ job[r].deviceId = d]_vars

\* Every request that arrives is answered (or dies with the process): nobody
\* waits forever for a connection or a lock.
EveryRequestEnds == \A r \in Requests : pc[r] # "idle" ~> pc[r] = "idle"

\* "Deterministic state machine for token balances" (README): the protocol's
\* rules alone decide on a transfer, not the database it is written to.
TransfersFailByRuleOnly ==
    \A e \in events : e.status = "rejected" /\ e.msg.op = "TRANSFER" => e.reason \in Reasons
=============================================================================
