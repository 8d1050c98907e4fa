--------------------------- MODULE PostgresProofs ---------------------------
(***************************************************************************)
(* The row locks do their work: whatever requests, links, crashes and lost *)
(* connections interleave, over any number of them, what a transaction     *)
(* checked still holds when it commits, and the committed tables behave as *)
(* the token ledger; and locks and connections follow the transactions, so *)
(* that what a rejection, a crash or a broken connection leaves behind is  *)
(* nothing.                                                                *)
(***************************************************************************)
EXTENDS PostgresIndexer, StoreProofs

-----------------------------------------------------------------------------
\* The inductive invariant.

\* The types of what the argument reads.  (The log plays no part in it.)
RowsTyped ==
    /\ devices \in [DeviceIds -> Device \cup {Null}]
    /\ pc \in [Requests -> Labels]
    /\ job \in [Requests -> Jobs \cup {Null}]
    /\ row \in [Requests -> Device \cup {Null}]
    /\ tokenRow \in [Requests -> Token \cup {Null}]
    /\ deviceLock \in [DeviceIds -> Requests \cup {Null}]
    /\ tokenLock \in [Ticks -> Requests \cup {Null}]

LinkSteps == {"updateClient", "update", "nonceClient", "nonce"}

\* An ingest transaction past getDevice: its device row is locked and is, but
\* for the nonce, the one it read.
DeviceHeld(r) ==
    LET d == job[r].deviceId
    IN /\ job[r].kind = "ingest" /\ PayloadError(job[r].msg) = NoError
       /\ deviceLock[d] = r
       /\ devices[d] # Null /\ row[r] # Null
       /\ row[r] = [devices[d] EXCEPT !.lastNonce = row[r].lastNonce]

\* One about to commit: its token row, or the ticker it inserts, is locked and
\* is what it read.
TokenHeld(r) ==
    LET p == job[r].msg
    IN /\ p.op # "TRANSFER"
       /\ p.op \in {"DEPLOY", "MINT"} => tokenLock[p.tick] = r
       /\ p.op = "DEPLOY" => tokens[p.tick] = Null
       /\ p.op = "MINT" => /\ tokens[p.tick] # Null
                           /\ tokenRow[r] = tokens[p.tick]
                           /\ MintError(tokens[p.tick], p) = NoError

RequestOK(r) ==
    /\ pc[r] # "idle" => job[r] \in Jobs
    /\ pc[r] = "device" /\ row[r] # Null => devices[job[r].deviceId] # Null
    /\ pc[r] \in LinkSteps => /\ job[r].kind = "link" /\ row[r] # Null
                             /\ devices[job[r].deviceId] # Null
    /\ pc[r] \in {"token", "insert", "commit"} => DeviceHeld(r)
    /\ pc[r] = "token" => job[r].msg.op \in TokenOps
    /\ pc[r] = "insert" => job[r].msg.op = "DEPLOY"
    /\ pc[r] = "commit" => TokenHeld(r)

RequestsOK == RowsTyped /\ \A r \in Requests : RequestOK(r)

\* A step of another request: nothing of q's moves, what q has locked stays as
\* it is, a nonce apart, and no device goes away.
Undisturbed(q) ==
    /\ pc'[q] = pc[q] /\ job'[q] = job[q]
    /\ row'[q] = row[q] /\ tokenRow'[q] = tokenRow[q]
    /\ \A d \in DeviceIds : devices[d] # Null =>
          /\ devices'[d] # Null
          /\ deviceLock[d] = q =>
                devices'[d] = [devices[d] EXCEPT !.lastNonce = devices'[d].lastNonce]
    /\ \A d \in DeviceIds : deviceLock[d] = q => deviceLock'[d] = q
    /\ \A t \in Ticks : tokenLock[t] = q => tokenLock'[t] = q /\ tokens'[t] = tokens[t]

-----------------------------------------------------------------------------
\* Facts about jobs, locks and rows.

\* The fields a job has, by kind.
LEMMA JobFields ==
    ASSUME NEW j \in Jobs
    PROVE  /\ j.kind \in {"ingest", "link"} /\ j.deviceId \in DeviceIds
           /\ j.kind = "ingest" => j.msg \in Payloads
           /\ j.kind = "link" => j.devEui \in DevEuis
BY DEF Jobs

\* A transaction that ends frees its own locks and no other.
LEMMA FreeOthers ==
    ASSUME NEW X, NEW locks \in [X -> Requests \cup {Null}], NEW r \in Requests
    PROVE  /\ Free(locks, r) \in [X -> Requests \cup {Null}]
           /\ \A x \in X, q \in Requests : q # r /\ locks[x] = q => Free(locks, r)[x] = q
BY DEF Free

\* The updates of a device row give a device row.
LEMMA DeviceUpdates ==
    ASSUME NEW device \in Device, NEW p \in Payloads
    PROVE  /\ device # Null
           /\ AcceptNonce(device, p) \in Device /\ AcceptNonce(device, p) # Null
           /\ p.op = "CONFIG" =>
                ApplyConfig(device, p) \in Device /\ ApplyConfig(device, p) # Null
<1>1. \A other \in Device : other # Null
  BY ProtocolAssumption
<1>2. AcceptNonce(device, p) \in Device
  BY PayloadFields DEF Device, AcceptNonce
<1>3. ASSUME p.op = "CONFIG" PROVE ApplyConfig(device, p) \in Device
  BY <1>3, PayloadFields DEF Device, ApplyConfig
<1> QED
  BY <1>1, <1>2, <1>3

\* What does not disturb a request keeps what is known of it.
LEMMA UndisturbedKeeps ==
    ASSUME RowsTyped, NEW q \in Requests, RequestOK(q), Undisturbed(q)
    PROVE  RequestOK(q)'
<1>1. /\ pc'[q] = pc[q] /\ job'[q] = job[q]
      /\ row'[q] = row[q] /\ tokenRow'[q] = tokenRow[q]
  BY DEF Undisturbed
<1>2. CASE pc[q] = "idle"
  BY <1>1, <1>2 DEF RequestOK, LinkSteps
<1>3. CASE pc[q] # "idle"
  <2>1. job[q] \in Jobs /\ job[q].deviceId \in DeviceIds
    BY <1>3, JobFields DEF RequestOK
  <2>2. ASSUME DeviceHeld(q) PROVE DeviceHeld(q)'
    <3> DEFINE d == job[q].deviceId
    <3>1. /\ deviceLock'[d] = q /\ devices'[d] # Null
          /\ devices'[d] = [devices[d] EXCEPT !.lastNonce = devices'[d].lastNonce]
      BY <2>1, <2>2 DEF DeviceHeld, Undisturbed
    <3>2. devices[d] \in Device
      BY <2>1, <2>2 DEF DeviceHeld, RowsTyped
    <3>3. row[q] = [devices'[d] EXCEPT !.lastNonce = row[q].lastNonce]
      BY <2>2, <3>1, <3>2 DEF DeviceHeld, Device
    <3> QED
      BY <1>1, <2>2, <3>1, <3>3 DEF DeviceHeld
  <2>3. ASSUME pc[q] = "commit" PROVE TokenHeld(q)'
    <3> DEFINE p == job[q].msg
    <3>1. p \in Payloads /\ TokenHeld(q)
      BY <2>1, <2>3, JobFields DEF RequestOK, DeviceHeld
    <3>2. p.op \in {"DEPLOY", "MINT"} =>
             tokenLock'[p.tick] = q /\ tokens'[p.tick] = tokens[p.tick]
      BY <3>1, PayloadFields DEF TokenHeld, Undisturbed
    <3> QED
      BY <1>1, <3>1, <3>2 DEF TokenHeld
  <2>4. (row[q] # Null => devices[job[q].deviceId] # Null) =>
           (row'[q] # Null => devices'[job'[q].deviceId] # Null)
    BY <1>1, <2>1 DEF Undisturbed
  <2> QED
    BY <1>1, <1>3, <2>1, <2>2, <2>3, <2>4 DEF RequestOK
<1> QED
  BY <1>2, <1>3

-----------------------------------------------------------------------------
\* Steps that write no table.

\* What a step of r has to establish.
Advances(r) ==
    /\ RowsTyped' /\ RequestOK(r)'
    /\ \A q \in Requests \ {r} : Undisturbed(q)

\* The lock and token tables as a step of r may change them: r takes what is
\* free or gives up what it has.
LocksKept(r) ==
    /\ \A d \in DeviceIds, q \in Requests \ {r} : deviceLock[d] = q => deviceLock'[d] = q
    /\ \A t \in Ticks, q \in Requests \ {r} : tokenLock[t] = q => tokenLock'[t] = q

\* A step that moves only r and locks disturbs nobody.
LEMMA LocalStep ==
    ASSUME RowsTyped, NEW r \in Requests,
           devices' = devices, tokens' = tokens, LocksKept(r),
           \A q \in Requests \ {r} : /\ pc'[q] = pc[q] /\ job'[q] = job[q]
                                     /\ row'[q] = row[q] /\ tokenRow'[q] = tokenRow[q]
    PROVE  \A q \in Requests \ {r} : Undisturbed(q)
<1>1. \A d \in DeviceIds : devices[d] # Null =>
         devices[d] = [devices[d] EXCEPT !.lastNonce = devices[d].lastNonce]
  BY DEF RowsTyped, Device
<1> QED
  BY <1>1 DEF Undisturbed, LocksKept

LEMMA ArriveKeeps ==
    ASSUME RequestsOK, NEW r \in Requests, Arrive(r) PROVE Advances(r)
<1>1. PICK j \in Calls : job' = [job EXCEPT ![r] = j]
  BY DEF Arrive
<1>2. j \in Jobs
  BY DEF Calls
<1>3. /\ pc' = [pc EXCEPT ![r] = "client"] /\ row' = row /\ tokenRow' = tokenRow
      /\ devices' = devices /\ tokens' = tokens
      /\ deviceLock' = deviceLock /\ tokenLock' = tokenLock
  BY DEF Arrive, Goto, storeVars, lockVars
<1>4. RowsTyped'
  BY <1>1, <1>2, <1>3 DEF RequestsOK, RowsTyped, Labels, Then
<1>5. RequestOK(r)'
  BY <1>1, <1>2, <1>3 DEF RequestsOK, RowsTyped, RequestOK, LinkSteps
<1>6. \A q \in Requests \ {r} : Undisturbed(q)
  BY <1>1, <1>3, LocalStep DEF RequestsOK, RowsTyped, LocksKept
<1> QED
  BY <1>4, <1>5, <1>6 DEF Advances

LEMMA CheckoutKeeps ==
    ASSUME RequestsOK, NEW r \in Requests, Checkout(r) PROVE Advances(r)
<1>1. /\ pc[r] \in DOMAIN Then /\ pc' = [pc EXCEPT ![r] = Then[pc[r]]]
      /\ job' = job /\ row' = row /\ tokenRow' = tokenRow
      /\ devices' = devices /\ tokens' = tokens
      /\ deviceLock' = deviceLock /\ tokenLock' = tokenLock
  BY DEF Checkout, Goto, storeVars, lockVars
<1>2. \/ pc[r] = "client" /\ Then[pc[r]] = "select"
      \/ pc[r] = "recordClient" /\ Then[pc[r]] = "record"
      \/ pc[r] = "updateClient" /\ Then[pc[r]] = "update"
      \/ pc[r] = "nonceClient" /\ Then[pc[r]] = "nonce"
  BY <1>1 DEF Then
<1>3. RowsTyped'
  BY <1>1, <1>2 DEF RequestsOK, RowsTyped, Labels, Connected
<1>4. RequestOK(r)'
  BY <1>1, <1>2 DEF RequestsOK, RowsTyped, RequestOK, LinkSteps
<1>5. \A q \in Requests \ {r} : Undisturbed(q)
  BY <1>1, LocalStep DEF RequestsOK, RowsTyped, LocksKept
<1> QED
  BY <1>3, <1>4, <1>5 DEF Advances

LEMMA RespondKeeps ==
    ASSUME RequestsOK, NEW r \in Requests, Respond(r) PROVE Advances(r)
<1>1. /\ pc' = [pc EXCEPT ![r] = "idle"] /\ job' = [job EXCEPT ![r] = Null]
      /\ row' = [row EXCEPT ![r] = Null] /\ tokenRow' = [tokenRow EXCEPT ![r] = Null]
      /\ devices' = devices /\ tokens' = tokens
      /\ deviceLock' = deviceLock /\ tokenLock' = tokenLock
  BY DEF Respond, Goto, storeVars, lockVars
<1>2. RowsTyped'
  BY <1>1 DEF RequestsOK, RowsTyped, Labels
<1>3. RequestOK(r)'
  BY <1>1 DEF RequestsOK, RowsTyped, RequestOK, LinkSteps
<1>4. \A q \in Requests \ {r} : Undisturbed(q)
  BY <1>1, LocalStep DEF RequestsOK, RowsTyped, LocksKept
<1> QED
  BY <1>2, <1>3, <1>4 DEF Advances

LEMMA SelectDeviceKeeps ==
    ASSUME RequestsOK, NEW r \in Requests, SelectDevice(r) PROVE Advances(r)
<1>1. /\ pc[r] = "select" /\ pc' = [pc EXCEPT ![r] = "device"]
      /\ row' = [row EXCEPT ![r] = devices[job[r].deviceId]]
      /\ job' = job /\ tokenRow' = tokenRow
      /\ devices' = devices /\ tokens' = tokens
      /\ deviceLock' = deviceLock /\ tokenLock' = tokenLock
  BY DEF SelectDevice, Goto, storeVars, lockVars
<1>2. job[r] \in Jobs /\ job[r].deviceId \in DeviceIds
  BY <1>1, JobFields DEF RequestsOK, RequestOK
<1>3. RowsTyped'
  BY <1>1, <1>2 DEF RequestsOK, RowsTyped, Labels, Connected
<1>4. RequestOK(r)'
  BY <1>1, <1>2 DEF RequestsOK, RowsTyped, RequestOK, LinkSteps
<1>5. \A q \in Requests \ {r} : Undisturbed(q)
  BY <1>1, LocalStep DEF RequestsOK, RowsTyped, LocksKept
<1> QED
  BY <1>3, <1>4, <1>5 DEF Advances

\* Rollback and the recording of a rejection leave nothing to protect.
LEMMA RejectionKeeps ==
    ASSUME RequestsOK, NEW r \in Requests, Rollback(r) \/ RecordRejection(r)
    PROVE  Advances(r)
<1>1. PICK label \in {"recordClient", "respond"} : pc' = [pc EXCEPT ![r] = label]
  BY DEF Rollback, RecordRejection, Goto
<1>2. pc[r] \in {"rollback", "record"}
  BY DEF Rollback, RecordRejection
<1>3. /\ job' = job /\ row' = row /\ tokenRow' = tokenRow
      /\ devices' = devices /\ tokens' = tokens
      /\ \/ deviceLock' = deviceLock /\ tokenLock' = tokenLock
         \/ deviceLock' = Free(deviceLock, r) /\ tokenLock' = Free(tokenLock, r)
  BY DEF Rollback, RecordRejection, EndTransaction, storeVars, lockVars
<1>4. /\ LocksKept(r)
      /\ deviceLock' \in [DeviceIds -> Requests \cup {Null}]
      /\ tokenLock' \in [Ticks -> Requests \cup {Null}]
  BY <1>3, FreeOthers DEF RequestsOK, RowsTyped, LocksKept
<1>5. RowsTyped'
  BY <1>1, <1>3, <1>4 DEF RequestsOK, RowsTyped, Labels, Then
<1>6. RequestOK(r)'
  BY <1>1, <1>2, <1>3 DEF RequestsOK, RowsTyped, RequestOK, LinkSteps
<1>7. \A q \in Requests \ {r} : Undisturbed(q)
  BY <1>1, <1>3, <1>4, LocalStep DEF RequestsOK, RowsTyped
<1> QED
  BY <1>5, <1>6, <1>7 DEF Advances

-----------------------------------------------------------------------------
\* Steps that read under a lock.

\* The row getDevice returns.
LEMMA LockedRowIs ==
    ASSUME RequestsOK, NEW r \in Requests, pc[r] = "device"
    PROVE  LET d == job[r].deviceId
           IN /\ job[r] \in Jobs /\ d \in DeviceIds
              /\ LockedRow(r) \in Device \cup {Null}
              /\ LockedRow(r) = Null <=> row[r] = Null
              /\ LockedRow(r) # Null =>
                    /\ devices[d] # Null
                    /\ LockedRow(r) = [devices[d] EXCEPT !.lastNonce = LockedRow(r).lastNonce]
<1> DEFINE d == job[r].deviceId
<1>1. job[r] \in Jobs /\ d \in DeviceIds
  BY JobFields DEF RequestsOK, RequestOK
<1>2. CASE row[r] = Null
  BY <1>1, <1>2 DEF LockedRow
<1>3. CASE row[r] # Null
  <2>1. row[r] \in Device /\ devices[d] \in Device /\ devices[d] # Null
    BY <1>1, <1>3 DEF RequestsOK, RequestOK, RowsTyped
  <2>2. LockedRow(r) = [devices[d] EXCEPT !.lastNonce = row[r].lastNonce]
    BY <1>3 DEF LockedRow
  <2>3. LockedRow(r) \in Device /\ LockedRow(r).lastNonce = row[r].lastNonce
    BY <2>1, <2>2 DEF Device
  <2> QED
    BY <1>1, <1>3, <2>1, <2>2, <2>3, ProtocolAssumption
<1> QED
  BY <1>2, <1>3

LEMMA GetDeviceKeeps ==
    ASSUME RequestsOK, NEW r \in Requests, GetDevice(r) PROVE Advances(r)
<1> DEFINE d == job[r].deviceId
           p == job[r].msg
           device == LockedRow(r)
<1>1. /\ pc[r] = "device" /\ job[r].kind = "ingest" /\ DeviceRowFree(r)
      /\ row' = [row EXCEPT ![r] = device]
      /\ deviceLock' = IF device = Null THEN deviceLock ELSE [deviceLock EXCEPT ![d] = r]
      /\ job' = job /\ tokenRow' = tokenRow /\ tokenLock' = tokenLock
      /\ devices' = devices /\ tokens' = tokens
  BY DEF GetDevice, storeVars
<1>2. PICK label \in {"rollback", "token", "commit"} :
         /\ pc' = [pc EXCEPT ![r] = label]
         /\ label # "rollback" => AuthError(device, d, p) = NoError /\ EarlyError(p) = NoError
         /\ label = "token" <=> label # "rollback" /\ p.op \in TokenOps
  BY DEF GetDevice, Goto
<1>3. /\ job[r] \in Jobs /\ d \in DeviceIds
      /\ device \in Device \cup {Null}
      /\ device = Null <=> row[r] = Null
      /\ device # Null =>
            /\ devices[d] # Null
            /\ device = [devices[d] EXCEPT !.lastNonce = device.lastNonce]
  BY <1>1, LockedRowIs
<1> HIDE DEF device
<1>4. deviceLock[d] = Null \/ device = Null
  BY <1>1, <1>3 DEF DeviceRowFree
<1>5. RowsTyped'
  BY <1>1, <1>2, <1>3 DEF RequestsOK, RowsTyped, Labels, Connected, Locking
<1>6. \A q \in Requests \ {r} : Undisturbed(q)
  <2>1. LocksKept(r)
    BY <1>1, <1>3, <1>4, PostgresAssumption DEF RequestsOK, RowsTyped, LocksKept
  <2> QED
    BY <1>1, <1>2, <2>1, LocalStep DEF RequestsOK, RowsTyped
<1>7. RequestOK(r)'
  <2>1. pc'[r] = label /\ row'[r] = device /\ job'[r] = job[r]
    BY <1>1, <1>2 DEF RequestsOK, RowsTyped
  <2>2. CASE label = "rollback"
    BY <1>3, <2>1, <2>2 DEF RequestOK, LinkSteps
  <2>3. CASE label # "rollback"
    <3>1. device # Null /\ PayloadError(p) = NoError
      BY <1>2, <2>3 DEF AuthError, EarlyError, NoError
    <3>2. deviceLock'[d] = r
      BY <1>1, <1>3, <3>1 DEF RequestsOK, RowsTyped
    <3>3. DeviceHeld(r)'
      BY <1>1, <1>3, <2>1, <3>1, <3>2 DEF DeviceHeld
    <3>4. CASE label = "token"
      BY <1>2, <1>3, <2>1, <3>3, <3>4 DEF RequestOK, LinkSteps
    <3>5. CASE label = "commit"
      <4>1. TokenHeld(r)'
        BY <1>2, <2>1, <3>5 DEF TokenHeld, TokenOps
      <4> QED
        BY <1>3, <2>1, <3>3, <3>5, <4>1 DEF RequestOK, LinkSteps
    <3> QED
      BY <1>2, <2>3, <3>4, <3>5
  <2> QED
    BY <2>2, <2>3
<1> QED
  BY <1>5, <1>6, <1>7 DEF Advances

LEMMA LinkGetDeviceKeeps ==
    ASSUME RequestsOK, NEW r \in Requests, LinkGetDevice(r) PROVE Advances(r)
<1>1. /\ pc[r] = "device" /\ job[r].kind = "link"
      /\ row' = [row EXCEPT ![r] = LockedRow(r)]
      /\ pc' = [pc EXCEPT ![r] = IF row[r] = Null THEN "respond" ELSE "updateClient"]
      /\ job' = job /\ tokenRow' = tokenRow
      /\ devices' = devices /\ tokens' = tokens
      /\ deviceLock' = deviceLock /\ tokenLock' = tokenLock
  BY DEF LinkGetDevice, Goto, storeVars, lockVars
<1>2. /\ job[r] \in Jobs /\ job[r].deviceId \in DeviceIds
      /\ LockedRow(r) \in Device \cup {Null}
      /\ LockedRow(r) = Null <=> row[r] = Null
      /\ LockedRow(r) # Null => devices[job[r].deviceId] # Null
  BY <1>1, LockedRowIs
<1>3. RowsTyped'
  BY <1>1, <1>2 DEF RequestsOK, RowsTyped, Labels, Then
<1>4. RequestOK(r)'
  BY <1>1, <1>2 DEF RequestsOK, RowsTyped, RequestOK, LinkSteps
<1>5. \A q \in Requests \ {r} : Undisturbed(q)
  BY <1>1, LocalStep DEF RequestsOK, RowsTyped, LocksKept
<1> QED
  BY <1>3, <1>4, <1>5 DEF Advances

\* What a transaction past getDevice is about.
LEMMA InTransaction ==
    ASSUME RequestsOK, NEW r \in Requests, pc[r] \in {"token", "insert", "commit"}
    PROVE  /\ job[r] \in Jobs /\ job[r].deviceId \in DeviceIds /\ job[r].msg \in Payloads
           /\ PayloadError(job[r].msg) = NoError
           /\ row[r] \in Device /\ devices[job[r].deviceId] \in Device
<1>1. job[r] \in Jobs /\ DeviceHeld(r)
  BY DEF RequestsOK, RequestOK
<1>2. job[r].deviceId \in DeviceIds /\ job[r].msg \in Payloads
  BY <1>1, JobFields DEF DeviceHeld
<1> QED
  BY <1>1, <1>2 DEF DeviceHeld, RequestsOK, RowsTyped

LEMMA GetTokenKeeps ==
    ASSUME LedgerInv, RequestsOK, NEW r \in Requests, GetToken(r) PROVE Advances(r)
<1> DEFINE p == job[r].msg
           token == tokens[p.tick]
<1>1. /\ pc[r] = "token"
      /\ token = Null \/ tokenLock[p.tick] = Null
      /\ tokenRow' = [tokenRow EXCEPT ![r] = token]
      /\ tokenLock' = IF token = Null THEN tokenLock ELSE [tokenLock EXCEPT ![p.tick] = r]
      /\ job' = job /\ row' = row /\ deviceLock' = deviceLock
      /\ devices' = devices /\ tokens' = tokens
  BY DEF GetToken, storeVars
<1>2. PICK label \in {"rollback", "insert", "commit"} :
         /\ pc' = [pc EXCEPT ![r] = label]
         /\ label # "rollback" => TokenError(token, job[r].deviceId, p) = NoError
         /\ label = "insert" <=> label # "rollback" /\ p.op = "DEPLOY"
  BY DEF GetToken, Goto
<1>3. /\ job[r] \in Jobs /\ p \in Payloads /\ p.op \in TokenOps
      /\ DeviceHeld(r) /\ p.tick \in Ticks
  <2>1. job[r] \in Jobs /\ p \in Payloads /\ p.op \in TokenOps /\ DeviceHeld(r)
    BY <1>1, InTransaction DEF RequestsOK, RequestOK
  <2> QED
    BY <2>1, PayloadFields DEF TokenOps
<1>4. token \in Token \cup {Null}
  BY <1>3 DEF LedgerInv, LedgerTypeOK
<1>5. RowsTyped'
  BY <1>1, <1>2, <1>3, <1>4 DEF RequestsOK, RowsTyped, Labels, Connected, Locking, Then
<1>6. \A q \in Requests \ {r} : Undisturbed(q)
  <2>1. LocksKept(r)
    BY <1>1, <1>3, PostgresAssumption DEF RequestsOK, RowsTyped, LocksKept
  <2> QED
    BY <1>1, <1>2, <2>1, LocalStep DEF RequestsOK, RowsTyped
<1>7. RequestOK(r)'
  <2>1. pc'[r] = label /\ tokenRow'[r] = token
    BY <1>1, <1>2 DEF RequestsOK, RowsTyped
  <2>2. DeviceHeld(r)'
    BY <1>1, <1>3 DEF DeviceHeld
  <2>3. ASSUME label = "commit" PROVE TokenHeld(r)'
    <3>1. p.op # "DEPLOY" /\ TokenError(token, job[r].deviceId, p) = NoError
      BY <1>2, <2>3
    <3>2. p.op # "TRANSFER"
      BY <3>1 DEF TokenError, NegativeInsert, NoError
    <3>3. p.op = "MINT" /\ MintError(token, p) = NoError
      BY <1>3, <3>1, <3>2 DEF TokenError, TokenOps
    <3>4. token # Null
      BY <3>3 DEF MintError, NoError
    <3>5. tokenLock'[p.tick] = r
      BY <1>1, <1>3, <3>4 DEF RequestsOK, RowsTyped
    <3> QED
      BY <1>1, <2>1, <3>3, <3>4, <3>5 DEF TokenHeld
  <2> QED
    BY <1>1, <1>2, <1>3, <2>1, <2>2, <2>3 DEF RequestOK, LinkSteps
<1> QED
  BY <1>5, <1>6, <1>7 DEF Advances

LEMMA CreateTokenKeeps ==
    ASSUME RequestsOK, NEW r \in Requests, CreateToken(r) PROVE Advances(r)
<1> DEFINE t == job[r].msg.tick
           taken == tokens[t] # Null
<1>1. /\ pc[r] = "insert" /\ tokenLock[t] = Null
      /\ tokenLock' = IF taken THEN tokenLock ELSE [tokenLock EXCEPT ![t] = r]
      /\ pc' = [pc EXCEPT ![r] = IF taken THEN "rollback" ELSE "commit"]
      /\ job' = job /\ row' = row /\ tokenRow' = tokenRow /\ deviceLock' = deviceLock
      /\ devices' = devices /\ tokens' = tokens
  BY DEF CreateToken, Goto, storeVars
<1>2. /\ job[r] \in Jobs /\ job[r].msg \in Payloads /\ job[r].msg.op = "DEPLOY"
      /\ DeviceHeld(r) /\ t \in Ticks
  BY <1>1, InTransaction, PayloadFields DEF RequestsOK, RequestOK
<1>3. RowsTyped'
  BY <1>1, <1>2 DEF RequestsOK, RowsTyped, Labels, Connected, Locking
<1>4. \A q \in Requests \ {r} : Undisturbed(q)
  <2>1. LocksKept(r)
    BY <1>1, <1>2, PostgresAssumption DEF RequestsOK, RowsTyped, LocksKept
  <2> QED
    BY <1>1, <2>1, LocalStep DEF RequestsOK, RowsTyped
<1>5. RequestOK(r)'
  <2>1. DeviceHeld(r)'
    BY <1>1, <1>2 DEF DeviceHeld
  <2>2. ASSUME ~taken PROVE TokenHeld(r)'
    BY <1>1, <1>2, <2>2 DEF RequestsOK, RowsTyped, TokenHeld
  <2> QED
    BY <1>1, <1>2, <2>1, <2>2 DEF RequestsOK, RowsTyped, RequestOK, LinkSteps
<1> QED
  BY <1>3, <1>4, <1>5 DEF Advances

-----------------------------------------------------------------------------
\* Steps that write.

\* What a committing transaction writes to the tokens and balances is a step of
\* the ledger, and touches no ticker it has not locked.
LEMMA WritesRefine ==
    ASSUME LedgerInv, RequestsOK, NEW r \in Requests, pc[r] = "commit", Writes(r)
    PROVE  LET d == job[r].deviceId
               p == job[r].msg
           IN /\ [LedgerNext]_ledgerVars
              /\ \A t \in Ticks : tokenLock[t] # r => tokens'[t] = tokens[t]
              /\ p.op = "DEPLOY" => Deploy(d, p.tick, p.maxSupply, p.limitPerMint)
              /\ p.op = "MINT" => Mint(d, p.tick, p.amount)
              /\ p.op \notin {"DEPLOY", "MINT"} => p.op # "TRANSFER" /\ UNCHANGED ledgerVars
<1> DEFINE d == job[r].deviceId
           p == job[r].msg
<1>1. /\ d \in DeviceIds /\ p \in Payloads /\ PayloadError(p) = NoError
      /\ TokenHeld(r)
  BY InTransaction DEF RequestsOK, RequestOK
<1>2. tokens \in [Ticks -> Token \cup {Null}]
  BY DEF LedgerInv, LedgerTypeOK
<1>3. CASE p.op = "DEPLOY"
  <2>1. /\ p.tick \in Ticks /\ p.maxSupply \in Amounts /\ p.limitPerMint \in Amounts
        /\ p.maxSupply \in Nat /\ p.limitPerMint \in Nat
    BY <1>1, <1>3, PayloadFields
  <2>2. tokens[p.tick] = Null /\ tokenLock[p.tick] = r
    BY <1>1, <1>3 DEF TokenHeld
  <2>3. DeployTermsError(p) = NoError
    BY <1>1, <1>3 DEF PayloadError
  <2>4. 0 < p.limitPerMint /\ p.limitPerMint <= p.maxSupply
    BY <2>1, <2>3 DEF DeployTermsError, NoError
  <2>5. tokens' = [tokens EXCEPT ![p.tick] = NewToken(d, p)] /\ UNCHANGED balances
    BY <1>3 DEF Writes
  <2>6. Deploy(d, p.tick, p.maxSupply, p.limitPerMint)
    BY <2>2, <2>4, <2>5 DEF Deploy, NewToken
  <2>7. LedgerNext
    BY <1>1, <2>1, <2>6 DEF LedgerNext
  <2>8. \A t \in Ticks : tokenLock[t] # r => tokens'[t] = tokens[t]
    BY <1>2, <2>2, <2>5
  <2> QED
    BY <1>3, <2>6, <2>7, <2>8
<1>4. CASE p.op = "MINT"
  <2>1. p.tick \in Ticks /\ p.amount \in Amounts /\ p.amount \in Nat
    BY <1>1, <1>4, PayloadFields
  <2>2. /\ tokens[p.tick] # Null /\ tokenRow[r] = tokens[p.tick]
        /\ tokenLock[p.tick] = r /\ MintError(tokens[p.tick], p) = NoError
    BY <1>1, <1>4 DEF TokenHeld
  <2>3. AmountError(p) = NoError
    BY <1>1, <1>4 DEF PayloadError
  <2>4. tokens[p.tick] \in Token
    BY <1>2, <2>1, <2>2
  <2>5. /\ 0 < p.amount /\ p.amount <= tokens[p.tick].limitPerMint
        /\ tokens[p.tick].totalSupply + p.amount <= tokens[p.tick].maxSupply
    BY <2>1, <2>2, <2>3, <2>4, ProtocolAssumption
       DEF AmountError, MintError, NoError, Token, Amounts
  <2>6. /\ tokens' = [tokens EXCEPT ![p.tick] = [tokenRow[r] EXCEPT !.totalSupply = @ + p.amount]]
        /\ balances' = [balances EXCEPT ![p.tick] = Credit(@, d, p.amount)]
    BY <1>4 DEF Writes, MintedToken
  <2>7. tokens' = [tokens EXCEPT ![p.tick].totalSupply = @ + p.amount]
    BY <2>2, <2>6
  <2>8. Mint(d, p.tick, p.amount)
    BY <2>2, <2>5, <2>6, <2>7 DEF Mint
  <2>9. LedgerNext
    BY <1>1, <2>1, <2>8 DEF LedgerNext
  <2>10. \A t \in Ticks : tokenLock[t] # r => tokens'[t] = tokens[t]
    BY <1>2, <2>2, <2>6
  <2> QED
    BY <1>4, <2>8, <2>9, <2>10
<1>5. CASE p.op \notin {"DEPLOY", "MINT"}
  BY <1>1, <1>5 DEF Writes, ledgerVars, TokenHeld
<1> QED
  BY <1>3, <1>4, <1>5

\* The step that ends a transaction, if it writes, changes its own device row
\* and disturbs nobody.
LEMMA WritingEnd ==
    ASSUME LedgerInv, RequestsOK, NEW r \in Requests, NEW label \in Labels,
           pc[r] = "commit", Writes(r), EndTransaction(r),
           pc' = [pc EXCEPT ![r] = label],
           label \in {"respond", "recordClient"},
           job' = job, row' = row, tokenRow' = tokenRow
    PROVE  Advances(r)
<1> DEFINE d == job[r].deviceId
           p == job[r].msg
           new == IF p.op = "CONFIG" THEN ApplyConfig(row[r], p) ELSE AcceptNonce(row[r], p)
<1>1. /\ job[r] \in Jobs /\ d \in DeviceIds /\ p \in Payloads /\ row[r] \in Device
      /\ deviceLock[d] = r
  BY InTransaction DEF RequestsOK, RequestOK, DeviceHeld
<1>2. new \in Device /\ new # Null
  BY <1>1, DeviceUpdates
<1>3. devices' = [devices EXCEPT ![d] = new]
  BY DEF Writes, ServedDevice
<1>4. /\ deviceLock' = Free(deviceLock, r) /\ tokenLock' = Free(tokenLock, r)
      /\ deviceLock' \in [DeviceIds -> Requests \cup {Null}]
      /\ tokenLock' \in [Ticks -> Requests \cup {Null}]
      /\ LocksKept(r)
  BY FreeOthers, SMTT(40) DEF EndTransaction, RequestsOK, RowsTyped, LocksKept
<1> HIDE DEF new
<1>5. RowsTyped'
  BY <1>1, <1>2, <1>3, <1>4 DEF RequestsOK, RowsTyped
<1>6. RequestOK(r)'
  BY <1>1 DEF RequestsOK, RowsTyped, RequestOK, LinkSteps
<1>7. ASSUME NEW q \in Requests \ {r} PROVE Undisturbed(q)
  <2>1. ASSUME NEW x \in DeviceIds, devices[x] # Null
        PROVE  /\ devices'[x] # Null
               /\ deviceLock[x] = q =>
                     devices'[x] = [devices[x] EXCEPT !.lastNonce = devices'[x].lastNonce]
    <3>1. CASE x = d
      BY <1>1, <1>2, <1>3, <3>1 DEF RequestsOK, RowsTyped
    <3>2. CASE x # d
      <4>1. devices'[x] = devices[x] /\ devices[x] \in Device
        BY <1>3, <2>1, <3>2 DEF RequestsOK, RowsTyped
      <4> QED
        BY <2>1, <4>1 DEF Device
    <3> QED
      BY <3>1, <3>2
  <2>2. \A t \in Ticks : tokenLock[t] = q => tokens'[t] = tokens[t]
    BY WritesRefine
  <2> QED
    BY <1>4, <2>1, <2>2 DEF Undisturbed, LocksKept, RequestsOK, RowsTyped
<1> QED
  BY <1>5, <1>6, <1>7 DEF Advances

\* The same when it writes nothing.
LEMMA QuietEnd ==
    ASSUME RequestsOK, NEW r \in Requests, NEW label \in Labels,
           EndTransaction(r), UNCHANGED storeVars,
           pc' = [pc EXCEPT ![r] = label],
           label \in {"respond", "recordClient"}, pc[r] # "idle",
           job' = job, row' = row, tokenRow' = tokenRow
    PROVE  Advances(r)
<1>1. devices' = devices /\ tokens' = tokens
  BY DEF storeVars
<1>2. /\ deviceLock' \in [DeviceIds -> Requests \cup {Null}]
      /\ tokenLock' \in [Ticks -> Requests \cup {Null}]
      /\ LocksKept(r)
  BY FreeOthers, SMTT(40) DEF EndTransaction, RequestsOK, RowsTyped, LocksKept
<1>3. RowsTyped'
  BY <1>1, <1>2 DEF RequestsOK, RowsTyped
<1>4. RequestOK(r)'
  BY DEF RequestsOK, RowsTyped, RequestOK, LinkSteps
<1>5. \A q \in Requests \ {r} : Undisturbed(q)
  BY <1>1, <1>2, LocalStep DEF RequestsOK, RowsTyped
<1> QED
  BY <1>3, <1>4, <1>5 DEF Advances

LEMMA CommitKeeps ==
    ASSUME LedgerInv, RequestsOK, NEW r \in Requests, Commit(r) PROVE Advances(r)
BY WritingEnd DEF Commit, Goto, Labels

LEMMA LoseConnectionKeeps ==
    ASSUME LedgerInv, RequestsOK, NEW r \in Requests, LoseConnection(r)
    PROVE  Advances(r)
<1>1. PICK label \in {"respond", "recordClient"} : pc' = [pc EXCEPT ![r] = label]
  BY DEF LoseConnection, AfterLoss, Goto
<1>2. /\ label \in Labels /\ pc[r] # "idle" /\ EndTransaction(r)
      /\ job' = job /\ row' = row /\ tokenRow' = tokenRow
  BY DEF LoseConnection, Labels, Connected, Locking, Then
<1>3. CASE UNCHANGED storeVars
  BY <1>1, <1>2, <1>3, QuietEnd
<1>4. CASE pc[r] = "commit" /\ Writes(r)
  BY <1>1, <1>2, <1>4, WritingEnd
<1> QED
  BY <1>3, <1>4 DEF LoseConnection

-----------------------------------------------------------------------------
\* The link requests and registration.

\* A link request writes a row that is not locked, and leaves a device there.
LEMMA LinkUpdateKeeps ==
    ASSUME RequestsOK, NEW r \in Requests, LinkUpdateDevice(r) PROVE Advances(r)
<1> DEFINE d == job[r].deviceId
           devEui == job[r].devEui
           new == [row[r] EXCEPT !.devEui = devEui, !.lastNonce = devices[d].lastNonce]
<1>1. /\ pc[r] = "update" /\ deviceLock[d] = Null
      /\ devices' = devices \/ devices' = [devices EXCEPT ![d] = new]
      /\ job' = job /\ row' = row /\ tokenRow' = tokenRow /\ tokens' = tokens
      /\ deviceLock' = deviceLock /\ tokenLock' = tokenLock
  BY DEF LinkUpdateDevice, lockVars
<1>2. PICK label \in {"nonceClient", "respond"} : pc' = [pc EXCEPT ![r] = label]
  BY DEF LinkUpdateDevice, Goto
<1>3. /\ job[r] \in Jobs /\ job[r].kind = "link" /\ d \in DeviceIds /\ devEui \in DevEuis
      /\ row[r] \in Device /\ devices[d] \in Device /\ devices[d] # Null
  BY <1>1, JobFields DEF RequestsOK, RequestOK, RowsTyped, LinkSteps
<1>4. new \in Device /\ new # Null
  <2>1. new \in Device
    BY <1>3 DEF Device
  <2> QED
    BY <2>1, ProtocolAssumption
<1> HIDE DEF new
<1>5. \A x \in DeviceIds : devices'[x] = IF devices' # devices /\ x = d THEN new ELSE devices[x]
  BY <1>1, <1>3 DEF RequestsOK, RowsTyped
<1>6. RowsTyped'
  BY <1>1, <1>2, <1>3, <1>4 DEF RequestsOK, RowsTyped, Labels, Then
<1>7. RequestOK(r)'
  BY <1>1, <1>2, <1>3, <1>4, <1>5 DEF RequestsOK, RowsTyped, RequestOK, LinkSteps
<1>8. \A q \in Requests \ {r} : Undisturbed(q)
  <2>1. ASSUME NEW q \in Requests \ {r}, NEW x \in DeviceIds, devices[x] # Null
        PROVE  /\ devices'[x] # Null
               /\ deviceLock[x] = q =>
                     devices'[x] = [devices[x] EXCEPT !.lastNonce = devices'[x].lastNonce]
    <3>1. deviceLock[x] = q => devices'[x] = devices[x]
      BY <1>1, <1>5, PostgresAssumption
    <3>2. devices[x] = [devices[x] EXCEPT !.lastNonce = devices[x].lastNonce]
      BY <2>1 DEF RequestsOK, RowsTyped, Device
    <3> QED
      BY <1>4, <1>5, <2>1, <3>1, <3>2
  <2> QED
    BY <1>1, <1>2, <2>1 DEF Undisturbed, RequestsOK, RowsTyped
<1> QED
  BY <1>6, <1>7, <1>8 DEF Advances

\* The nonce it writes may be an old one, even under another request's lock.
\* The rest of the row stays.
LEMMA LinkSaveNonceKeeps ==
    ASSUME RequestsOK, NEW r \in Requests, LinkSaveNonce(r) PROVE Advances(r)
<1> DEFINE d == job[r].deviceId
           new == [devices[d] EXCEPT !.lastNonce = row[r].lastNonce]
<1>1. /\ pc[r] = "nonce" /\ pc' = [pc EXCEPT ![r] = "respond"]
      /\ devices' = [devices EXCEPT ![d].lastNonce = row[r].lastNonce]
      /\ job' = job /\ row' = row /\ tokenRow' = tokenRow /\ tokens' = tokens
      /\ deviceLock' = deviceLock /\ tokenLock' = tokenLock
  BY DEF LinkSaveNonce, Goto, lockVars
<1>2. /\ job[r] \in Jobs /\ d \in DeviceIds
      /\ row[r] \in Device /\ devices[d] \in Device /\ devices[d] # Null
  BY <1>1, JobFields DEF RequestsOK, RequestOK, RowsTyped, LinkSteps
<1>3. devices' = [devices EXCEPT ![d] = new]
  BY <1>1
<1>4. new \in Device /\ new # Null /\ new = [devices[d] EXCEPT !.lastNonce = new.lastNonce]
  <2>1. new \in Device
    BY <1>2 DEF Device
  <2>2. new.lastNonce = row[r].lastNonce
    BY <1>2 DEF Device
  <2> QED
    BY <2>1, <2>2, ProtocolAssumption
<1> HIDE DEF new
<1>5. \A x \in DeviceIds : devices'[x] = IF x = d THEN new ELSE devices[x]
  BY <1>2, <1>3 DEF RequestsOK, RowsTyped
<1>6. RowsTyped'
  BY <1>1, <1>2, <1>3, <1>4 DEF RequestsOK, RowsTyped, Labels
<1>7. RequestOK(r)'
  BY <1>1, <1>2 DEF RequestsOK, RowsTyped, RequestOK, LinkSteps
<1>8. \A q \in Requests \ {r} : Undisturbed(q)
  <2>1. ASSUME NEW x \in DeviceIds, devices[x] # Null
        PROVE  /\ devices'[x] # Null
               /\ devices'[x] = [devices[x] EXCEPT !.lastNonce = devices'[x].lastNonce]
    <3>1. CASE x = d
      BY <1>4, <1>5, <3>1
    <3>2. CASE x # d
      BY <1>5, <2>1, <3>2 DEF RequestsOK, RowsTyped, Device
    <3> QED
      BY <3>1, <3>2
  <2> QED
    BY <1>1, <2>1 DEF Undisturbed, RequestsOK, RowsTyped
<1> QED
  BY <1>6, <1>7, <1>8 DEF Advances

\* Registering adds a row where there was none.
LEMMA RegisterKeeps == ASSUME RequestsOK, Register PROVE RequestsOK'
<1>1. PICK d \in DeviceIds, devEui \in DevEuis \cup {Null} : RegisterDevice(d, devEui)
  BY DEF Register
<1>2. /\ pc' = pc /\ job' = job /\ row' = row /\ tokenRow' = tokenRow
      /\ deviceLock' = deviceLock /\ tokenLock' = tokenLock /\ tokens' = tokens
      /\ devices[d] = Null /\ devices' = [devices EXCEPT ![d] = NewDevice(devEui)]
  BY <1>1 DEF Register, RegisterDevice, requestVars, lockVars
<1>3. NewDevice(devEui) \in Device
  BY DEF NewDevice, Device
<1>4. RowsTyped'
  BY <1>2, <1>3 DEF RequestsOK, RowsTyped
<1>5. ASSUME NEW q \in Requests PROVE RequestOK(q)'
  <2>1. \A x \in DeviceIds : devices[x] # Null =>
           devices'[x] = devices[x] /\ devices[x] = [devices[x] EXCEPT !.lastNonce = devices[x].lastNonce]
    BY <1>2 DEF RequestsOK, RowsTyped, Device
  <2>2. Undisturbed(q)
    BY <1>2, <2>1 DEF Undisturbed
  <2> QED
    BY <2>2, UndisturbedKeeps DEF RequestsOK
<1> QED
  BY <1>4, <1>5 DEF RequestsOK

-----------------------------------------------------------------------------
\* The theorems.

LEMMA RequestsOKInit == Init => RequestsOK
<1> SUFFICES ASSUME Init PROVE RequestsOK
  OBVIOUS
<1>1. \A d \in DeviceIds : devices[d] \in Device \cup {Null}
  BY DEF Init, NewDevice, Device
<1>2. RowsTyped
  BY <1>1 DEF Init, RowsTyped, Labels
<1>3. ASSUME NEW r \in Requests PROVE RequestOK(r)
  BY DEF Init, RequestOK, LinkSteps
<1> QED
  BY <1>2, <1>3 DEF RequestsOK

\* One step of one request.
LEMMA RequestStep ==
    ASSUME LedgerInv, RequestsOK, NEW r \in Requests,
           Arrive(r) \/ Progress(r) \/ LoseConnection(r)
    PROVE  Advances(r)
BY ArriveKeeps, CheckoutKeeps, SelectDeviceKeeps, RespondKeeps, GetDeviceKeeps, GetTokenKeeps,
   CreateTokenKeeps, CommitKeeps, RejectionKeeps, LinkGetDeviceKeeps, LinkUpdateKeeps,
   LinkSaveNonceKeeps, LoseConnectionKeeps DEF Progress

LEMMA RequestsOKStep == LedgerInv /\ RequestsOK /\ [Next]_vars => RequestsOK'
<1> SUFFICES ASSUME LedgerInv, RequestsOK, [Next]_vars PROVE RequestsOK'
  OBVIOUS
<1>1. ASSUME NEW r \in Requests, Arrive(r) \/ Progress(r) \/ LoseConnection(r)
      PROVE  RequestsOK'
  <2>1. Advances(r)
    BY <1>1, RequestStep
  <2>2. ASSUME NEW q \in Requests \ {r} PROVE RequestOK(q)'
    BY <2>1, UndisturbedKeeps DEF Advances, RequestsOK
  <2> QED
    BY <2>1, <2>2 DEF Advances, RequestsOK
<1>2. CASE Crash
  <2>1. devices' = devices
    BY <1>2 DEF Crash, storeVars
  <2>2. RowsTyped'
    BY <1>2, <2>1 DEF Crash, RequestsOK, RowsTyped, Labels
  <2>3. ASSUME NEW r \in Requests PROVE RequestOK(r)'
    BY <1>2 DEF Crash, RequestOK, LinkSteps
  <2> QED
    BY <2>2, <2>3 DEF RequestsOK
<1>3. CASE UNCHANGED vars
  BY <1>3 DEF vars, storeVars, requestVars, lockVars, RequestsOK, RowsTyped, RequestOK,
              DeviceHeld, TokenHeld, LinkSteps
<1> QED
  BY <1>1, <1>2, <1>3, RegisterKeeps DEF Next

\* Only a COMMIT writes tokens and balances, and what it writes is a step of the
\* ledger.
LEMMA StepRefines == LedgerInv /\ RequestsOK /\ [Next]_vars => [LedgerNext]_ledgerVars
<1> SUFFICES ASSUME LedgerInv, RequestsOK, [Next]_vars PROVE [LedgerNext]_ledgerVars
  OBVIOUS
<1>1. ASSUME NEW r \in Requests, pc[r] = "commit", Writes(r) PROVE [LedgerNext]_ledgerVars
  BY <1>1, WritesRefine
<1>2. ASSUME NEW r \in Requests, Progress(r) PROVE [LedgerNext]_ledgerVars
  <2>1. CASE Commit(r)
    BY <1>1, <2>1 DEF Commit
  <2>2. CASE ~Commit(r)
    BY <1>2, <2>2 DEF Progress, Checkout, SelectDevice, Respond, GetDevice, GetToken,
                      CreateToken, Rollback, RecordRejection, LinkGetDevice,
                      LinkUpdateDevice, LinkSaveNonce, storeVars, ledgerVars
  <2> QED
    BY <2>1, <2>2
<1>3. ASSUME NEW r \in Requests, LoseConnection(r) PROVE [LedgerNext]_ledgerVars
  BY <1>1, <1>3 DEF LoseConnection, storeVars, ledgerVars
<1>4. ASSUME NEW r \in Requests, Arrive(r) PROVE UNCHANGED ledgerVars
  BY <1>4 DEF Arrive, storeVars, ledgerVars
<1>5. Register \/ Crash \/ UNCHANGED vars => UNCHANGED ledgerVars
  BY DEF Register, RegisterDevice, Crash, vars, storeVars, ledgerVars
<1> QED
  BY <1>2, <1>3, <1>4, <1>5 DEF Next

LEMMA PostgresInvariant == Spec => [](LedgerInv /\ RequestsOK)
<1>1. Init => LedgerInv /\ RequestsOK
  BY LedgerInvInit, RequestsOKInit DEF Init
<1>2. LedgerInv /\ RequestsOK /\ [Next]_vars => (LedgerInv /\ RequestsOK)'
  BY StepRefines, LedgerInvStep, RequestsOKStep
<1> QED
  BY <1>1, <1>2, PTL DEF Spec

\* However the requests interleave, and whatever fails, the committed tables
\* behave as the token ledger.
THEOREM PostgresImplementsLedger == Spec => LedgerSpec
<1>1. Init => LedgerInit
  BY DEF Init
<1> QED
  BY <1>1, StepRefines, PostgresInvariant, PTL DEF Spec, LedgerSpec

\* However the requests interleave, balances sum up to the supply.
THEOREM PostgresSupplyBacked == Spec => []SupplyBacked
<1>1. LedgerInv => SupplyBacked
  BY DEF LedgerInv
<1> QED
  BY <1>1, PostgresInvariant, PTL

\* However the requests interleave, no token exceeds its maximum supply.
THEOREM PostgresSupplyCapped == Spec => []SupplyCapped
<1>1. LedgerInv => SupplyCapped
  BY DEF LedgerInv
<1> QED
  BY <1>1, PostgresInvariant, PTL

\* What a transaction checked when it read still holds when it commits.
THEOREM PostgresChecksHold == Spec => []ChecksHoldAtCommit
<1>1. ASSUME RequestsOK, NEW r \in Requests, pc[r] = "commit"
      PROVE  LET p == job[r].msg
                 device == devices[job[r].deviceId]
             IN /\ p.op \in {"DEPLOY", "MINT", "MESSAGE", "CONFIG"}
                /\ p.op = "DEPLOY" => tokens[p.tick] = Null /\ DeployTermsError(p) = NoError
                /\ p.op = "MINT" => /\ tokens[p.tick] # Null /\ tokenRow[r] = tokens[p.tick]
                                    /\ p.amount > 0 /\ MintError(tokens[p.tick], p) = NoError
                /\ device # Null
                /\ row[r] = [device EXCEPT !.lastNonce = row[r].lastNonce]
  <2> DEFINE p == job[r].msg
  <2>1. DeviceHeld(r) /\ TokenHeld(r)
    BY <1>1 DEF RequestsOK, RequestOK
  <2>2. p \in Payloads /\ PayloadError(p) = NoError
    BY <1>1, InTransaction
  <2>3. p.op \in {"DEPLOY", "MINT", "MESSAGE", "CONFIG"}
    BY <2>1, <2>2, PayloadFields DEF TokenHeld
  <2>4. p.op = "DEPLOY" => DeployTermsError(p) = NoError
    BY <2>2 DEF PayloadError
  <2>5. p.op = "MINT" => p.amount > 0
    BY <2>2, PayloadFields DEF PayloadError, AmountError, NoError
  <2> QED
    BY <2>1, <2>3, <2>4, <2>5 DEF DeviceHeld, TokenHeld
<1>2. RequestsOK => ChecksHoldAtCommit
  BY <1>1 DEF ChecksHoldAtCommit
<1> QED
  BY <1>2, PostgresInvariant, PTL

\* No deploy, mint or transfer ever changes the terms of a deployed token on
\* PostgreSQL.
THEOREM PostgresTermsAreFinal == Spec => TermsAreFinal
BY PostgresImplementsLedger, LedgerTermsAreFinal

-----------------------------------------------------------------------------
\* Locks and connections: the inductive invariant.

\* What request q holds is what it needs where it is.
HoldsOK(q) ==
    /\ \A d \in DeviceIds : deviceLock[d] = q =>
          pc[q] \in Locking /\ job[q].deviceId = d
    /\ \A t \in Ticks : tokenLock[t] = q =>
          /\ pc[q] \in {"commit", "rollback"}
          /\ job[q].msg.op \in TokenOps /\ job[q].msg.tick = t
    /\ pc[q] \in Locking \ {"rollback"} => deviceLock[job[q].deviceId] = q
    /\ pc[q] = "commit" /\ job[q].msg.op \in TokenOps => tokenLock[job[q].msg.tick] = q
    /\ q \in clients <=> pc[q] \in Connected

PoolOK == clients \subseteq Requests /\ IsFiniteSet(clients) /\ Cardinality(clients) <= PoolSize

LocksInv == PoolOK /\ \A q \in Requests : HoldsOK(q)

\* Nothing that request q holds, and nothing of where it is, changes.
Untouched(q) ==
    /\ pc'[q] = pc[q] /\ job'[q] = job[q]
    /\ \A d \in DeviceIds : deviceLock'[d] = q <=> deviceLock[d] = q
    /\ \A t \in Ticks : tokenLock'[t] = q <=> tokenLock[t] = q
    /\ q \in clients' <=> q \in clients

LEMMA UntouchedHolds ==
    ASSUME RequestsOK, NEW q \in Requests, HoldsOK(q), Untouched(q)
    PROVE  HoldsOK(q)'
<1>1. pc[q] \in Locking => job[q] \in Jobs /\ job[q].deviceId \in DeviceIds
  BY JobFields DEF RequestsOK, RequestOK, Locking
<1>2. pc[q] = "commit" /\ job[q].msg.op \in TokenOps => job[q].msg.tick \in Ticks
  BY InTransaction, PayloadFields DEF TokenOps
<1> QED
  BY <1>1, <1>2 DEF HoldsOK, Untouched, Locking

\* The set of connections in use stays in the pool when one is returned, and
\* when one is taken that is free.
LEMMA PoolKeeps ==
    ASSUME PoolOK, NEW r \in Requests,
           \/ clients' \subseteq clients
           \/ clients' = clients \cup {r} /\ Cardinality(clients) < PoolSize
    PROVE  PoolOK'
<1>1. Cardinality(clients) \in Nat /\ PoolSize \in Nat
  BY FS_CardinalityType, PostgresAssumption DEF PoolOK
<1>2. CASE clients' \subseteq clients
  <2>1. IsFiniteSet(clients') /\ Cardinality(clients') <= Cardinality(clients)
    BY <1>2, FS_Subset DEF PoolOK
  <2>2. Cardinality(clients') \in Nat
    BY <2>1, FS_CardinalityType
  <2> QED
    BY <1>1, <1>2, <2>1, <2>2 DEF PoolOK
<1>3. CASE clients' = clients \cup {r} /\ Cardinality(clients) < PoolSize
  <2>1. /\ IsFiniteSet(clients \cup {r})
        /\ \/ Cardinality(clients \cup {r}) = Cardinality(clients)
           \/ Cardinality(clients \cup {r}) = Cardinality(clients) + 1
    BY FS_AddElement DEF PoolOK
  <2>2. Cardinality(clients \cup {r}) <= PoolSize
    BY <1>1, <1>3, <2>1
  <2> QED
    BY <1>3, <2>1, <2>2 DEF PoolOK
<1> QED
  BY <1>2, <1>3

-----------------------------------------------------------------------------
\* Steps that take and give back.

\* A step outside the transaction touches no lock.
LEMMA OutsideKeeps ==
    ASSUME RequestsOK, LocksInv, NEW r \in Requests,
           NEW label \in Labels \ Locking, pc' = [pc EXCEPT ![r] = label], pc[r] \notin Locking,
           \A q \in Requests \ {r} : job'[q] = job[q],
           UNCHANGED lockVars,
           \/ label \notin Connected /\ clients' = clients \ {r}
           \/ label \in Connected /\ pc[r] \in Connected /\ clients' = clients
           \/ /\ label \in Connected /\ clients' = clients \cup {r}
              /\ Cardinality(clients) < PoolSize
    PROVE  LocksInv'
<1>1. /\ \A d \in DeviceIds : deviceLock[d] # r
      /\ \A t \in Ticks : tokenLock[t] # r
  BY DEF LocksInv, HoldsOK, Locking
<1>2. pc'[r] = label /\ \A q \in Requests \ {r} : pc'[q] = pc[q]
  BY DEF RequestsOK, RowsTyped
<1>3. HoldsOK(r)'
  BY <1>1, <1>2 DEF LocksInv, HoldsOK, lockVars, Locking
<1>4. \A q \in Requests \ {r} : Untouched(q)
  BY <1>2 DEF Untouched, lockVars
<1>5. PoolOK'
  BY PoolKeeps DEF LocksInv
<1> QED
  BY <1>3, <1>4, <1>5, UntouchedHolds DEF LocksInv

LEMMA OutsideSteps ==
    ASSUME RequestsOK, LocksInv, NEW r \in Requests,
           \/ Arrive(r) \/ Checkout(r) \/ Respond(r) \/ SelectDevice(r) \/ RecordRejection(r)
           \/ LinkGetDevice(r) \/ LinkUpdateDevice(r) \/ LinkSaveNonce(r)
    PROVE  LocksInv'
<1> USE DEF Goto, Labels, Locking, Connected, Then
<1>1. r \in clients <=> pc[r] \in Connected
  BY DEF LocksInv, HoldsOK
<1>2. CASE Arrive(r)
  <2>1. \A q \in Requests \ {r} : job'[q] = job[q]
    BY <1>2 DEF Arrive, RequestsOK, RowsTyped
  <2>2. pc' = [pc EXCEPT ![r] = "client"] /\ pc[r] = "idle" /\ UNCHANGED lockVars
        /\ clients' = clients \ {r}
    BY <1>1, <1>2 DEF Arrive
  <2> QED
    BY <2>1, <2>2, OutsideKeeps
<1>3. CASE Checkout(r)
  <2>1. pc[r] \in {"client", "recordClient", "updateClient", "nonceClient"}
    BY <1>3 DEF Checkout
  <2>2. Then[pc[r]] \in {"select", "record", "update", "nonce"}
    BY <2>1
  <2>3. PICK label \in {"select", "record", "update", "nonce"} : pc' = [pc EXCEPT ![r] = label]
    BY <1>3, <2>2 DEF Checkout
  <2>4. /\ pc[r] \notin Locking /\ UNCHANGED <<job, lockVars>>
        /\ clients' = clients \cup {r} /\ Cardinality(clients) < PoolSize
    BY <1>3 DEF Checkout
  <2> QED
    BY <2>3, <2>4, OutsideKeeps
<1>4. CASE Respond(r)
  <2>1. \A q \in Requests \ {r} : job'[q] = job[q]
    BY <1>4 DEF Respond, RequestsOK, RowsTyped
  <2>2. pc' = [pc EXCEPT ![r] = "idle"] /\ pc[r] = "respond" /\ UNCHANGED lockVars
        /\ clients' = clients \ {r}
    BY <1>1, <1>4 DEF Respond
  <2> QED
    BY <2>1, <2>2, OutsideKeeps
<1>5. CASE SelectDevice(r)
  <2>1. /\ pc' = [pc EXCEPT ![r] = "device"] /\ pc[r] = "select"
        /\ UNCHANGED <<job, lockVars, clients>>
    BY <1>5 DEF SelectDevice
  <2> QED
    BY <2>1, OutsideKeeps
<1>6. CASE RecordRejection(r) \/ LinkGetDevice(r) \/ LinkUpdateDevice(r) \/ LinkSaveNonce(r)
  <2>1. PICK label \in {"respond", "updateClient", "nonceClient"} : pc' = [pc EXCEPT ![r] = label]
    BY <1>6 DEF RecordRejection, LinkGetDevice, LinkUpdateDevice, LinkSaveNonce
  <2>2. /\ pc[r] \notin Locking /\ UNCHANGED <<job, lockVars>> /\ clients' = clients \ {r}
    BY <1>6 DEF RecordRejection, LinkGetDevice, LinkUpdateDevice, LinkSaveNonce, lockVars
  <2> QED
    BY <2>1, <2>2, OutsideKeeps
<1> QED
  BY <1>2, <1>3, <1>4, <1>5, <1>6

\* A step inside the transaction takes locks that are free, for its request.
LEMMA InsideKeeps ==
    ASSUME RequestsOK, LocksInv, NEW r \in Requests, pc[r] \in Connected,
           NEW label \in Connected, pc' = [pc EXCEPT ![r] = label], UNCHANGED <<job, clients>>,
           \/ deviceLock' = deviceLock
           \/ \E d \in DeviceIds : /\ deviceLock[d] = Null
                                   /\ deviceLock' = [deviceLock EXCEPT ![d] = r],
           \/ tokenLock' = tokenLock
           \/ \E t \in Ticks : /\ tokenLock[t] = Null
                               /\ tokenLock' = [tokenLock EXCEPT ![t] = r],
           HoldsOK(r)'
    PROVE  LocksInv'
<1>1. \A q \in Requests : q # Null
  BY PostgresAssumption
<1>2. ASSUME NEW q \in Requests \ {r} PROVE Untouched(q)
  <2>1. pc'[q] = pc[q]
    BY DEF RequestsOK, RowsTyped
  <2>2. \A d \in DeviceIds : deviceLock'[d] = q <=> deviceLock[d] = q
    BY <1>1 DEF RequestsOK, RowsTyped
  <2>3. \A t \in Ticks : tokenLock'[t] = q <=> tokenLock[t] = q
    BY <1>1 DEF RequestsOK, RowsTyped
  <2> QED
    BY <2>1, <2>2, <2>3 DEF Untouched
<1>3. PoolOK'
  BY DEF PoolOK, LocksInv
<1>4. \A q \in Requests \ {r} : HoldsOK(q)'
  BY <1>2, UntouchedHolds DEF LocksInv
<1> QED
  BY <1>3, <1>4 DEF LocksInv

\* The end of a transaction gives back what it holds, and nothing else.
LEMMA EndHolds ==
    ASSUME RequestsOK, LocksInv, NEW r \in Requests, EndTransaction(r),
           NEW label \in {"respond", "recordClient"}, pc' = [pc EXCEPT ![r] = label],
           UNCHANGED job
    PROVE  LocksInv'
<1>1. \A q \in Requests : q # Null
  BY PostgresAssumption
<1>2. /\ pc'[r] = label /\ label \notin Connected /\ label \notin Locking
      /\ \A q \in Requests \ {r} : pc'[q] = pc[q]
  BY DEF RequestsOK, RowsTyped, Connected, Locking
<1>3. /\ \A d \in DeviceIds : deviceLock'[d] = IF deviceLock[d] = r THEN Null ELSE deviceLock[d]
      /\ \A t \in Ticks : tokenLock'[t] = IF tokenLock[t] = r THEN Null ELSE tokenLock[t]
  BY DEF EndTransaction, Free, RequestsOK, RowsTyped
<1>4. clients' = clients \ {r}
  BY DEF EndTransaction
<1>5. HoldsOK(r)'
  BY <1>1, <1>2, <1>3, <1>4 DEF HoldsOK, Locking
<1>6. \A q \in Requests \ {r} : Untouched(q)
  BY <1>1, <1>2, <1>3, <1>4 DEF Untouched
<1>7. PoolOK'
  BY <1>4, PoolKeeps DEF LocksInv
<1>8. \A q \in Requests \ {r} : HoldsOK(q)'
  BY <1>6, UntouchedHolds DEF LocksInv
<1> QED
  BY <1>5, <1>7, <1>8 DEF LocksInv

LEMMA EndingSteps ==
    ASSUME RequestsOK, LocksInv, NEW r \in Requests,
           Commit(r) \/ Rollback(r) \/ LoseConnection(r)
    PROVE  LocksInv'
<1>1. PICK label \in {"respond", "recordClient"} : pc' = [pc EXCEPT ![r] = label]
  BY DEF Commit, Rollback, LoseConnection, Goto, AfterLoss
<1>2. EndTransaction(r) /\ UNCHANGED job
  BY DEF Commit, Rollback, LoseConnection
<1> QED
  BY <1>1, <1>2, EndHolds

\* getDevice takes the row lock of a device that is there.
LEMMA GetDeviceTakes ==
    ASSUME RequestsOK, LocksInv, NEW r \in Requests, GetDevice(r)
    PROVE  LocksInv'
<1> DEFINE d == job[r].deviceId
           p == job[r].msg
           device == LockedRow(r)
           error == IF AuthError(device, d, p) # NoError THEN AuthError(device, d, p)
                    ELSE EarlyError(p)
           label == IF error # NoError THEN "rollback"
                    ELSE IF p.op \in TokenOps THEN "token" ELSE "commit"
<1>1. pc[r] = "device" /\ UNCHANGED <<job, clients, tokenLock>> /\ d \in DeviceIds
  BY JobFields DEF GetDevice, RequestsOK, RequestOK
<1>2. /\ \A c \in DeviceIds : deviceLock[c] # r
      /\ \A t \in Ticks : tokenLock[t] # r
      /\ r \in clients
  BY <1>1 DEF LocksInv, HoldsOK, Locking, Connected
<1>3. pc' = [pc EXCEPT ![r] = label] /\ label \in {"rollback", "token", "commit"}
  BY DEF GetDevice, Goto
<1>4. pc'[r] = label
  BY <1>3 DEF RequestsOK, RowsTyped
<1>5. CASE device = Null
  <2>1. AuthError(device, d, p) # NoError
    BY <1>5 DEF AuthError, NoError
  <2>2. label = "rollback" /\ deviceLock' = deviceLock
    BY <1>5, <2>1 DEF GetDevice
  <2>3. HoldsOK(r)'
    BY <1>1, <1>2, <1>4, <2>2 DEF HoldsOK, Locking, Connected
  <2> QED
    BY <1>1, <1>3, <2>2, <2>3, InsideKeeps DEF Connected, Locking
<1>6. CASE device # Null
  <2>1. deviceLock[d] = Null /\ deviceLock' = [deviceLock EXCEPT ![d] = r]
    BY <1>6 DEF GetDevice, DeviceRowFree, LockedRow
  <2>2. \A c \in DeviceIds : deviceLock'[c] = IF c = d THEN r ELSE deviceLock[c]
    BY <2>1 DEF RequestsOK, RowsTyped
  <2>3. label = "commit" => p.op \notin TokenOps
    OBVIOUS
  <2> HIDE DEF label
  <2>4. HoldsOK(r)'
    BY <1>1, <1>2, <1>3, <1>4, <2>2, <2>3 DEF HoldsOK, Locking, Connected
  <2> QED
    BY <1>1, <1>3, <2>1, <2>4, InsideKeeps DEF Connected, Locking
<1> QED
  BY <1>5, <1>6

\* getToken takes the row lock of a token that is there, createToken that of
\* the ticker it inserts.
LEMMA TokenSteps ==
    ASSUME RequestsOK, LocksInv, NEW r \in Requests, GetToken(r) \/ CreateToken(r)
    PROVE  LocksInv'
<1> DEFINE p == job[r].msg
           t == p.tick
<1>1. pc[r] \in {"token", "insert"} /\ UNCHANGED <<job, clients, deviceLock>>
  BY DEF GetToken, CreateToken
<1>2. p \in Payloads /\ p.op \in TokenOps /\ t \in Ticks
  BY <1>1, InTransaction, PayloadFields DEF RequestsOK, RequestOK, TokenOps
<1>3. /\ \A c \in Ticks : tokenLock[c] # r
      /\ r \in clients
      /\ deviceLock[job[r].deviceId] = r
      /\ \A d \in DeviceIds : deviceLock[d] = r => job[r].deviceId = d
  BY <1>1 DEF LocksInv, HoldsOK, Locking, Connected
<1>4. PICK label \in {"rollback", "insert", "commit"} : pc' = [pc EXCEPT ![r] = label]
  BY DEF GetToken, CreateToken, Goto
<1>5. pc'[r] = label
  BY <1>4 DEF RequestsOK, RowsTyped
<1>6. \/ tokenLock' = tokenLock /\ label # "commit"
      \/ /\ tokenLock[t] = Null /\ tokenLock' = [tokenLock EXCEPT ![t] = r]
         /\ label \in {"rollback", "commit"}
  <2>1. CASE GetToken(r)
    <3> DEFINE error == TokenError(tokens[t], job[r].deviceId, p)
    <3>1. label = IF error # NoError THEN "rollback"
                  ELSE IF p.op = "DEPLOY" THEN "insert" ELSE "commit"
      BY <1>5, <2>1 DEF GetToken, Goto, RequestsOK, RowsTyped
    <3>2. tokenLock' = IF tokens[t] = Null THEN tokenLock ELSE [tokenLock EXCEPT ![t] = r]
      BY <2>1 DEF GetToken
    <3>3. tokens[t] = Null \/ tokenLock[t] = Null
      BY <2>1 DEF GetToken
    <3>4. CASE tokens[t] = Null
      <4>1. p.op # "DEPLOY" => error # NoError
        BY <1>2, <3>4 DEF TokenError, MintError, NoError, TokenOps, NegativeInsert
      <4> QED
        BY <3>1, <3>2, <3>4, <4>1
    <3>5. CASE tokens[t] # Null
      <4>1. p.op = "DEPLOY" => error # NoError
        BY <1>2, <3>5 DEF TokenError, NoError
      <4> QED
        BY <3>1, <3>2, <3>3, <3>5, <4>1
    <3> QED
      BY <3>4, <3>5
  <2>2. CASE CreateToken(r)
    BY <1>4, <1>5, <2>2 DEF CreateToken, Goto, RequestsOK, RowsTyped
  <2> QED
    BY <2>1, <2>2
<1>7. HoldsOK(r)'
  <2>1. CASE tokenLock' = tokenLock /\ label # "commit"
    BY <1>1, <1>3, <1>4, <1>5, <2>1 DEF HoldsOK, Locking, Connected
  <2>2. CASE /\ tokenLock' = [tokenLock EXCEPT ![t] = r] /\ label \in {"rollback", "commit"}
    <3>1. \A c \in Ticks : tokenLock'[c] = IF c = t THEN r ELSE tokenLock[c]
      BY <2>2 DEF RequestsOK, RowsTyped
    <3> QED
      BY <1>1, <1>2, <1>3, <1>5, <2>2, <3>1 DEF HoldsOK, Locking, Connected
  <2> QED
    BY <1>6, <2>1, <2>2
<1> QED
  BY <1>1, <1>2, <1>4, <1>6, <1>7, InsideKeeps DEF Connected, Locking

-----------------------------------------------------------------------------
\* The theorem about locks.

LEMMA LocksInvInit == Init => LocksInv
<1> SUFFICES ASSUME Init PROVE LocksInv
  OBVIOUS
<1>1. PoolOK
  BY FS_EmptySet, PostgresAssumption DEF Init, PoolOK
<1>2. \A q \in Requests : HoldsOK(q)
  BY PostgresAssumption DEF Init, HoldsOK, Locking, Connected
<1> QED
  BY <1>1, <1>2 DEF LocksInv

LEMMA LocksInvStep == RequestsOK /\ LocksInv /\ [Next]_vars => LocksInv'
<1> SUFFICES ASSUME RequestsOK, LocksInv, [Next]_vars PROVE LocksInv'
  OBVIOUS
<1>1. CASE \E r \in Requests : Arrive(r) \/ Progress(r) \/ LoseConnection(r)
  BY <1>1, OutsideSteps, EndingSteps, GetDeviceTakes, TokenSteps DEF Progress
<1>2. CASE Crash
  <2>1. PoolOK'
    BY <1>2, FS_EmptySet, PostgresAssumption DEF Crash, PoolOK
  <2>2. \A q \in Requests : HoldsOK(q)'
    BY <1>2, PostgresAssumption DEF Crash, HoldsOK, Locking, Connected
  <2> QED
    BY <2>1, <2>2 DEF LocksInv
<1>3. CASE Register \/ UNCHANGED vars
  <2>1. UNCHANGED <<pc, job, deviceLock, tokenLock, clients>>
    BY <1>3 DEF Register, vars, requestVars, lockVars
  <2> QED
    BY <2>1 DEF LocksInv, PoolOK, HoldsOK
<1> QED
  BY <1>1, <1>2, <1>3 DEF Next

LEMMA LocksInvAlways == Spec => []LocksInv
BY LocksInvInit, LocksInvStep, PostgresInvariant, PTL DEF Spec

\* Locks and connections are held by the transactions that need them and by
\* nobody else, whatever is refused, breaks or dies.
THEOREM PostgresLocksFollow == Spec => []LocksFollowTransactions
<1>1. RequestsOK /\ LocksInv => LocksFollowTransactions
  <2> SUFFICES ASSUME RequestsOK, LocksInv PROVE LocksFollowTransactions
    OBVIOUS
  <2>1. ASSUME NEW d \in DeviceIds, deviceLock[d] # Null
        PROVE  pc[deviceLock[d]] \in Locking /\ job[deviceLock[d]].deviceId = d
    BY <2>1 DEF RequestsOK, RowsTyped, LocksInv, HoldsOK
  <2>2. ASSUME NEW t \in Ticks, tokenLock[t] # Null
        PROVE  /\ pc[tokenLock[t]] \in {"commit", "rollback"}
               /\ job[tokenLock[t]].msg.op \in TokenOps
               /\ job[tokenLock[t]].msg.tick = t
    BY <2>2 DEF RequestsOK, RowsTyped, LocksInv, HoldsOK
  <2>3. clients = {r \in Requests : pc[r] \in Connected}
    BY DEF LocksInv, PoolOK, HoldsOK
  <2> QED
    BY <2>1, <2>2, <2>3 DEF LocksFollowTransactions, LocksInv, PoolOK, HoldsOK
<1> QED
  BY <1>1, LocksInvAlways, PostgresInvariant, PTL
=============================================================================
