------------------------------- MODULE Server -------------------------------
(***************************************************************************)
(* The running process: HTTP requests of clients that may leave before     *)
(* they are answered, the router's calls of the service, the pool of       *)
(* database clients, and the shutdown on a signal.  Every wait for the     *)
(* pool or the database is a point where the others go on: the webhook     *)
(* looks a device up and then ingests, a transaction reads the nonce and   *)
(* then waits for the device row, a refusal is recorded afterwards, a link *)
(* takes five statements.  What a transaction does once it has the device  *)
(* row is one step (PostgresIndexer has its statements).                   *)
(***************************************************************************)
EXTENDS Indexer

CONSTANTS
    MaxRequests, \* bound on the requests that ever arrive
    Calls,       \* what a request may ask for
    Databases,   \* the devices tables the process may start on
    PoolSize,    \* clients of the pool (10 by default)
    MaxStoredInterval  \* largest value of an INTEGER column (2^31 - 1)

\* "stray": whatever is answered before the store is asked: another event of
\* the integration, a wrong token, a body that does not parse.
Call ==
    [route : {"stray"}]
    \cup [route : {"register", "link"}, device : DeviceIds, devEui : DevEuis]
    \cup [route : {"uplink"}, device : DeviceIds, msg : Payloads]
    \cup [route : {"webhook"}, devEui : DevEuis, msg : Payloads]

ASSUME ServerAssumption ==
    /\ Calls \subseteq Call
    /\ Databases \subseteq [DeviceIds -> {Null} \cup {NewDevice(e) : e \in DevEuis \cup {Null}}]
    /\ \A db \in Databases : \A d, c \in DeviceIds :
          (db[d] # Null /\ db[c] # Null /\ db[d].devEui = db[c].devEui) =>
              d = c \/ db[d].devEui = Null
    /\ PoolSize \in Nat \ {0} /\ MaxStoredInterval \in Nat
    /\ MaxRequests \in 0..MaxEvents
    /\ Null # "internal_error"

\* Requests are numbered as they arrive.
Requests == 1..MaxRequests

VARIABLES
    request,    \* request[r]: its call, its stage, the device it is about, the
                \* row of that device it has read, its reply
    conn,       \* conn[r]: its connection: "waiting" for the answer, "kept" alive, "gone"
    listener,   \* the HTTP server: "listening", "closing", "closed"
    notRunning, \* a second close waits to be told that the server is not running
    pool,       \* "open", "ending"
    exit        \* "running", or the exit code

processVars == <<listener, notRunning, pool, exit>>
serverVars == <<storeVars, request, conn, processVars>>

Stages == {"none", "received", "found", "begun", "selected", "refused",
           "linkRead", "linkUpdated", "linkSaved", "finished"}

NoRequest == [call |-> Null, stage |-> "none", device |-> Null, row |-> Null, reply |-> Null]

\* The database may hold devices, linked or not, when the process starts.
ServerInit ==
    /\ LedgerInit /\ TableInit
    /\ devices \in Databases
    /\ request = [r \in Requests |-> NoRequest]
    /\ conn = [r \in Requests |-> "gone"]
    /\ listener = "listening" /\ notRunning = FALSE
    /\ pool = "open" /\ exit = "running"

-----------------------------------------------------------------------------
\* Helpers.

At(r, stage) == exit = "running" /\ request[r].stage = stage
Route(r) == request[r].call.route

\* sendJson, in the same turn as the last answer of the store.  The connection
\* stays open for another request.
Replies(r, reply) ==
    /\ request' = [request EXCEPT ![r].stage = "finished", ![r].reply = reply]
    /\ conn' = [conn EXCEPT ![r] = IF @ = "waiting" THEN "kept" ELSE @]

\* (mutant) the client of a refused transaction is not given back
HeldTooLong == {r \in Requests : request[r].stage \in {"begun", "selected", "refused"}}

\* Requests that have a client of the pool from one step to the next.
Held == {r \in Requests : request[r].stage \in {"begun", "selected"}}

\* (mutant) the pool has no limit
ClientFreeAlways == pool = "open"

\* pool.connect, also within pool.query: one request at a time gets a client.
ClientFree == pool = "open" /\ Cardinality(Held) < PoolSize

-----------------------------------------------------------------------------
\* Clients and connections.

\* An uplink and a link name the device themselves; the webhook asks the store.
Arrived(call) ==
    IF call.route \in {"uplink", "link"}
    THEN [NoRequest EXCEPT !.call = call, !.stage = "found", !.device = call.device]
    ELSE [NoRequest EXCEPT !.call = call, !.stage = "received"]

\* A request has arrived whole: on a new connection, or, once the server is
\* closing, on one that was kept alive.
Receive(r, call) ==
    /\ At(r, "none") /\ \A q \in 1..(r - 1) : request[q].stage # "none"
    /\ request' = [request EXCEPT ![r] = Arrived(call)]
    /\ \/ /\ listener = "listening"
          /\ conn' = [conn EXCEPT ![r] = "waiting"]
       \/ /\ listener = "closing"
          /\ \E q \in Requests : conn[q] = "kept"
                /\ conn' = [conn EXCEPT ![q] = "gone", ![r] = "waiting"]
    /\ UNCHANGED <<storeVars, processVars>>

\* The client closes its connection.  The handler goes on.
Leave(r) ==
    /\ exit = "running" /\ conn[r] = "waiting"
    /\ conn' = [conn EXCEPT ![r] = "gone"]
    /\ UNCHANGED <<storeVars, request, processVars>>

\* An idle connection is closed by either side, at keepAliveTimeout at the latest.
IdleEnds(r) ==
    /\ exit = "running" /\ conn[r] = "kept"
    /\ conn' = [conn EXCEPT ![r] = "gone"]
    /\ UNCHANGED <<storeVars, request, processVars>>

-----------------------------------------------------------------------------
\* The routes.

Stray(r) ==
    /\ At(r, "received") /\ Route(r) = "stray"
    /\ Replies(r, "ignored")
    /\ UNCHANGED <<storeVars, processVars>>

\* POST /devices/register.
Register(r) ==
    LET call == request[r].call
    IN /\ At(r, "received") /\ Route(r) = "register" /\ ClientFree
       /\ \/ RegisterDevice(call.device, call.devEui) /\ Replies(r, "done")
          \/ /\ devices[call.device] # Null \/ ~DevEuiFree(call.device, call.devEui)
             /\ Replies(r, "conflict")
             /\ UNCHANGED storeVars
       /\ UNCHANGED processVars

\* getDeviceByLorawanDevEui.
LinkedTo(devEui) == {d \in DeviceIds : devices[d] # Null /\ devices[d].devEui = devEui}

\* POST /integrations/chirpstack: the device linked to the DevEUI by now.
Lookup(r) ==
    LET linked == LinkedTo(request[r].call.devEui)
    IN /\ At(r, "received") /\ Route(r) = "webhook" /\ ClientFree
       /\ \/ /\ linked = {} /\ Replies(r, "lorawan_device_not_linked")
          \/ \E d \in linked :
                /\ request' = [request EXCEPT ![r].stage = "found", ![r].device = d]
                /\ UNCHANGED conn
       /\ UNCHANGED <<storeVars, processVars>>

-----------------------------------------------------------------------------
\* getDevice ... FOR UPDATE OF d, the first statement of an uplink's transaction
\* and of a link.

\* pool.connect, and BEGIN.
Begin(r) ==
    /\ At(r, "found") /\ ClientFree
    /\ request' = [request EXCEPT ![r].stage = "begun"]
    /\ UNCHANGED <<storeVars, conn, processVars>>

\* The statement begins: its snapshot is taken now.
SelectDevice(r) ==
    /\ At(r, "begun")
    /\ request' = [request EXCEPT ![r].stage = "selected",
                                  ![r].row = devices[request[r].device]]
    /\ UNCHANGED <<storeVars, conn, processVars>>

\* What it returns when it has the row's lock: the newest row, with the nonce of
\* the snapshot.
LockedRow(r) ==
    IF request[r].row = Null THEN Null
    ELSE [devices[request[r].device] EXCEPT !.lastNonce = request[r].row.lastNonce]

-----------------------------------------------------------------------------
\* ingestUplink.

\* What PostgreSQL refuses although the rules allow it: the negative row of a
\* transfer's debit, and an interval its column cannot hold.
StoreError(p) ==
    IF p.op = "TRANSFER" THEN "23514"
    ELSE IF p.op = "CONFIG" /\ p.enabled /\ p.interval > MaxStoredInterval THEN "22003"
    ELSE NoError

\* The first error of r's transaction.
TransactionError(r) ==
    LET d == request[r].device
        p == request[r].call.msg
        auth == AuthError(LockedRow(r), d, p)
    IN IF auth # NoError THEN auth
       ELSE IF RuleError(d, p) # NoError THEN RuleError(d, p)
       ELSE StoreError(p)

\* The transaction commits, or it rolls back; either way the client is released.
Commit(r) ==
    /\ At(r, "selected") /\ Route(r) # "link"
    /\ TransactionError(r) = NoError
    /\ ApplyOperation(request[r].device, request[r].call.msg)
    /\ Replies(r, "accepted")
    /\ UNCHANGED processVars

Rollback(r) ==
    /\ At(r, "selected") /\ Route(r) # "link"
    /\ TransactionError(r) # NoError
    /\ request' = [request EXCEPT ![r].stage = "refused", ![r].reply = TransactionError(r)]
    /\ UNCHANGED <<storeVars, conn, processVars>>

\* (mutant) a refusal nobody waits for any more is not recorded
RecordRefusalIfWaiting(r) ==
    /\ At(r, "refused") /\ ClientFree
    /\ IF conn[r] = "waiting"
       THEN AppendEvent("rejected", request[r].reply, request[r].device, request[r].call.msg)
       ELSE UNCHANGED <<events, recorded>>
    /\ Replies(r, request[r].reply)
    /\ UNCHANGED <<devices, tokens, balances, processVars>>

\* The catch of ingestUplink, on a client of its own.
RecordRefusal(r) ==
    /\ At(r, "refused") /\ ClientFree
    /\ AppendEvent("rejected", request[r].reply, request[r].device, request[r].call.msg)
    /\ Replies(r, request[r].reply)
    /\ UNCHANGED <<devices, tokens, balances, processVars>>

-----------------------------------------------------------------------------
\* linkLorawanDevEui: every statement is a transaction of its own, on whatever
\* client the pool gives.

LinkGetDevice(r) ==
    /\ At(r, "selected") /\ Route(r) = "link"
    /\ IF LockedRow(r) = Null
       THEN Replies(r, "conflict")
       ELSE /\ request' = [request EXCEPT ![r].stage = "linkRead", ![r].row = LockedRow(r)]
            /\ UNCHANGED conn
    /\ UNCHANGED <<storeVars, processVars>>

\* saveDevice, UPDATE devices: every column but the nonce, under the unique
\* index on the DevEUI.
LinkUpdateDevice(r) ==
    LET d == request[r].device
        devEui == request[r].call.devEui
    IN /\ At(r, "linkRead") /\ ClientFree
       /\ IF DevEuiFree(d, devEui)
          THEN /\ devices' = [devices EXCEPT ![d] =
                      [request[r].row EXCEPT !.devEui = devEui, !.lastNonce = devices[d].lastNonce]]
               /\ request' = [request EXCEPT ![r].stage = "linkUpdated"]
               /\ UNCHANGED conn
          ELSE UNCHANGED devices /\ Replies(r, "conflict")
       /\ UNCHANGED <<tokens, balances, events, recorded, processVars>>

\* saveDevice, INSERT INTO device_nonces ... DO UPDATE: the nonce that was read.
LinkSaveNonce(r) ==
    /\ At(r, "linkUpdated") /\ ClientFree
    /\ devices' = [devices EXCEPT ![request[r].device].lastNonce = request[r].row.lastNonce]
    /\ request' = [request EXCEPT ![r].stage = "linkSaved"]
    /\ UNCHANGED <<tokens, balances, events, recorded, conn, processVars>>

\* saveDevice's last getDevice, and the answer.
LinkAnswer(r) ==
    /\ At(r, "linkSaved") /\ ClientFree
    /\ Replies(r, "done")
    /\ UNCHANGED <<storeVars, processVars>>

-----------------------------------------------------------------------------

\* A pool that is ending gives no client.  Who asks now gets an error, and the
\* router answers 500; who was in the queue waits for good.
PoolRefuses(r) ==
    /\ pool = "ending"
    /\ \/ At(r, "received") /\ Route(r) \in {"register", "webhook"}
       \/ \E stage \in {"found", "refused", "linkRead", "linkUpdated", "linkSaved"} : At(r, stage)
    /\ Replies(r, "internal_error")
    /\ UNCHANGED <<storeVars, processVars>>

Handle(r) ==
    \/ Stray(r)  \/ Register(r)  \/ Lookup(r)
    \/ Begin(r)  \/ SelectDevice(r)
    \/ Commit(r)  \/ Rollback(r)  \/ RecordRefusal(r)
    \/ LinkGetDevice(r)  \/ LinkUpdateDevice(r)  \/ LinkSaveNonce(r)  \/ LinkAnswer(r)

-----------------------------------------------------------------------------
\* Shutdown.

\* SIGINT or SIGTERM.  The first stops the listener and closes the idle
\* connections.  Another one finds no listener to stop and waits to be told so
\* at the same 'close' event, or is told at once when that has been.
Signal ==
    /\ exit = "running"
    /\ \/ /\ listener = "listening"
          /\ listener' = "closing"
          /\ conn' = [r \in Requests |-> IF conn[r] = "kept" THEN "gone" ELSE conn[r]]
          /\ UNCHANGED <<notRunning, exit>>
       \/ /\ listener = "closing"
          /\ notRunning' = TRUE
          /\ UNCHANGED <<listener, conn, exit>>
       \/ /\ listener = "closed"
          /\ exit' = "1"
          /\ UNCHANGED <<listener, conn, notRunning>>
    /\ UNCHANGED <<storeVars, request, pool>>

\* (mutant) the store is closed as soon as nothing new is accepted
DrainedOfIdle == \A r \in Requests : conn[r] # "kept"

Drained == \A r \in Requests : conn[r] = "gone"

\* The 'close' event: the first callback calls store.close, which is pool.end;
\* a second one exits in the same turn.
ServerCloses ==
    /\ exit = "running" /\ listener = "closing" /\ Drained
    /\ listener' = "closed"
    /\ pool' = "ending"
    /\ exit' = IF notRunning THEN "1" ELSE exit
    /\ UNCHANGED <<storeVars, request, conn, notRunning>>

\* pool.end is done when every client was given back.
PoolEnds ==
    /\ exit = "running" /\ pool = "ending" /\ Held = {}
    /\ exit' = "0"
    /\ UNCHANGED <<storeVars, request, conn, listener, notRunning, pool>>

ServerNext ==
    \/ \E r \in Requests :
          \/ \E call \in Calls : Receive(r, call)
          \/ Leave(r) \/ IdleEnds(r)
          \/ Handle(r) \/ PoolRefuses(r)
    \/ Signal \/ ServerCloses \/ PoolEnds

\* The event loop runs every handler on, the pool serves its queue in order,
\* the database answers, idle connections time out.  No client has to leave,
\* no signal has to come.
ServerFairness ==
    /\ \A r \in Requests : WF_serverVars(Handle(r)) /\ WF_serverVars(IdleEnds(r))
    /\ WF_serverVars(ServerCloses) /\ WF_serverVars(PoolEnds)

ServerSpec == ServerInit /\ [][ServerNext]_serverVars /\ ServerFairness

-----------------------------------------------------------------------------
\* Properties.

Replied == Reasons \cup StoreErrors \cup
               {"accepted", "ignored", "done", "conflict",
                "lorawan_device_not_linked", "internal_error", Null}

ServerTypeOK ==
    /\ StoreTypeOK
    /\ request \in [Requests -> [call : Calls \cup {Null}, stage : Stages,
                                 device : DeviceIds \cup {Null},
                                 row : Device \cup {Null}, reply : Replied]]
    /\ conn \in [Requests -> {"waiting", "kept", "gone"}]
    /\ listener \in {"listening", "closing", "closed"} /\ notRunning \in BOOLEAN
    /\ pool \in {"open", "ending"}
    /\ exit \in {"running", "0", "1"}
    /\ Cardinality(Held) <= PoolSize

\* Shutting down, once or twice signalled, cuts no client off: the process does
\* not end while somebody waits for an answer, and nobody who waits is refused
\* for the store having been closed.
NoClientCutOff ==
    \A r \in Requests : conn[r] = "waiting" =>
        exit = "running" /\ request[r].reply # "internal_error"

RowsOf(d, p, status) == {e \in events : e.deviceId = d /\ e.msg = p /\ e.status = status}

\* The answers of the uplinks that are decided so.
Answers(status) == IF status = "accepted" THEN {"accepted"} ELSE Reasons \cup StoreErrors

DecidedAs(d, p, status) ==
    {r \in Requests : /\ request[r].stage = "finished"
                      /\ request[r].reply \in Answers(status)
                      /\ request[r].device = d /\ request[r].call.msg = p}

\* "Rejected transactions are recorded" and accepted ones too, once each: the
\* rows on record are those of the uplinks that were decided, one row per
\* uplink, whether its client waited for the answer or not and however often a
\* payload was delivered.  Only messages may have left the log since.
OneRowPerUplink ==
    \A d \in DeviceIds, p \in Payloads, status \in {"accepted", "rejected"} :
        LET rows == Cardinality(RowsOf(d, p, status))
            decided == Cardinality(DecidedAs(d, p, status))
        IN rows <= decided /\ (p.op # "MESSAGE" => rows = decided)

\* Through whatever link a payload was delivered, while links move under the
\* webhook and are half done, a registered device's row changes for nobody else:
\* only in the steps of a link request for it, and when an uplink commits that it
\* signed itself.
UplinksActForSigner ==
    [][\A d \in DeviceIds : (devices[d] # Null /\ devices'[d] # devices[d]) =>
         \E r \in Requests :
            /\ request[r].device = d
            /\ \/ LinkUpdateDevice(r) \/ LinkSaveNonce(r)
               \/ Commit(r) /\ request[r].call.msg.signer = d]_serverVars

\* A signal ends the process, although clients may have left handlers behind and
\* connections may carry a request more.
ShutdownEnds == (listener # "listening") ~> (exit # "running")
=============================================================================
