---------------------------- MODULE MemoryIndexer ----------------------------
(***************************************************************************)
(* IndexerService on MemoryStore: one thread, and every `await` a point    *)
(* where the requests of the same macrotask (sent together on one          *)
(* connection, or called together by the program that embeds the service)  *)
(* take turns.  The continuations wait in the microtask queue, first in    *)
(* first out, and it is empty before the next macrotask begins.  The store *)
(* hands out its own objects, and nothing is rolled back.                  *)
(***************************************************************************)
EXTENDS Protocol, Sequences

CONSTANTS
    ChatSoftLimit, MaxEvents,  \* as in Store
    Registrations,             \* what may be registered: [deviceId, devEui]
    Links,                     \* the link requests that may come: the same
    Together,                  \* payloads that may share their macrotask
    Overlap,                   \* whether requests of one device may share it
    MaxBatch                   \* bound on the requests of a macrotask

ASSUME MemoryAssumption ==
    /\ Registrations \subseteq [deviceId : DeviceIds, devEui : DevEuis \cup {Null}]
    /\ Links \subseteq [deviceId : DeviceIds, devEui : DevEuis]
    /\ Together \subseteq Payloads /\ Overlap \in BOOLEAN
    /\ MaxBatch \in Nat \ {0} /\ ChatSoftLimit \in Nat /\ MaxEvents \in Nat

VARIABLES
    devices, balances, events, recorded,  \* as in Store
    objects,   \* every token object ever created, also those nobody can reach
    tokenAt,   \* tokenAt[t]: the object the tokens map has for t, or 0
    queue      \* the microtask queue

\* The tokens map, with the objects it leads to.
tokens == [t \in Ticks |-> IF tokenAt[t] = 0 THEN Null ELSE objects[tokenAt[t]]]

S == INSTANCE Store

tokenVars == <<objects, tokenAt>>
vars == <<devices, balances, events, recorded, tokenVars, queue>>

Jobs == [kind : {"ingest"}, deviceId : DeviceIds, msg : Payloads]
        \cup [kind : {"link"}, deviceId : DeviceIds, devEui : DevEuis]

\* The calls that may come: any payload under any device id, and the links.
Calls == {job \in Jobs : job.kind = "link" =>
                            [deviceId |-> job.deviceId, devEui |-> job.devEui] \in Links}

\* A continuation: where the request goes on, and what it has read so far: the
\* token object, the sender's balance, the error it ends with.
Continuation == [at : {"start", "token", "recipient", "debit", "credit", "save",
                       "append", "reject"},
                 job : Jobs, token : Nat, funds : Int, reason : Reasons \cup S!StoreErrors]

Called(job) == [at |-> "start", job |-> job, token |-> 0, funds |-> 0, reason |-> NoError]

Init ==
    /\ objects = <<>> /\ tokenAt = [t \in Ticks |-> 0]
    /\ S!StoreInit
    /\ queue = <<>>

-----------------------------------------------------------------------------
\* The event loop.

RegisterDevice ==
    /\ queue = <<>>
    /\ UNCHANGED <<tokenVars, queue>>
    /\ \E x \in Registrations : S!RegisterDevice(x.deviceId, x.devEui)

\* A request of the macrotask that is beginning.
Arrive ==
    /\ Len(queue) < MaxBatch
    /\ recorded + Len(queue) < MaxEvents
    /\ \E job \in Calls :
          /\ \A i \in DOMAIN queue :
                /\ queue[i].at = "start"
                /\ Overlap \/ queue[i].job.deviceId # job.deviceId
                /\ \A other \in {job, queue[i].job} :
                      other.kind = "ingest" => other.msg \in Together
          /\ queue' = Append(queue, Called(job))
    /\ UNCHANGED <<devices, balances, events, recorded, tokenVars>>

\* More awaits before the service is called (the body, the DevEUI's device) or
\* on an exception's way out, than the others have.
Wait ==
    /\ Len(queue) > 1
    /\ Head(queue).at \in {"start", "reject"}
    /\ queue' = Append(Tail(queue), Head(queue))
    /\ UNCHANGED <<devices, balances, events, recorded, tokenVars>>

\* The request at the head reaches its next await, or ends.
AwaitAs(c) == queue' = Append(Tail(queue), c)
Await(label) == AwaitAs([Head(queue) EXCEPT !.at = label])
Throw(code) == AwaitAs([Head(queue) EXCEPT !.at = "reject", !.reason = code])
Return == queue' = Tail(queue)

Running(label, kind) ==
    queue # <<>> /\ Head(queue).at = label /\ Head(queue).job.kind = kind

-----------------------------------------------------------------------------
\* ingestUplink.

\* The handler has changed the device object, which is the store's; saveDevice
\* then finds that another device has its DevEUI, or not.
SaveDevice(d, device) ==
    /\ devices' = [devices EXCEPT ![d] = device]
    /\ IF device.devEui = Null \/ S!DevEuiFree(d, device.devEui)
       THEN Await("append")
       ELSE Throw("lorawan_dev_eui_already_registered")

\* After getDevice: the checks, and the handler up to its first await.
Begin ==
    LET c == Head(queue)
        d == c.job.deviceId
        p == c.job.msg
        error == IF AuthError(devices[d], d, p) # NoError THEN AuthError(devices[d], d, p)
                 ELSE PayloadError(p)
    IN /\ Running("start", "ingest")
       /\ CASE error # NoError -> Throw(error) /\ UNCHANGED devices
            [] error = NoError /\ p.op \in {"DEPLOY", "MINT", "TRANSFER"} ->
                 AwaitAs([c EXCEPT !.at = "token", !.token = tokenAt[p.tick]])
                 /\ UNCHANGED devices
            [] error = NoError /\ p.op = "MESSAGE" /\ p.recipient # PublicChat ->
                 Await("recipient") /\ UNCHANGED devices
            [] error = NoError /\ p.op = "MESSAGE" /\ p.recipient = PublicChat ->
                 SaveDevice(d, AcceptNonce(devices[d], p))
            [] error = NoError /\ p.op = "CONFIG" ->
                 SaveDevice(d, ApplyConfig(devices[d], p))
       /\ UNCHANGED <<balances, events, recorded, tokenVars>>

\* (mutant) the map is not asked whether the ticker is taken
CreateAnyToken ==
    LET c == Head(queue)
        p == c.job.msg
    IN /\ Running("token", "ingest") /\ p.op = "DEPLOY"
       /\ objects' = Append(objects, NewToken(c.job.deviceId, p))
       /\ tokenAt' = [tokenAt EXCEPT ![p.tick] = Len(objects')]
       /\ Await("save")
       /\ UNCHANGED <<devices, balances, events, recorded>>

\* handleDeploy after getToken.
CreateToken ==
    LET c == Head(queue)
        p == c.job.msg
    IN /\ Running("token", "ingest") /\ p.op = "DEPLOY"
       /\ IF c.token # 0
          THEN Throw("token_already_exists") /\ UNCHANGED tokenVars
          ELSE /\ objects' = Append(objects, NewToken(c.job.deviceId, p))
               /\ tokenAt' = [tokenAt EXCEPT ![p.tick] = Len(objects')]
               /\ Await("save")
       /\ UNCHANGED <<devices, balances, events, recorded>>

\* handleMint after getToken: the rules, the token object and saveToken.
SaveToken ==
    LET c == Head(queue)
        p == c.job.msg
        error == MintError(IF c.token = 0 THEN Null ELSE objects[c.token], p)
    IN /\ Running("token", "ingest") /\ p.op = "MINT"
       /\ IF error # NoError
          THEN Throw(error) /\ UNCHANGED tokenVars
          ELSE /\ objects' = [objects EXCEPT ![c.token].totalSupply = @ + p.amount]
               /\ tokenAt' = [tokenAt EXCEPT ![p.tick] = c.token]
               /\ Await("credit")
       /\ UNCHANGED <<devices, balances, events, recorded>>

\* handleTransfer after getToken.
FindRecipient ==
    LET c == Head(queue)
    IN /\ Running("token", "ingest") /\ c.job.msg.op = "TRANSFER"
       /\ IF c.token = 0 THEN Throw("token_not_found") ELSE Await("recipient")
       /\ UNCHANGED <<devices, balances, events, recorded, tokenVars>>

\* handleTransfer and handleMessage after getDevice for the recipient.
CheckRecipient ==
    LET c == Head(queue)
        d == c.job.deviceId
        p == c.job.msg
    IN /\ Running("recipient", "ingest")
       /\ CASE devices[p.recipient] = Null ->
                 Throw("recipient_not_found") /\ UNCHANGED devices
            [] devices[p.recipient] # Null /\ p.op = "TRANSFER" ->
                 AwaitAs([c EXCEPT !.at = "debit", !.funds = balances[p.tick][d]])
                 /\ UNCHANGED devices
            [] devices[p.recipient] # Null /\ p.op = "MESSAGE" ->
                 SaveDevice(d, AcceptNonce(devices[d], p))
       /\ UNCHANGED <<balances, events, recorded, tokenVars>>

\* (mutant) the balance that was read is what the debit is taken from
DebitWhatWasRead ==
    LET c == Head(queue)
        p == c.job.msg
    IN /\ Running("debit", "ingest")
       /\ IF c.funds < p.amount
          THEN Throw("insufficient_balance") /\ UNCHANGED balances
          ELSE /\ balances' = [balances EXCEPT ![p.tick][c.job.deviceId] = c.funds - p.amount]
               /\ Await("credit")
       /\ UNCHANGED <<devices, events, recorded, tokenVars>>

\* (mutant) the balance is not compared with the amount
DebitUnchecked ==
    LET c == Head(queue)
        p == c.job.msg
    IN /\ Running("debit", "ingest")
       /\ balances' = [balances EXCEPT ![p.tick] = Debit(@, c.job.deviceId, p.amount)]
       /\ Await("credit")
       /\ UNCHANGED <<devices, events, recorded, tokenVars>>

\* handleTransfer after getBalance.
DebitSender ==
    LET c == Head(queue)
        p == c.job.msg
    IN /\ Running("debit", "ingest")
       /\ IF c.funds < p.amount
          THEN Throw("insufficient_balance") /\ UNCHANGED balances
          ELSE /\ balances' = [balances EXCEPT ![p.tick] = Debit(@, c.job.deviceId, p.amount)]
               /\ Await("credit")
       /\ UNCHANGED <<devices, events, recorded, tokenVars>>

\* The last addBalance of handleMint or handleTransfer.
CreditOwner ==
    LET c == Head(queue)
        p == c.job.msg
        owner == IF p.op = "MINT" THEN c.job.deviceId ELSE p.recipient
    IN /\ Running("credit", "ingest")
       /\ balances' = [balances EXCEPT ![p.tick] = Credit(@, owner, p.amount)]
       /\ Await("save")
       /\ UNCHANGED <<devices, events, recorded, tokenVars>>

\* lastNonce and saveDevice, once the ledger is written.
SaveNonce ==
    LET d == Head(queue).job.deviceId
    IN /\ Running("save", "ingest")
       /\ SaveDevice(d, AcceptNonce(devices[d], Head(queue).job.msg))
       /\ UNCHANGED <<balances, events, recorded, tokenVars>>

AppendAccepted ==
    /\ Running("append", "ingest")
    /\ S!AppendEvent("accepted", NoError, Head(queue).job.deviceId, Head(queue).job.msg)
    /\ Return
    /\ UNCHANGED <<devices, balances, tokenVars>>

AppendRejected ==
    /\ Running("reject", "ingest")
    /\ S!AppendEvent("rejected", Head(queue).reason, Head(queue).job.deviceId,
                     Head(queue).job.msg)
    /\ Return
    /\ UNCHANGED <<devices, balances, tokenVars>>

-----------------------------------------------------------------------------

\* linkLorawanDevEui after getDevice: the DevEUI is in the store's object before
\* saveDevice looks for another that has it, and stays there if it throws.
LinkLorawanDevEui ==
    LET job == Head(queue).job
    IN /\ Running("start", "link")
       /\ devices' = IF devices[job.deviceId] = Null THEN devices
                     ELSE [devices EXCEPT ![job.deviceId].devEui = job.devEui]
       /\ Return
       /\ UNCHANGED <<balances, events, recorded, tokenVars>>

Next ==
    \/ RegisterDevice \/ Arrive \/ Wait
    \/ Begin \/ CreateToken \/ SaveToken \/ FindRecipient \/ CheckRecipient
    \/ DebitSender \/ CreditOwner \/ SaveNonce
    \/ AppendAccepted \/ AppendRejected
    \/ LinkLorawanDevEui

Spec == Init /\ [][Next]_vars

-----------------------------------------------------------------------------
\* Properties.

MemoryTypeOK ==
    /\ devices \in [DeviceIds -> Device \cup {Null}]
    /\ tokens \in [Ticks -> Token \cup {Null}]
    /\ balances \in [Ticks -> [DeviceIds -> Int]]
    /\ recorded \in 0..MaxEvents /\ events \subseteq S!EventRow
    /\ \A i \in DOMAIN queue :
          queue[i] \in Continuation /\ queue[i].token <= Len(objects)

AtRest == queue = <<>>

\* The rows of uplinks whose effects stay: the accepted ones, and those that
\* saveDevice refused at the very end, for nothing is rolled back.
Effective(e) == e.status = "accepted" \/ e.reason = "lorawan_dev_eui_already_registered"

EffectiveOp(op, t) == {e \in events : Effective(e) /\ e.msg.op = op /\ e.msg.tick = t}

\* However the requests of a macrotask take turns, rival deploys and two debits
\* of one device among them, none of their updates is lost and none is made
\* twice: once they are done, a balance is what the effective rows say, a token is
\* one that a row deployed, and its supply is what the rows minted, or less when
\* rivals deployed the ticker and the mints went to several objects.
LedgerMatchesEffects ==
    AtRest => \A t \in Ticks :
        LET deploys == EffectiveOp("DEPLOY", t)
            minted == S!Moved(EffectiveOp("MINT", t))
        IN /\ tokens[t] = Null <=> deploys = {}
           /\ tokens[t] # Null =>
                /\ \E e \in deploys :
                      NewToken(e.deviceId, e.msg) = [tokens[t] EXCEPT !.totalSupply = 0]
                /\ tokens[t].totalSupply <= minted
                /\ Cardinality(deploys) = 1 => tokens[t].totalSupply = minted
           /\ \A d \in DeviceIds :
                 balances[t][d] =
                     S!Moved({e \in EffectiveOp("MINT", t) : e.deviceId = d})
                   + S!Moved({e \in EffectiveOp("TRANSFER", t) : e.msg.recipient = d})
                   - S!Moved({e \in EffectiveOp("TRANSFER", t) : e.deviceId = d})

\* The cap holds at every await, for the token object is checked and changed in
\* one piece.
SupplyCapped == S!SupplyCapped

\* The uplinks between the write of the deployed or minted token and their next
\* await.
WroteToken(c, t) ==
    /\ c.job.kind = "ingest" /\ c.job.msg.op \in {"DEPLOY", "MINT"} /\ c.job.msg.tick = t
    /\ c.at = IF c.job.msg.op = "DEPLOY" THEN "save" ELSE "credit"

TermsKept(t) ==
    /\ tokens'[t] # Null
    /\ [tokens'[t] EXCEPT !.totalSupply = 0] = [tokens[t] EXCEPT !.totalSupply = 0]
    /\ tokens'[t].totalSupply >= tokens[t].totalSupply

\* A deployed token is replaced by another object only while an uplink that wrote
\* the ticker's token is still under way: a deploy or a mint that comes after it
\* sees what it wrote.
ReplacedByRivalOnly ==
    [][\A t \in Ticks : tokens[t] # Null =>
         TermsKept(t) \/ \E i \in 2..Len(queue) : WroteToken(queue[i], t)]_vars

\* "rejects transfers when sender balance is insufficient" (a test): a sender's
\* debit takes his balance below zero only while another transfer of his has been
\* debited and has not gone on; a transfer on its own never does.
OverdraftTakesTwo ==
    [][\A t \in Ticks, d \in DeviceIds :
         (balances'[t][d] < balances[t][d] /\ balances'[t][d] < 0) =>
            \E i \in 2..Len(queue) :
               /\ queue[i].at = "credit" /\ queue[i].job.deviceId = d
               /\ queue[i].job.msg.op = "TRANSFER" /\ queue[i].job.msg.tick = t]_vars

\* A device's nonce is on record, whatever its requests did to each other: it is
\* that of the last uplink accepted for it, or of one that saveDevice refused;
\* and without such an uplink it has none (where no chat row has been pruned).
NonceSpentOnRecord ==
    (AtRest /\ Cardinality(events) = recorded) =>
        \A d \in DeviceIds : devices[d] # Null =>
            LET spent == {e \in events : Effective(e) /\ e.deviceId = d}
            IN IF spent = {} THEN devices[d].lastNonce = Null
               ELSE \E e \in spent :
                      /\ e.msg.nonce = devices[d].lastNonce
                      /\ e.status = "accepted" => \A f \in S!Accepted(d) : f.at <= e.at

\* "`nonce` advances only on accepted transactions ... they do not burn the
\* sender nonce" (README): a device's nonce is that of the last event accepted
\* for it (where no chat row has been pruned).
NonceIsOfLastAccepted ==
    AtRest => \A d \in DeviceIds : devices[d] # Null =>
        IF S!Accepted(d) = {} THEN devices[d].lastNonce = Null
        ELSE \E e \in S!Accepted(d) : /\ e.msg.nonce = devices[d].lastNonce
                                     /\ \A f \in S!Accepted(d) : f.at <= e.at
=============================================================================
