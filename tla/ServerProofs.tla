---------------------------- MODULE ServerProofs -----------------------------
(***************************************************************************)
(* The running process, for any number of requests, any pool and any       *)
(* signals: the store's promises survive the gaps between a request's      *)
(* statements, nobody's device changes for another, and a shutdown cuts no *)
(* waiting client off.  Until it is over the process can always go on, and *)
(* no handler goes back.                                                   *)
(***************************************************************************)
EXTENDS Server, IndexerProofs

-----------------------------------------------------------------------------
\* Requests.

RequestRecord ==
    [call : Calls \cup {Null}, stage : Stages, device : DeviceIds \cup {Null},
     row : Device \cup {Null}, reply : Replied]

Refusals == Reasons \cup StoreErrors

LinkStages == {"linkRead", "linkUpdated", "linkSaved"}

\* What is known of a request at its stage.
RequestOK(q) ==
    /\ q \in RequestRecord
    /\ q.stage # "none" => q.call \in Calls
    /\ q.stage = "received" => q.row = Null
    /\ q.stage \in {"found", "begun", "selected"} =>
          q.device \in DeviceIds /\ q.call.route \in {"uplink", "webhook", "link"}
    /\ q.stage = "refused" =>
          /\ q.device \in DeviceIds /\ q.call.route \in {"uplink", "webhook"}
          /\ q.reply \in Refusals
    /\ q.stage \in LinkStages =>
          q.device \in DeviceIds /\ q.call.route = "link" /\ q.row # Null

RequestsOK ==
    /\ request \in [Requests -> RequestRecord]
    /\ \A r \in Requests : RequestOK(request[r])

\* Who has read a row has read one of a device that is there.
KnownRow(q) == q.row # Null => q.device \in DeviceIds /\ devices[q.device] # Null

RowsKnown == \A r \in Requests : KnownRow(request[r])

\* The fields a call has, by route.
LEMMA CallFields ==
    ASSUME NEW c \in Calls
    PROVE  /\ c.route \in {"stray", "register", "link", "uplink", "webhook"}
           /\ c.route \in {"register", "link"} => c.device \in DeviceIds /\ c.devEui \in DevEuis
           /\ c.route = "uplink" => c.device \in DeviceIds /\ c.msg \in Payloads
           /\ c.route = "webhook" => c.devEui \in DevEuis /\ c.msg \in Payloads
<1>1. c \in Call
  BY ServerAssumption
<1> QED
  BY <1>1 DEF Call

\* A transaction that has its row is an uplink's, with a payload.
LEMMA SelectedUplink ==
    ASSUME RequestsOK, NEW r \in Requests,
           \/ At(r, "selected") /\ Route(r) # "link"
           \/ At(r, "refused")
    PROVE  request[r].device \in DeviceIds /\ request[r].call.msg \in Payloads
<1>1. /\ request[r].call \in Calls /\ request[r].device \in DeviceIds
      /\ request[r].call.route \in {"uplink", "webhook"}
  BY DEF At, Route, RequestsOK, RequestOK
<1> QED
  BY <1>1, CallFields

\* What refuses an uplink is one of the codes.
LEMMA RefusalCodes ==
    ASSUME NEW r \in Requests, request[r].device \in DeviceIds, request[r].call.msg \in Payloads
    PROVE  TransactionError(r) \in Refusals
<1> DEFINE d == request[r].device
           p == request[r].call.msg
<1>1. AuthError(LockedRow(r), d, p) \in Reasons
  BY DEF AuthError, NoError, Reasons
<1>2. RuleError(d, p) \in Reasons
  BY RulesAreCodes
<1>3. StoreError(p) \in Refusals
  BY DEF StoreError, Refusals, StoreErrors, Reasons, NoError
<1> QED
  BY <1>1, <1>2, <1>3 DEF TransactionError, Refusals

\* The row a transaction reads is one of a device that is there.
LEMMA LockedRowIs ==
    ASSUME RequestsOK, RowsKnown, devices \in [DeviceIds -> Device \cup {Null}],
           NEW r \in Requests, LockedRow(r) # Null
    PROVE  /\ request[r].device \in DeviceIds /\ devices[request[r].device] \in Device
           /\ LockedRow(r) \in Device
<1>1. /\ request[r].row # Null /\ request[r].row \in Device
      /\ request[r].device \in DeviceIds /\ devices[request[r].device] \in Device
  BY DEF LockedRow, RowsKnown, KnownRow, RequestsOK, RequestRecord
<1> QED
  BY <1>1 DEF LockedRow, Device

-----------------------------------------------------------------------------
\* What a handler does to its request.

\* How far requests get.
InProgress == {"received", "found", "begun", "selected", "refused"} \cup LinkStages

StageRank(stage) ==
    CASE stage = "none" -> 0
      [] stage = "received" -> 1
      [] stage = "found" -> 2
      [] stage = "begun" -> 3
      [] stage = "selected" -> 4
      [] stage \in {"refused", "linkRead"} -> 5
      [] stage = "linkUpdated" -> 6
      [] stage = "linkSaved" -> 7
      [] stage = "finished" -> 8

\* Request r goes on to be q, with the same client waiting and nothing recorded.
GoesOn(r, q) ==
    /\ request' = [request EXCEPT ![r] = q]
    /\ UNCHANGED <<conn, events, recorded>>
    /\ RequestOK(q)
    /\ q.stage \in InProgress /\ StageRank(request[r].stage) < StageRank(q.stage)
    /\ q.reply = request[r].reply \/ q.reply \in Refusals
    /\ q.stage = "begun" => ClientFree
    /\ q.stage = "selected" => request[r].stage = "begun"
    /\ KnownRow(q)

LEMMA HandlerGoesOn ==
    ASSUME RequestsOK, RowsKnown, devices \in [DeviceIds -> Device \cup {Null}],
           NEW r \in Requests, Handle(r)
    PROVE  \/ \E reply \in Replied : Replies(r, reply)
           \/ \E q \in RequestRecord : GoesOn(r, q)
<1> DEFINE old == request[r]
<1>1. /\ request \in [Requests -> RequestRecord] /\ old \in RequestRecord
      /\ RequestOK(old) /\ KnownRow(old)
  BY DEF RequestsOK, RowsKnown
<1>2. CASE \/ Stray(r) \/ Register(r) \/ Commit(r) \/ LinkAnswer(r)
           \/ (Lookup(r) /\ Replies(r, "lorawan_device_not_linked"))
           \/ (LinkGetDevice(r) /\ LockedRow(r) = Null)
           \/ (LinkUpdateDevice(r) /\ ~DevEuiFree(old.device, old.call.devEui))
  BY <1>2 DEF Stray, Register, Commit, LinkAnswer, LinkGetDevice, LinkUpdateDevice, Replied
<1>3. CASE RecordRefusal(r)
  <2>1. old.reply \in Replied
    BY <1>1 DEF RequestRecord
  <2> QED
    BY <1>3, <2>1 DEF RecordRefusal
<1>4. CASE Lookup(r) /\ ~Replies(r, "lorawan_device_not_linked")
  <2>1. /\ old.stage = "received" /\ old.call.route = "webhook"
        /\ UNCHANGED <<conn, events, recorded>>
    BY <1>4 DEF Lookup, At, Route, storeVars
  <2>2. PICK d \in DeviceIds :
           request' = [request EXCEPT ![r].stage = "found", ![r].device = d]
    BY <1>4 DEF Lookup, LinkedTo
  <2> DEFINE q == [old EXCEPT !.stage = "found", !.device = d]
  <2>3. request' = [request EXCEPT ![r] = q]
    BY <1>1, <2>2 DEF RequestRecord
  <2>4. /\ q \in RequestRecord /\ q.stage = "found" /\ q.device = d
        /\ q.call = old.call /\ q.row = old.row /\ q.reply = old.reply
    BY <1>1 DEF RequestRecord, Stages
  <2> HIDE DEF q
  <2>5. RequestOK(q) /\ KnownRow(q)
    BY <1>1, <2>1, <2>4 DEF RequestOK, KnownRow, LinkStages
  <2>6. StageRank(old.stage) < StageRank(q.stage) /\ q.stage \in InProgress
    BY <2>1, <2>4 DEF StageRank, InProgress
  <2>7. GoesOn(r, q)
    BY <2>1, <2>3, <2>4, <2>5, <2>6 DEF GoesOn
  <2> QED
    BY <2>4, <2>7
<1>5. CASE Begin(r)
  <2> DEFINE q == [old EXCEPT !.stage = "begun"]
  <2>1. old.stage = "found" /\ ClientFree /\ UNCHANGED <<conn, events, recorded>>
    BY <1>5 DEF Begin, At, storeVars
  <2>2. request' = [request EXCEPT ![r] = q]
    BY <1>1, <1>5 DEF Begin, RequestRecord
  <2>3. /\ q \in RequestRecord /\ q.stage = "begun" /\ q.device = old.device
        /\ q.call = old.call /\ q.row = old.row /\ q.reply = old.reply
    BY <1>1 DEF RequestRecord, Stages
  <2> HIDE DEF q
  <2>4. RequestOK(q) /\ KnownRow(q)
    BY <1>1, <2>1, <2>3 DEF RequestOK, KnownRow, LinkStages
  <2>5. StageRank(old.stage) < StageRank(q.stage) /\ q.stage \in InProgress
    BY <2>1, <2>3 DEF StageRank, InProgress
  <2>6. GoesOn(r, q)
    BY <2>1, <2>2, <2>3, <2>4, <2>5 DEF GoesOn
  <2> QED
    BY <2>3, <2>6
<1>6. CASE SelectDevice(r)
  <2> DEFINE row == devices[old.device]
             q == [old EXCEPT !.stage = "selected", !.row = row]
  <2>1. old.stage = "begun" /\ UNCHANGED <<conn, events, recorded>>
    BY <1>6 DEF SelectDevice, At, storeVars
  <2>2. row \in Device \cup {Null} /\ old.device \in DeviceIds
    BY <1>1, <2>1 DEF RequestOK
  <2>3. request' = [request EXCEPT ![r] = q]
    BY <1>1, <1>6 DEF SelectDevice, RequestRecord
  <2> HIDE DEF row
  <2>4. /\ q \in RequestRecord /\ q.stage = "selected" /\ q.device = old.device
        /\ q.call = old.call /\ q.row = row /\ q.reply = old.reply
    BY <1>1, <2>2 DEF RequestRecord, Stages
  <2> HIDE DEF q
  <2>5. RequestOK(q) /\ KnownRow(q)
    BY <1>1, <2>1, <2>2, <2>4 DEF RequestOK, KnownRow, LinkStages, row
  <2>6. StageRank(old.stage) < StageRank(q.stage) /\ q.stage \in InProgress
    BY <2>1, <2>4 DEF StageRank, InProgress
  <2>7. GoesOn(r, q)
    BY <2>1, <2>3, <2>4, <2>5, <2>6 DEF GoesOn
  <2> QED
    BY <2>4, <2>7
<1>7. CASE Rollback(r)
  <2> DEFINE error == TransactionError(r)
             q == [old EXCEPT !.stage = "refused", !.reply = error]
  <2>1. /\ old.stage = "selected" /\ old.call.route # "link"
        /\ UNCHANGED <<conn, events, recorded>>
    BY <1>7 DEF Rollback, At, Route, storeVars
  <2>2. error \in Refusals
    BY <1>7, SelectedUplink, RefusalCodes DEF Rollback
  <2>3. request' = [request EXCEPT ![r] = q]
    BY <1>1, <1>7 DEF Rollback, RequestRecord
  <2> HIDE DEF error
  <2>4. /\ q \in RequestRecord /\ q.stage = "refused" /\ q.device = old.device
        /\ q.call = old.call /\ q.row = old.row /\ q.reply = error
    BY <1>1, <2>2 DEF RequestRecord, Stages, Replied, Refusals
  <2> HIDE DEF q
  <2>5. RequestOK(q) /\ KnownRow(q)
    <3>1. old.call \in Calls /\ old.device \in DeviceIds
          /\ old.call.route \in {"uplink", "webhook"}
      BY <1>1, <2>1 DEF RequestOK
    <3> QED
      BY <1>1, <2>2, <2>4, <3>1 DEF RequestOK, KnownRow, LinkStages
  <2>6. StageRank(old.stage) < StageRank(q.stage) /\ q.stage \in InProgress
    BY <2>1, <2>4 DEF StageRank, InProgress
  <2>7. GoesOn(r, q)
    BY <2>1, <2>2, <2>3, <2>4, <2>5, <2>6 DEF GoesOn
  <2> QED
    BY <2>4, <2>7
<1>8. CASE LinkGetDevice(r) /\ LockedRow(r) # Null
  <2> DEFINE row == LockedRow(r)
             q == [old EXCEPT !.stage = "linkRead", !.row = row]
  <2>1. /\ old.stage = "selected" /\ old.call.route = "link"
        /\ UNCHANGED <<conn, events, recorded>>
    BY <1>8 DEF LinkGetDevice, At, Route, storeVars
  <2>2. row \in Device /\ old.device \in DeviceIds /\ devices[old.device] # Null
    BY <1>8, LockedRowIs, ProtocolAssumption
  <2>3. request' = [request EXCEPT ![r] = q]
    BY <1>1, <1>8 DEF LinkGetDevice, RequestRecord
  <2> HIDE DEF row
  <2>4. /\ q \in RequestRecord /\ q.stage = "linkRead" /\ q.device = old.device
        /\ q.call = old.call /\ q.row = row /\ q.reply = old.reply
    BY <1>1, <2>2 DEF RequestRecord, Stages
  <2>5. row # Null
    BY <1>8 DEF row
  <2> HIDE DEF q
  <2>6. RequestOK(q) /\ KnownRow(q)
    BY <1>1, <2>1, <2>2, <2>4, <2>5 DEF RequestOK, KnownRow, LinkStages
  <2>7. StageRank(old.stage) < StageRank(q.stage) /\ q.stage \in InProgress
    BY <2>1, <2>4 DEF StageRank, InProgress, LinkStages
  <2>8. GoesOn(r, q)
    BY <2>1, <2>3, <2>4, <2>6, <2>7 DEF GoesOn
  <2> QED
    BY <2>4, <2>8
<1>9. CASE \/ LinkSaveNonce(r)
           \/ LinkUpdateDevice(r) /\ DevEuiFree(old.device, old.call.devEui)
  <2>1. /\ old.stage \in {"linkRead", "linkUpdated"}
        /\ UNCHANGED <<conn, events, recorded>>
    BY <1>9 DEF LinkSaveNonce, LinkUpdateDevice, At
  <2>2. PICK stage \in {"linkUpdated", "linkSaved"} :
           /\ request' = [request EXCEPT ![r].stage = stage]
           /\ StageRank(old.stage) < StageRank(stage)
    BY <1>9 DEF LinkSaveNonce, LinkUpdateDevice, At, StageRank
  <2> DEFINE q == [old EXCEPT !.stage = stage]
  <2>3. request' = [request EXCEPT ![r] = q]
    BY <1>1, <2>2 DEF RequestRecord
  <2>4. /\ q \in RequestRecord /\ q.stage = stage /\ q.device = old.device
        /\ q.call = old.call /\ q.row = old.row /\ q.reply = old.reply
    BY <1>1 DEF RequestRecord, Stages
  <2> HIDE DEF q
  <2>5. RequestOK(q) /\ KnownRow(q)
    BY <1>1, <2>1, <2>4 DEF RequestOK, KnownRow, LinkStages
  <2>6. StageRank(old.stage) < StageRank(q.stage) /\ q.stage \in InProgress
    BY <2>2, <2>4 DEF InProgress, LinkStages
  <2>7. GoesOn(r, q)
    BY <2>1, <2>3, <2>4, <2>5, <2>6 DEF GoesOn
  <2> QED
    BY <2>4, <2>7
<1> QED
  BY <1>2, <1>3, <1>4, <1>5, <1>6, <1>7, <1>8, <1>9
  DEF Handle, LinkGetDevice, LinkUpdateDevice

\* A handler's stage.
LEMMA HandlerStage ==
    ASSUME NEW r \in Requests, Handle(r) \/ PoolRefuses(r)
    PROVE  request[r].stage \in InProgress
BY DEF Handle, Stray, Register, Lookup, Begin, SelectDevice, Commit, Rollback, RecordRefusal,
       LinkGetDevice, LinkUpdateDevice, LinkSaveNonce, LinkAnswer, PoolRefuses, At,
       InProgress, LinkStages

\* Every step is a handler's, or moves no request but one that arrives.
LEMMA ServerSteps ==
    ASSUME [ServerNext]_serverVars
    PROVE  \/ \E r \in Requests, call \in Calls : Receive(r, call)
           \/ \E r \in Requests : Handle(r)
           \/ \E r \in Requests : PoolRefuses(r)
           \/ UNCHANGED <<storeVars, request>>
BY DEF ServerNext, serverVars, Leave, IdleEnds, Signal, ServerCloses, PoolEnds

-----------------------------------------------------------------------------
\* Requests keep their form.

LEMMA RequestsOKInit == ServerInit => RequestsOK
BY DEF ServerInit, RequestsOK, RequestOK, RequestRecord, NoRequest, Stages, Replied, LinkStages

\* One request moves on.
LEMMA OneRequest ==
    ASSUME RequestsOK, NEW r \in Requests, NEW q, RequestOK(q),
           request' = [request EXCEPT ![r] = q]
    PROVE  RequestsOK'
BY DEF RequestsOK, RequestOK

\* A handler that answers, with any reply there is.
LEMMA RepliesKeep ==
    ASSUME RequestsOK, NEW r \in Requests, NEW reply \in Replied, Replies(r, reply),
           request[r].stage # "none"
    PROVE  RequestsOK'
<1> DEFINE q == [request[r] EXCEPT !.stage = "finished", !.reply = reply]
<1>1. RequestOK(request[r]) /\ request[r] \in RequestRecord
  BY DEF RequestsOK
<1>2. RequestOK(q)
  BY <1>1 DEF RequestOK, RequestRecord, Stages, LinkStages
<1>3. request' = [request EXCEPT ![r] = q]
  BY DEF Replies, RequestsOK
<1> HIDE DEF q
<1> QED
  BY <1>2, <1>3, OneRequest

\* A request that arrives.
LEMMA ArrivedOK ==
    ASSUME NEW call \in Calls
    PROVE  /\ RequestOK(Arrived(call)) /\ Arrived(call).stage \in {"received", "found"}
           /\ Arrived(call).row = Null /\ Arrived(call).reply = Null
<1>1. /\ call.route \in {"uplink", "link"} => call.device \in DeviceIds
      /\ "received" \in Stages /\ "found" \in Stages /\ Null \in Replied
  BY CallFields DEF Stages, Replied
<1>2. CASE call.route \in {"uplink", "link"}
  <2>1. Arrived(call) = [call |-> call, stage |-> "found", device |-> call.device,
                         row |-> Null, reply |-> Null]
    BY <1>2 DEF Arrived, NoRequest
  <2> QED
    BY <1>1, <1>2, <2>1 DEF RequestOK, RequestRecord, LinkStages
<1>3. CASE call.route \notin {"uplink", "link"}
  <2>1. Arrived(call) = [call |-> call, stage |-> "received", device |-> Null,
                         row |-> Null, reply |-> Null]
    BY <1>3 DEF Arrived, NoRequest
  <2> QED
    BY <1>1, <2>1 DEF RequestOK, RequestRecord, LinkStages
<1> QED
  BY <1>2, <1>3

\* Whatever a step does to the requests: one arrives, one goes on, one is
\* answered, or nothing happens to them.
LEMMA RequestStep ==
    ASSUME RequestsOK, RowsKnown, StoreTypeOK, [ServerNext]_serverVars
    PROVE  \/ UNCHANGED <<storeVars, request>>
           \/ \E r \in Requests, q \in RequestRecord :
                 /\ request' = [request EXCEPT ![r] = q]
                 /\ RequestOK(q) /\ KnownRow(q)
                 /\ Held' \subseteq Held \/ (Held' \subseteq Held \cup {r} /\ ClientFree)
<1> DEFINE Goal(r, q) ==
             /\ request' = [request EXCEPT ![r] = q]
             /\ RequestOK(q) /\ KnownRow(q)
             /\ Held' \subseteq Held \/ (Held' \subseteq Held \cup {r} /\ ClientFree)
<1>1. request \in [Requests -> RequestRecord]
  BY DEF RequestsOK
<1>2. ASSUME NEW r \in Requests, NEW call \in Calls, Receive(r, call)
      PROVE  \E q \in RequestRecord : Goal(r, q)
  <2> DEFINE q == Arrived(call)
  <2>1. request' = [request EXCEPT ![r] = q]
    BY <1>2 DEF Receive
  <2>2. RequestOK(q) /\ KnownRow(q) /\ q.stage \notin {"begun", "selected"} /\ q \in RequestRecord
    BY ArrivedOK DEF KnownRow, RequestOK
  <2> HIDE DEF q
  <2>3. Held' \subseteq Held
    BY <1>1, <2>1, <2>2 DEF Held
  <2> QED
    BY <2>1, <2>2, <2>3
<1>3. ASSUME NEW r \in Requests, NEW reply \in Replied, Replies(r, reply),
             Handle(r) \/ PoolRefuses(r)
      PROVE  \E q \in RequestRecord : Goal(r, q)
  <2> DEFINE q == [request[r] EXCEPT !.stage = "finished", !.reply = reply]
  <2>1. /\ request[r] \in RequestRecord /\ RequestOK(request[r]) /\ KnownRow(request[r])
        /\ request[r].stage # "none"
    BY <1>3, HandlerStage DEF RequestsOK, RowsKnown, InProgress, LinkStages
  <2>2. request' = [request EXCEPT ![r] = q]
    BY <1>1, <1>3 DEF Replies
  <2>3. q \in RequestRecord /\ q.stage = "finished" /\ RequestOK(q) /\ KnownRow(q)
    BY <2>1 DEF RequestOK, RequestRecord, Stages, LinkStages, KnownRow
  <2> HIDE DEF q
  <2>4. Held' \subseteq Held
    BY <1>1, <2>2, <2>3 DEF Held
  <2> QED
    BY <2>2, <2>3, <2>4
<1>4. ASSUME NEW r \in Requests, NEW q \in RequestRecord, GoesOn(r, q) PROVE Goal(r, q)
  <2>1. /\ request' = [request EXCEPT ![r] = q] /\ RequestOK(q) /\ KnownRow(q)
        /\ q.stage = "begun" => ClientFree
        /\ q.stage = "selected" => request[r].stage = "begun"
    BY <1>4 DEF GoesOn
  <2>2. Held' \subseteq Held \cup {r}
    BY <1>1, <2>1 DEF Held
  <2>3. q.stage # "begun" => Held' \subseteq Held
    BY <1>1, <2>1 DEF Held
  <2> QED
    BY <2>1, <2>2, <2>3
<1>5. ASSUME NEW r \in Requests, Handle(r)
      PROVE  \E q \in RequestRecord : Goal(r, q)
  BY <1>3, <1>4, <1>5, HandlerGoesOn DEF StoreTypeOK
<1>6. ASSUME NEW r \in Requests, PoolRefuses(r)
      PROVE  \E q \in RequestRecord : Goal(r, q)
  BY <1>3, <1>6 DEF PoolRefuses, Replied
<1> QED
  BY <1>2, <1>5, <1>6, ServerSteps

LEMMA RequestsOKStep ==
    ASSUME RequestsOK, RowsKnown, StoreTypeOK, [ServerNext]_serverVars
    PROVE  RequestsOK'
<1>1. CASE UNCHANGED request
  BY <1>1 DEF RequestsOK, RequestOK
<1>2. CASE \E r \in Requests, q \in RequestRecord :
             request' = [request EXCEPT ![r] = q] /\ RequestOK(q)
  BY <1>2, OneRequest
<1> QED
  BY <1>1, <1>2, RequestStep

-----------------------------------------------------------------------------
\* The devices.

\* Request r may change the row of device d.
ActsFor(r, d) ==
    /\ request[r].device = d
    /\ \/ LinkUpdateDevice(r) \/ LinkSaveNonce(r)
       \/ Commit(r) /\ request[r].call.msg.signer = d

\* A step writes one row at most: a device's that was not registered, or one
\* that a link or the signer's own uplink is about.
LEMMA DevicesStep ==
    ASSUME RequestsOK, RowsKnown, StoreTypeOK, [ServerNext]_serverVars
    PROVE  \/ devices' = devices
           \/ \E d \in DeviceIds, device \in Device :
                 /\ devices' = [devices EXCEPT ![d] = device]
                 /\ devices[d] = Null \/ \E r \in Requests : ActsFor(r, d)
<1> DEFINE Goal == \E d \in DeviceIds, device \in Device :
                      /\ devices' = [devices EXCEPT ![d] = device]
                      /\ devices[d] = Null \/ \E r \in Requests : ActsFor(r, d)
<1>1. devices \in [DeviceIds -> Device \cup {Null}]
  BY DEF StoreTypeOK
<1>2. ASSUME NEW r \in Requests, Register(r) PROVE devices' = devices \/ Goal
  <2> DEFINE call == request[r].call
  <2>1. call \in Calls /\ call.route = "register"
    BY <1>2 DEF Register, At, Route, RequestsOK, RequestOK
  <2>2. call.device \in DeviceIds /\ call.devEui \in DevEuis
    BY <2>1, CallFields
  <2>3. CASE RegisterDevice(call.device, call.devEui)
    <3>1. NewDevice(call.devEui) \in Device
      BY <2>2 DEF NewDevice, Device
    <3> QED
      BY <2>2, <2>3, <3>1 DEF RegisterDevice
  <2> QED
    BY <1>2, <2>3 DEF Register, storeVars
<1>3. ASSUME NEW r \in Requests, Commit(r) PROVE Goal
  <2> DEFINE d == request[r].device
             p == request[r].call.msg
  <2>1. d \in DeviceIds /\ p \in Payloads
    BY <1>3, SelectedUplink DEF Commit
  <2>2. AuthError(LockedRow(r), d, p) = NoError
    BY <1>3 DEF Commit, TransactionError
  <2>3. LockedRow(r) # Null /\ p.signer = d
    BY <2>2 DEF AuthError, NoError
  <2>4. devices[d] # Null
    BY <1>1, <2>3, LockedRowIs, ProtocolAssumption
  <2>5. ApplyOperation(d, p)
    BY <1>3 DEF Commit
  <2>6. PICK device \in Device : devices' = [devices EXCEPT ![d] = device]
    BY <2>1, <2>4, <2>5, OperationSaves
  <2> QED
    BY <1>3, <2>1, <2>3, <2>6 DEF ActsFor
<1>4. ASSUME NEW r \in Requests, LinkUpdateDevice(r) PROVE devices' = devices \/ Goal
  <2> DEFINE d == request[r].device
             e == request[r].call.devEui
             row == request[r].row
             saved == [row EXCEPT !.devEui = e, !.lastNonce = devices[d].lastNonce]
  <2>1. /\ d \in DeviceIds /\ request[r].call \in Calls /\ request[r].call.route = "link"
        /\ row # Null /\ row \in Device \cup {Null}
    BY <1>4 DEF LinkUpdateDevice, At, RequestsOK, RequestOK, RequestRecord, LinkStages
  <2>2. e \in DevEuis /\ devices[d] \in Device
    BY <1>1, <2>1, CallFields DEF RowsKnown, KnownRow
  <2>3. saved \in Device
    BY <2>1, <2>2 DEF Device
  <2>4. devices' = devices \/ devices' = [devices EXCEPT ![d] = saved]
    BY <1>4 DEF LinkUpdateDevice
  <2> HIDE DEF saved
  <2> QED
    BY <1>4, <2>1, <2>3, <2>4 DEF ActsFor
<1>5. ASSUME NEW r \in Requests, LinkSaveNonce(r) PROVE Goal
  <2> DEFINE d == request[r].device
             row == request[r].row
             saved == [devices[d] EXCEPT !.lastNonce = row.lastNonce]
  <2>1. d \in DeviceIds /\ row # Null /\ row \in Device \cup {Null}
    BY <1>5 DEF LinkSaveNonce, At, RequestsOK, RequestOK, RequestRecord, LinkStages
  <2>2. devices[d] \in Device
    BY <1>1, <2>1 DEF RowsKnown, KnownRow
  <2>3. saved \in Device
    BY <2>1, <2>2 DEF Device
  <2>4. devices' = [devices EXCEPT ![d] = saved]
    BY <1>1, <1>5 DEF LinkSaveNonce
  <2> HIDE DEF saved
  <2> QED
    BY <1>5, <2>1, <2>3, <2>4 DEF ActsFor
<1>6. \/ \E r \in Requests : Register(r) \/ Commit(r) \/ LinkUpdateDevice(r) \/ LinkSaveNonce(r)
      \/ devices' = devices
  BY ServerSteps DEF Receive, Handle, Stray, Lookup, Begin, SelectDevice, Rollback, RecordRefusal,
         LinkGetDevice, LinkAnswer, PoolRefuses, storeVars
<1> QED
  BY <1>2, <1>3, <1>4, <1>5, <1>6

\* No device is ever unregistered, so what was read of one stays known.
LEMMA RowsKnownStep ==
    ASSUME RequestsOK, RowsKnown, StoreTypeOK, [ServerNext]_serverVars
    PROVE  RowsKnown' /\ devices' \in [DeviceIds -> Device \cup {Null}]
<1>1. /\ devices' \in [DeviceIds -> Device \cup {Null}]
      /\ \A d \in DeviceIds : devices[d] # Null => devices'[d] # Null
  BY DevicesStep, ProtocolAssumption DEF StoreTypeOK
<1>2. \A r \in Requests : KnownRow(request'[r])
  <2>1. CASE UNCHANGED request
    BY <2>1 DEF RowsKnown
  <2>2. CASE \E r \in Requests, q \in RequestRecord :
               request' = [request EXCEPT ![r] = q] /\ KnownRow(q)
    BY <2>2 DEF RowsKnown, RequestsOK
  <2> QED
    BY <2>1, <2>2, RequestStep
<1> QED
  BY <1>1, <1>2 DEF RowsKnown, KnownRow

-----------------------------------------------------------------------------
\* The pool.

PoolOK == Cardinality(Held) <= PoolSize

LEMMA RequestsFinite == IsFiniteSet(Requests)
<1>1. MaxRequests \in Int
  BY ServerAssumption, StoreAssumption
<1> QED
  BY <1>1, FS_Interval DEF Requests

LEMMA HeldFinite == IsFiniteSet(Held) /\ Cardinality(Held) \in Nat
<1>1. IsFiniteSet(Held)
  BY RequestsFinite, FS_Subset DEF Held
<1> QED
  BY <1>1, FS_CardinalityType

\* Only Begin takes a client, and only when there is one.
LEMMA PoolOKStep ==
    ASSUME RequestsOK, RowsKnown, StoreTypeOK, PoolOK, [ServerNext]_serverVars
    PROVE  PoolOK'
<1>1. CASE Held' \subseteq Held
  <2>1. Cardinality(Held') <= Cardinality(Held) /\ Cardinality(Held') \in Nat
    BY <1>1, HeldFinite, FS_Subset, FS_CardinalityType
  <2>2. Cardinality(Held)' = Cardinality(Held')
    OBVIOUS
  <2> QED
    BY <2>1, HeldFinite, ServerAssumption DEF PoolOK
<1>2. ASSUME NEW r \in Requests, Held' \subseteq Held \cup {r}, ClientFree PROVE PoolOK'
  <2>1. IsFiniteSet(Held \cup {r}) /\ Cardinality(Held \cup {r}) <= Cardinality(Held) + 1
    BY HeldFinite, FS_AddElement, SMTT(40)
  <2>2. Cardinality(Held') <= Cardinality(Held \cup {r}) /\ Cardinality(Held') \in Nat
    BY <1>2, <2>1, FS_Subset, FS_CardinalityType
  <2>3. Cardinality(Held) < PoolSize
    BY <1>2 DEF ClientFree
  <2>4. Cardinality(Held \cup {r}) \in Nat
    BY <2>1, FS_CardinalityType
  <2> QED
    BY <2>1, <2>2, <2>3, <2>4, HeldFinite, ServerAssumption DEF PoolOK
<1>3. CASE UNCHANGED request
  BY <1>1, <1>3 DEF Held
<1> QED
  BY <1>1, <1>2, <1>3, RequestStep

-----------------------------------------------------------------------------
\* What a step does to ledger and log: an operation, a refusal recorded after
\* others have moved on, or nothing.

LateRefusal ==
    \E d \in DeviceIds, p \in Payloads, reason \in Refusals :
        /\ AppendEvent("rejected", reason, d, p)
        /\ UNCHANGED <<devices, tokens, balances>>

Operation ==
    \E d \in DeviceIds, p \in Payloads : devices[d] # Null /\ ApplyOperation(d, p)

LEMMA StepOfTables ==
    ASSUME RequestsOK, RowsKnown, StoreTypeOK, [ServerNext]_serverVars
    PROVE  Operation \/ LateRefusal \/ UNCHANGED <<tokens, balances, events, recorded>>
<1>1. ASSUME NEW r \in Requests, Commit(r) PROVE Operation
  <2> DEFINE d == request[r].device
             p == request[r].call.msg
  <2>1. d \in DeviceIds /\ p \in Payloads
    BY <1>1, SelectedUplink DEF Commit
  <2>2. LockedRow(r) # Null
    BY <1>1 DEF Commit, TransactionError, AuthError, NoError
  <2>3. devices[d] # Null
    BY <2>2, LockedRowIs, ProtocolAssumption DEF StoreTypeOK
  <2> QED
    BY <1>1, <2>1, <2>3 DEF Commit, Operation
<1>2. ASSUME NEW r \in Requests, RecordRefusal(r) PROVE LateRefusal
  <2>1. /\ request[r].device \in DeviceIds /\ request[r].call.msg \in Payloads
        /\ request[r].reply \in Refusals
    BY <1>2, SelectedUplink DEF RecordRefusal, At, RequestsOK, RequestOK
  <2> QED
    BY <1>2, <2>1 DEF RecordRefusal, LateRefusal
<1>3. \/ \E r \in Requests : Commit(r) \/ RecordRefusal(r)
      \/ UNCHANGED <<tokens, balances, events, recorded>>
  BY ServerSteps DEF Receive, Handle, Stray, Register, RegisterDevice, Lookup, Begin, SelectDevice,
         Rollback, LinkGetDevice, LinkUpdateDevice, LinkSaveNonce, LinkAnswer, PoolRefuses, storeVars
<1> QED
  BY <1>1, <1>2, <1>3

\* A refusal on record is no business of the ledger's.
LEMMA TablesRefine ==
    ASSUME LedgerInv, Operation \/ LateRefusal \/ UNCHANGED <<tokens, balances, events, recorded>>
    PROVE  [LedgerNext]_ledgerVars
BY OperationRefines DEF Operation, LateRefusal, ledgerVars

\* The log keeps its type.
LEMMA TablesTyped ==
    ASSUME StoreTypeOK,
           Operation \/ LateRefusal \/ UNCHANGED <<tokens, balances, events, recorded>>
    PROVE  LogTyped'
<1>1. LogTyped
  BY DEF StoreTypeOK, LogTyped
<1>2. CASE Operation
  <2>1. \E d \in DeviceIds, p \in Payloads : AppendEvent("accepted", NoError, d, p)
    BY <1>2, OperationSaves DEF Operation, Accept
  <2> QED
    BY <1>1, <2>1, AppendEventTyped DEF Reasons
<1>3. CASE LateRefusal
  BY <1>1, <1>3, AppendEventTyped DEF LateRefusal, Refusals
<1>4. CASE UNCHANGED <<tokens, balances, events, recorded>>
  BY <1>1, <1>4 DEF LogTyped, EventRow
<1> QED
  BY <1>2, <1>3, <1>4

\* What is on record stays what the ledger adds up to.
LEMMA TablesLogged ==
    ASSUME LedgerInv, LogLedgerInv,
           Operation \/ LateRefusal \/ UNCHANGED <<tokens, balances, events, recorded>>
    PROVE  LogLedgerInv'
<1>1. CASE Operation
  BY <1>1, OperationLogged DEF Operation
<1>2. CASE LateRefusal
  BY <1>2, OtherRowKeeps DEF LateRefusal
<1> QED
  BY <1>1, <1>2, NothingMoves

-----------------------------------------------------------------------------
\* Shutdown.

\* The listener closes when every connection has gone, the pool with it, and
\* the process ends no earlier; the pool's error is written to nobody.
ShutdownInv ==
    /\ conn \in [Requests -> {"waiting", "kept", "gone"}]
    /\ listener \in {"listening", "closing", "closed"} /\ notRunning \in BOOLEAN
    /\ pool \in {"open", "ending"} /\ exit \in {"running", "0", "1"}
    /\ pool = "ending" <=> listener = "closed"
    /\ listener = "closed" => Drained
    /\ exit # "running" => listener = "closed"
    /\ \A r \in Requests : conn[r] = "waiting" => request[r].reply # "internal_error"

LEMMA ShutdownInvInit == ServerInit => ShutdownInv
BY DEF ServerInit, ShutdownInv, Drained

\* An answer leaves nobody waiting for it, and opens no connection.
LEMMA RepliesKeepShutdown ==
    ASSUME RequestsOK, ShutdownInv, NEW r \in Requests, NEW reply, Replies(r, reply),
           UNCHANGED processVars
    PROVE  ShutdownInv'
<1>1. /\ conn' = [conn EXCEPT ![r] = IF conn[r] = "waiting" THEN "kept" ELSE conn[r]]
      /\ \A q \in Requests \ {r} : request'[q] = request[q]
  BY DEF Replies, RequestsOK
<1>2. conn'[r] # "waiting" /\ \A q \in Requests : conn[q] = "gone" => conn'[q] = "gone"
  BY <1>1 DEF ShutdownInv
<1>3. Drained => Drained'
  BY <1>2 DEF Drained
<1>4. \A q \in Requests : conn'[q] = "waiting" => request'[q].reply # "internal_error"
  BY <1>1, <1>2 DEF ShutdownInv
<1> QED
  BY <1>1, <1>3, <1>4 DEF ShutdownInv, processVars

\* What happens to connections.
LEMMA ConnectionsKeepShutdown ==
    ASSUME RequestsOK, ShutdownInv, NEW r \in Requests,
           (\E call \in Calls : Receive(r, call)) \/ Leave(r) \/ IdleEnds(r)
    PROVE  ShutdownInv'
<1>1. CASE Leave(r) \/ IdleEnds(r)
  BY <1>1 DEF Leave, IdleEnds, processVars, ShutdownInv, Drained
<1>2. ASSUME NEW call \in Calls, Receive(r, call) PROVE ShutdownInv'
  <2>1. request' = [request EXCEPT ![r] = Arrived(call)] /\ Arrived(call).reply = Null
    BY <1>2, ArrivedOK DEF Receive
  <2>2. listener # "closed" /\ UNCHANGED processVars
    BY <1>2 DEF Receive
  <2>3. /\ conn' \in [Requests -> {"waiting", "kept", "gone"}]
        /\ \A q \in Requests \ {r} : conn'[q] = "waiting" => conn[q] = "waiting"
    BY <1>2 DEF Receive, ShutdownInv
  <2>4. \A q \in Requests : conn'[q] = "waiting" => request'[q].reply # "internal_error"
    BY <2>1, <2>3, ServerAssumption DEF ShutdownInv, RequestsOK
  <2> QED
    BY <2>2, <2>3, <2>4 DEF ShutdownInv, processVars
<1> QED
  BY <1>1, <1>2

\* Every step.
LEMMA ShutdownInvStep ==
    ASSUME RequestsOK, RowsKnown, StoreTypeOK, ShutdownInv, [ServerNext]_serverVars
    PROVE  ShutdownInv'
<1>1. ASSUME NEW r \in Requests, Handle(r) PROVE ShutdownInv'
  <2>1. UNCHANGED processVars
    BY <1>1 DEF Handle, Stray, Register, Lookup, Begin, SelectDevice, Commit, Rollback,
                RecordRefusal, LinkGetDevice, LinkUpdateDevice, LinkSaveNonce, LinkAnswer
  <2>2. CASE \E reply : Replies(r, reply)
    BY <2>1, <2>2, RepliesKeepShutdown
  <2>3. ASSUME NEW q \in RequestRecord, GoesOn(r, q) PROVE ShutdownInv'
    <3>1. conn' = conn /\ \A c \in Requests \ {r} : request'[c] = request[c]
      BY <2>3 DEF GoesOn, RequestsOK
    <3>2. request'[r].reply = request[r].reply \/ request'[r].reply \in Refusals
      BY <2>3 DEF GoesOn, RequestsOK
    <3>3. conn[r] = "waiting" => request'[r].reply # "internal_error"
      BY <3>2 DEF ShutdownInv, Refusals, Reasons, StoreErrors, NoError
    <3> QED
      BY <2>1, <3>1, <3>3 DEF ShutdownInv, processVars, Drained
  <2> QED
    BY <1>1, <2>2, <2>3, HandlerGoesOn DEF StoreTypeOK
<1>2. ASSUME NEW r \in Requests, PoolRefuses(r) PROVE ShutdownInv'
  BY <1>2, RepliesKeepShutdown DEF PoolRefuses
<1>3. CASE Signal
  <2>1. UNCHANGED <<request, pool>>
    BY <1>3 DEF Signal
  <2>2. CASE listener = "listening"
    BY <1>3, <2>1, <2>2 DEF Signal, ShutdownInv, Drained
  <2>3. CASE listener # "listening"
    BY <1>3, <2>1, <2>3 DEF Signal, ShutdownInv, Drained
  <2> QED
    BY <2>2, <2>3
<1>4. CASE ServerCloses
  BY <1>4 DEF ServerCloses, ShutdownInv, Drained
<1>5. CASE PoolEnds
  BY <1>5 DEF PoolEnds, ShutdownInv, Drained
<1>6. CASE UNCHANGED serverVars
  BY <1>6 DEF serverVars, processVars, ShutdownInv, Drained
<1> QED
  BY <1>1, <1>2, <1>3, <1>4, <1>5, <1>6, ConnectionsKeepShutdown DEF ServerNext
-----------------------------------------------------------------------------
\* One row for every uplink that was decided.

Statuses == {"accepted", "rejected"}

\* Request r is answered, and the row of its decision written, in one step.
Decision(r, d, p, status, reason) ==
    /\ request[r].stage # "finished"
    /\ request[r].device = d /\ request[r].call.msg = p
    /\ AppendEvent(status, reason, d, p)
    /\ \E reply \in Answers(status) : Replies(r, reply)

\* No row is written, and no request is answered with a decision.
NoDecision ==
    /\ events' = events
    /\ \A d \in DeviceIds, p \in Payloads, status \in Statuses :
          DecidedAs(d, p, status)' = DecidedAs(d, p, status)

\* Both sides are finite, so that they can be counted.
LEMMA RowsFinite ==
    ASSUME IsFiniteSet(events), NEW d, NEW p, NEW status
    PROVE  IsFiniteSet(RowsOf(d, p, status)) /\ Cardinality(RowsOf(d, p, status)) \in Nat
<1>1. IsFiniteSet(RowsOf(d, p, status))
  BY FS_Subset DEF RowsOf
<1> QED
  BY <1>1, FS_CardinalityType

LEMMA DecidedFinite ==
    ASSUME NEW d, NEW p, NEW status
    PROVE  /\ IsFiniteSet(DecidedAs(d, p, status))
           /\ Cardinality(DecidedAs(d, p, status)) \in Nat
<1>1. IsFiniteSet(DecidedAs(d, p, status))
  BY RequestsFinite, FS_Subset DEF DecidedAs
<1> QED
  BY <1>1, FS_CardinalityType

\* A decision is one more answer of its kind, and of no other.
LEMMA DecisionAnswers ==
    ASSUME RequestsOK, NEW r \in Requests, NEW d, NEW p, NEW status \in Statuses, NEW reason,
           Decision(r, d, p, status, reason), NEW d2, NEW p2, NEW status2 \in Statuses
    PROVE  /\ r \notin DecidedAs(d2, p2, status2)
           /\ DecidedAs(d2, p2, status2)' =
                 IF d2 = d /\ p2 = p /\ status2 = status
                 THEN DecidedAs(d2, p2, status2) \cup {r} ELSE DecidedAs(d2, p2, status2)
<1>1. PICK reply \in Answers(status) :
        request' = [request EXCEPT ![r].stage = "finished", ![r].reply = reply]
  BY DEF Decision, Replies
<1>2. reply \in Answers(status2) <=> status2 = status
  BY DEF Answers, Statuses, Reasons, StoreErrors, NoError
<1>3. /\ request'[r].stage = "finished" /\ request'[r].reply = reply
      /\ request'[r].device = d /\ request'[r].call.msg = p
      /\ \A q \in Requests \ {r} : request'[q] = request[q]
  BY <1>1 DEF Decision, RequestsOK, RequestRecord
<1> QED
  BY <1>2, <1>3 DEF Decision, DecidedAs

\* It is one more row of its kind, and of no other.
LEMMA DecisionRows ==
    ASSUME RowsLogged, NEW d \in DeviceIds, NEW p \in Payloads, NEW status \in Statuses,
           NEW reason, AppendEvent(status, reason, d, p),
           NEW d2, NEW p2, NEW status2 \in Statuses
    PROVE  LET old == RowsOf(d2, p2, status2)
               row == Event(recorded + 1, status, reason, d, p)
               sum == IF d2 = d /\ p2 = p /\ status2 = status THEN old \cup {row} ELSE old
           IN /\ row \notin events
              /\ RowsOf(d2, p2, status2)' \subseteq sum
              /\ p2.op # "MESSAGE" => RowsOf(d2, p2, status2)' = sum
<1> DEFINE row == Event(recorded + 1, status, reason, d, p)
<1>1. row.deviceId = d /\ row.msg = p /\ row.status = status /\ row.at = recorded + 1
  BY DEF Event
<1>2. events' \subseteq events \cup {row}
  BY AppendEventAdds
<1>3. p.op # "MESSAGE" => row \in events'
  BY AppendEventKeeps
<1>4. \A e \in events : e.msg.op # "MESSAGE" => e \in events'
  BY AppendEventLoses
<1>5. row \notin events
  BY <1>1 DEF RowsLogged
<1> HIDE DEF row
<1>6. RowsOf(d2, p2, status2)' \subseteq
        IF d2 = d /\ p2 = p /\ status2 = status
        THEN RowsOf(d2, p2, status2) \cup {row} ELSE RowsOf(d2, p2, status2)
  BY <1>1, <1>2 DEF RowsOf
<1>7. ASSUME p2.op # "MESSAGE" PROVE RowsOf(d2, p2, status2) \subseteq RowsOf(d2, p2, status2)'
  BY <1>4, <1>7 DEF RowsOf
<1>8. ASSUME p2.op # "MESSAGE", d2 = d, p2 = p, status2 = status
      PROVE  row \in RowsOf(d2, p2, status2)'
  BY <1>1, <1>3, <1>8 DEF RowsOf
<1> QED
  BY <1>5, <1>6, <1>7, <1>8 DEF row

\* So both counts go up together.
LEMMA DecisionCounts ==
    ASSUME RequestsOK, RowsLogged, OneRowPerUplink, NEW r \in Requests, NEW d \in DeviceIds,
           NEW p \in Payloads, NEW status \in Statuses, NEW reason,
           Decision(r, d, p, status, reason)
    PROVE  OneRowPerUplink'
<1> SUFFICES ASSUME NEW d2 \in DeviceIds, NEW p2 \in Payloads, NEW status2 \in Statuses
             PROVE  LET rows == Cardinality(RowsOf(d2, p2, status2)')
                        decided == Cardinality(DecidedAs(d2, p2, status2)')
                    IN rows <= decided /\ (p2.op # "MESSAGE" => rows = decided)
  BY DEF OneRowPerUplink, Statuses
<1> DEFINE rows == RowsOf(d2, p2, status2)
           decided == DecidedAs(d2, p2, status2)
           row == Event(recorded + 1, status, reason, d, p)
<1>1. /\ Cardinality(rows) <= Cardinality(decided)
      /\ p2.op # "MESSAGE" => Cardinality(rows) = Cardinality(decided)
  BY DEF OneRowPerUplink, Statuses
<1>2. /\ IsFiniteSet(rows) /\ Cardinality(rows) \in Nat
      /\ IsFiniteSet(decided) /\ Cardinality(decided) \in Nat
  BY RowsFinite, DecidedFinite DEF RowsLogged
<1>3. /\ row \notin events
      /\ rows' \subseteq IF d2 = d /\ p2 = p /\ status2 = status THEN rows \cup {row} ELSE rows
      /\ p2.op # "MESSAGE" =>
           rows' = IF d2 = d /\ p2 = p /\ status2 = status THEN rows \cup {row} ELSE rows
  BY DecisionRows DEF Decision
<1>4. /\ r \notin decided
      /\ decided' = IF d2 = d /\ p2 = p /\ status2 = status THEN decided \cup {r} ELSE decided
  BY DecisionAnswers
<1>5. row \notin rows
  BY <1>3 DEF RowsOf
<1> HIDE DEF rows, decided, row
<1>6. CASE d2 = d /\ p2 = p /\ status2 = status
  <2>1. /\ IsFiniteSet(rows \cup {row}) /\ Cardinality(rows \cup {row}) = Cardinality(rows) + 1
        /\ Cardinality(decided \cup {r}) = Cardinality(decided) + 1
    BY <1>2, <1>4, <1>5, FS_AddElement
  <2>2. Cardinality(rows') <= Cardinality(rows \cup {row}) /\ Cardinality(rows') \in Nat
    BY <1>3, <1>6, <2>1, FS_Subset, FS_CardinalityType
  <2> QED
    BY <1>1, <1>2, <1>3, <1>4, <1>6, <2>1, <2>2, SMTT(40) DEF rows, decided
<1>7. CASE ~(d2 = d /\ p2 = p /\ status2 = status)
  <2>1. Cardinality(rows') <= Cardinality(rows) /\ Cardinality(rows') \in Nat
    BY <1>2, <1>3, <1>7, FS_Subset, FS_CardinalityType
  <2> QED
    BY <1>1, <1>2, <1>3, <1>4, <1>7, <2>1 DEF rows, decided
<1> QED
  BY <1>6, <1>7

\* An answer that decides nothing.
LEMMA OtherAnswer ==
    ASSUME RequestsOK, NEW r \in Requests, request[r].stage # "finished",
           NEW reply, Replies(r, reply), reply \notin Refusals \cup {"accepted"},
           events' = events
    PROVE  NoDecision
<1>1. /\ request'[r].reply = reply
      /\ \A q \in Requests \ {r} : request'[q] = request[q]
  BY DEF Replies, RequestsOK, RequestRecord
<1> QED
  BY <1>1 DEF NoDecision, DecidedAs, Answers, Refusals

\* A request that is not answered yet.
LEMMA NoAnswer ==
    ASSUME RequestsOK, NEW r \in Requests, request[r].stage # "finished",
           NEW q, q.stage # "finished", request' = [request EXCEPT ![r] = q],
           events' = events
    PROVE  NoDecision
BY DEF NoDecision, DecidedAs, RequestsOK

\* Every step decides one uplink or none.
LEMMA StepDecides ==
    ASSUME RequestsOK, RowsKnown, StoreTypeOK, [ServerNext]_serverVars
    PROVE  \/ NoDecision
           \/ \E r \in Requests, d \in DeviceIds, p \in Payloads, status \in Statuses :
                \E reason : Decision(r, d, p, status, reason)
<1> DEFINE decides == \E r \in Requests, d \in DeviceIds, p \in Payloads, status \in Statuses :
                \E reason : Decision(r, d, p, status, reason)
<1>1. ASSUME NEW r \in Requests, NEW call \in Calls, Receive(r, call) PROVE NoDecision
  <2>1. /\ request' = [request EXCEPT ![r] = Arrived(call)] /\ events' = events
        /\ request[r].stage # "finished"
    BY <1>1 DEF Receive, At, storeVars
  <2>2. Arrived(call).stage # "finished"
    BY ArrivedOK
  <2> QED
    BY <2>1, <2>2, NoAnswer
<1>2. ASSUME NEW r \in Requests, Handle(r) \/ PoolRefuses(r) PROVE NoDecision \/ decides
  <2>1. request[r].stage # "finished"
    BY <1>2, HandlerStage DEF InProgress, LinkStages
  <2>2. ASSUME NEW q \in RequestRecord, GoesOn(r, q) PROVE NoDecision
    <3>1. /\ request' = [request EXCEPT ![r] = q] /\ q.stage # "finished" /\ events' = events
      BY <2>2 DEF GoesOn, InProgress, LinkStages
    <3> QED
      BY <2>1, <3>1, NoAnswer
  <2>3. CASE Commit(r)
    <3> DEFINE d == request[r].device
               p == request[r].call.msg
    <3>1. d \in DeviceIds /\ p \in Payloads
      BY <2>3, SelectedUplink DEF Commit
    <3>2. ApplyOperation(d, p) /\ Replies(r, "accepted")
      BY <2>3 DEF Commit
    <3>3. AppendEvent("accepted", NoError, d, p)
      BY <3>2 DEF ApplyOperation, HandleDeploy, HandleMint, HandleTransfer, HandleMessage,
                  HandleConfig, Accept
    <3>4. Decision(r, d, p, "accepted", NoError)
      BY <2>1, <3>2, <3>3 DEF Decision, Answers
    <3> QED
      BY <3>1, <3>4 DEF Statuses
  <2>4. CASE RecordRefusal(r)
    <3>1. /\ request[r].device \in DeviceIds /\ request[r].call.msg \in Payloads
          /\ request[r].reply \in Refusals
      BY <2>4, SelectedUplink DEF RecordRefusal, At, RequestsOK, RequestOK
    <3>2. Decision(r, request[r].device, request[r].call.msg, "rejected", request[r].reply)
      BY <2>1, <2>4, <3>1 DEF RecordRefusal, Decision, Answers, Refusals
    <3> QED
      BY <3>1, <3>2 DEF Statuses
  <2>5. ASSUME ~Commit(r), ~RecordRefusal(r), ~(\E q \in RequestRecord : GoesOn(r, q))
        PROVE  NoDecision
    <3>1. events' = events
      BY <1>2, <2>5 DEF Handle, Stray, Register, RegisterDevice, Lookup, Begin, SelectDevice,
           Rollback, LinkGetDevice, LinkUpdateDevice, LinkSaveNonce, LinkAnswer, PoolRefuses,
           storeVars
    <3>2. PICK reply : Replies(r, reply)
      BY <1>2, <2>5, HandlerGoesOn DEF PoolRefuses, StoreTypeOK
    <3>3. CASE ~(Begin(r) \/ SelectDevice(r) \/ Rollback(r) \/ LinkSaveNonce(r) \/ Lookup(r)
                 \/ LinkGetDevice(r) \/ LinkUpdateDevice(r))
      <4>1. \/ Replies(r, "ignored") \/ Replies(r, "done") \/ Replies(r, "conflict")
            \/ Replies(r, "internal_error")
        BY <1>2, <2>5, <3>3 DEF Handle, Stray, Register, LinkAnswer, PoolRefuses
      <4> QED
        BY <2>1, <3>1, <4>1, OtherAnswer DEF Refusals, Reasons, StoreErrors, NoError
    <3>4. CASE Lookup(r) \/ LinkGetDevice(r) \/ LinkUpdateDevice(r)
      <4>1. /\ request'[r].stage = "finished" /\ request \in [Requests -> RequestRecord]
        BY <3>2 DEF Replies, RequestsOK, RequestRecord
      <4>2. Replies(r, "lorawan_device_not_linked") \/ Replies(r, "conflict")
        BY <3>4, <4>1 DEF Lookup, LinkGetDevice, LinkUpdateDevice, RequestRecord
      <4> QED
        BY <2>1, <3>1, <4>2, OtherAnswer DEF Refusals, Reasons, StoreErrors, NoError
    <3>5. CASE Begin(r) \/ SelectDevice(r) \/ Rollback(r) \/ LinkSaveNonce(r)
      <4>1. /\ request'[r].stage = "finished" /\ request \in [Requests -> RequestRecord]
        BY <3>2 DEF Replies, RequestsOK, RequestRecord
      <4> QED
        BY <3>5, <4>1 DEF Begin, SelectDevice, Rollback, LinkSaveNonce, RequestRecord
    <3> QED
      BY <3>3, <3>4, <3>5
  <2> QED
    BY <2>2, <2>3, <2>4, <2>5
<1>3. CASE UNCHANGED <<storeVars, request>>
  BY <1>3 DEF NoDecision, DecidedAs, storeVars
<1> QED
  BY <1>1, <1>2, <1>3, ServerSteps

LEMMA OneRowPerUplinkStep ==
    ASSUME RequestsOK, RowsKnown, StoreTypeOK, RowsLogged, OneRowPerUplink,
           [ServerNext]_serverVars
    PROVE  OneRowPerUplink'
<1>1. CASE NoDecision
  <2>1. \A d \in DeviceIds, p \in Payloads, status \in Statuses :
          /\ RowsOf(d, p, status)' = RowsOf(d, p, status)
          /\ DecidedAs(d, p, status)' = DecidedAs(d, p, status)
    BY <1>1 DEF NoDecision, RowsOf
  <2> QED
    BY <2>1 DEF OneRowPerUplink, Statuses
<1> QED
  BY <1>1, StepDecides, DecisionCounts

-----------------------------------------------------------------------------
\* The inductive invariant of the process.

ServerInv ==
    /\ LedgerInv /\ StoreTypeOK /\ LogLedgerInv
    /\ RequestsOK /\ RowsKnown /\ PoolOK /\ ShutdownInv /\ OneRowPerUplink

LEMMA ServerInvInit == ServerInit => ServerInv
<1> SUFFICES ASSUME ServerInit PROVE ServerInv
  OBVIOUS
<1>1. LedgerInv
  BY LedgerInvInit DEF ServerInit
<1>2. devices \in [DeviceIds -> Device \cup {Null}]
  <2>1. \A e \in DevEuis \cup {Null} : NewDevice(e) \in Device
    BY DEF NewDevice, Device
  <2> QED
    BY <2>1, ServerAssumption DEF ServerInit
<1>3. events = {} /\ recorded = 0
  BY DEF ServerInit, TableInit
<1>4. StoreTypeOK
  BY <1>1, <1>2, <1>3, StoreAssumption DEF StoreTypeOK, LedgerInv
<1>5. PoolOK /\ RowsKnown
  <2>1. Held = {}
    BY DEF Held, ServerInit, NoRequest
  <2> QED
    BY <2>1, FS_EmptySet, ServerAssumption DEF PoolOK, RowsKnown, KnownRow, ServerInit, NoRequest
<1>6. LogLedgerInv
  BY <1>3, LogLedgerInvInit DEF ServerInit, TableInit
<1>7. OneRowPerUplink
  <2>1. ASSUME NEW d, NEW p, NEW status
        PROVE  RowsOf(d, p, status) = {} /\ DecidedAs(d, p, status) = {}
    BY <1>3 DEF RowsOf, DecidedAs, ServerInit, NoRequest
  <2> QED
    BY <2>1, FS_EmptySet DEF OneRowPerUplink
<1> QED
  BY <1>1, <1>4, <1>5, <1>6, <1>7, RequestsOKInit, ShutdownInvInit DEF ServerInv

LEMMA ServerInvStep == ServerInv /\ [ServerNext]_serverVars => ServerInv'
<1> SUFFICES ASSUME ServerInv, [ServerNext]_serverVars PROVE ServerInv'
  OBVIOUS
<1>1. Operation \/ LateRefusal \/ UNCHANGED <<tokens, balances, events, recorded>>
  BY StepOfTables DEF ServerInv
<1>2. LedgerInv' /\ LogLedgerInv'
  BY <1>1, TablesRefine, LedgerInvStep, TablesLogged DEF ServerInv
<1>3. RequestsOK' /\ RowsKnown' /\ devices' \in [DeviceIds -> Device \cup {Null}]
  BY RequestsOKStep, RowsKnownStep DEF ServerInv
<1>4. StoreTypeOK'
  BY <1>1, <1>2, <1>3, TablesTyped DEF ServerInv, StoreTypeOK, LogTyped, LedgerInv
<1>5. OneRowPerUplink'
  BY OneRowPerUplinkStep DEF ServerInv, LogLedgerInv
<1> QED
  BY <1>2, <1>3, <1>4, <1>5, PoolOKStep, ShutdownInvStep DEF ServerInv

LEMMA ServerInvAlways == ServerSpec => []ServerInv
BY ServerInvInit, ServerInvStep, PTL DEF ServerSpec

-----------------------------------------------------------------------------

\* Requests, connections and the process keep their types, and the pool never
\* has more clients out than it owns.
THEOREM ServerTypeCorrect == ServerSpec => []ServerTypeOK
<1>1. ServerInv => ServerTypeOK
  BY DEF ServerInv, RequestsOK, RequestRecord, PoolOK, ShutdownInv, ServerTypeOK
<1> QED
  BY <1>1, ServerInvAlways, PTL

\* However often the process is signalled, it does not end while a client waits
\* for an answer, and refuses none for a store that is closed.
THEOREM ServerCutsNobodyOff == ServerSpec => []NoClientCutOff
<1>1. ServerInv => NoClientCutOff
  BY DEF ServerInv, ShutdownInv, Drained, NoClientCutOff
<1> QED
  BY <1>1, ServerInvAlways, PTL

\* Wherever the webhook finds a DevEUI linked by the time it looks, and however
\* links and uplinks overlap, only a device's own signature and requests to link
\* it change its row.
THEOREM ServerUplinksActForSigner == ServerSpec => UplinksActForSigner
<1>1. ServerInv /\ [ServerNext]_serverVars =>
        [\A d \in DeviceIds : (devices[d] # Null /\ devices'[d] # devices[d]) =>
           \E r \in Requests :
              /\ request[r].device = d
              /\ \/ LinkUpdateDevice(r) \/ LinkSaveNonce(r)
                 \/ Commit(r) /\ request[r].call.msg.signer = d]_serverVars
  BY DevicesStep DEF ServerInv, StoreTypeOK, ActsFor
<1> QED
  BY <1>1, ServerInvAlways, PTL DEF ServerSpec, UplinksActForSigner

\* Every uplink that is decided leaves one row, whether its client is still there
\* or not, and no row is there without one, through shutdown, shortage of
\* clients and repeated delivery; of messages, retention may have taken some.
THEOREM ServerRecordsOnce == ServerSpec => []OneRowPerUplink
<1>1. ServerInv => OneRowPerUplink
  BY DEF ServerInv
<1> QED
  BY <1>1, ServerInvAlways, PTL

\* Ledger and log agree although a refusal is recorded after its transaction and
\* the process may end between the two.
THEOREM ServerLedgerMatchesLog == ServerSpec => []LedgerMatchesLog
<1>1. ServerInv => LedgerMatchesLog
  BY DEF ServerInv, LogLedgerInv
<1> QED
  BY <1>1, ServerInvAlways, PTL

\* The process implements the token ledger.
THEOREM ServerImplementsLedger == ServerSpec => LedgerSpec
<1>1. ServerInit => LedgerInit
  BY DEF ServerInit
<1>2. ServerInv /\ [ServerNext]_serverVars => [LedgerNext]_ledgerVars
  BY StepOfTables, TablesRefine DEF ServerInv
<1> QED
  BY <1>1, <1>2, ServerInvAlways, PTL DEF ServerSpec, LedgerSpec

-----------------------------------------------------------------------------
\* How far requests get.

\* A step of a handler answers its request, or takes it on.
LEMMA HandlerMoves ==
    ASSUME RequestsOK, RowsKnown, StoreTypeOK, ServerNext,
           NEW r \in Requests, Handle(r) \/ PoolRefuses(r)
    PROVE  /\ request[r].stage \in InProgress
           /\ StageRank(request[r].stage) < StageRank(request'[r].stage)
           /\ \A q \in Requests \ {r} : request'[q] = request[q]
           /\ \/ /\ request'[r].stage = "finished"
                 /\ recorded' = recorded \/ recorded' = recorded + 1
                 /\ conn' = [conn EXCEPT ![r] = IF conn[r] = "waiting" THEN "kept" ELSE conn[r]]
              \/ request'[r].stage \in InProgress /\ UNCHANGED <<recorded, conn>>
<1>1. request \in [Requests -> RequestRecord] /\ request[r].stage \in InProgress
  BY HandlerStage DEF RequestsOK
<1>2. ASSUME NEW q \in RequestRecord, GoesOn(r, q)
      PROVE  /\ StageRank(request[r].stage) < StageRank(request'[r].stage)
             /\ \A c \in Requests \ {r} : request'[c] = request[c]
             /\ request'[r].stage \in InProgress /\ UNCHANGED <<recorded, conn>>
  BY <1>1, <1>2 DEF GoesOn
<1>3. ASSUME NEW reply, Replies(r, reply)
      PROVE  /\ request'[r].stage = "finished"
             /\ \A c \in Requests \ {r} : request'[c] = request[c]
             /\ conn' = [conn EXCEPT ![r] = IF conn[r] = "waiting" THEN "kept" ELSE conn[r]]
  BY <1>1, <1>3 DEF Replies, RequestRecord
<1>4. StageRank(request[r].stage) < StageRank("finished")
  BY <1>1 DEF StageRank, InProgress, LinkStages
<1>5. recorded' = recorded \/ recorded' = recorded + 1
  BY StepOfTables, OperationSaves DEF Operation, LateRefusal, Accept, AppendEvent
<1>6. (\E reply : Replies(r, reply)) \/ (\E q \in RequestRecord : GoesOn(r, q))
  BY HandlerGoesOn DEF StoreTypeOK, PoolRefuses
<1> QED
  BY <1>1, <1>2, <1>3, <1>4, <1>5, <1>6

-----------------------------------------------------------------------------
\* Nobody is stuck.

\* Whoever waits for an answer has a handler at work, and no request arrives
\* that has no room for its event.
Unfinished == {r \in Requests : request[r].stage # "finished"}

ProgressInv ==
    /\ \A r \in Requests : conn[r] = "waiting" => request[r].stage \in InProgress
    /\ recorded \in Nat /\ recorded + Cardinality(Unfinished) <= MaxRequests

LEMMA UnfinishedFinite == IsFiniteSet(Unfinished) /\ Cardinality(Unfinished) \in Nat
<1>1. IsFiniteSet(Unfinished)
  BY RequestsFinite, FS_Subset DEF Unfinished
<1> QED
  BY <1>1, FS_CardinalityType

LEMMA ProgressInvInit == ServerInit => ProgressInv
<1> SUFFICES ASSUME ServerInit PROVE ProgressInv
  OBVIOUS
<1>1. \A r \in Requests : conn[r] = "gone"
  BY DEF ServerInit
<1>2. Unfinished = 1..MaxRequests
  BY DEF ServerInit, NoRequest, Unfinished, Requests
<1>3. MaxRequests \in Nat /\ 1 \in Int
  BY ServerAssumption, StoreAssumption
<1>4. Cardinality(1..MaxRequests) = MaxRequests
  <2>1. Cardinality(1..MaxRequests) = IF 1 > MaxRequests THEN 0 ELSE MaxRequests - 1 + 1
    BY <1>3, FS_Interval
  <2> QED
    BY <1>3, <2>1
<1>5. recorded = 0
  BY DEF ServerInit, TableInit
<1> QED
  BY <1>1, <1>2, <1>3, <1>4, <1>5 DEF ProgressInv

LEMMA ProgressInvStep ==
    ASSUME RequestsOK, RowsKnown, StoreTypeOK, ShutdownInv, ProgressInv,
           [ServerNext]_serverVars
    PROVE  ProgressInv'
<1>1. MaxRequests \in Nat /\ recorded \in Nat
  BY ServerAssumption, StoreAssumption DEF ProgressInv
<1>2. ASSUME NEW r \in Requests, Handle(r) \/ PoolRefuses(r) PROVE ProgressInv'
  <2> ServerNext
    BY <1>2 DEF ServerNext
  <2>1. /\ request[r].stage \in InProgress
        /\ \A q \in Requests \ {r} : request'[q] = request[q]
    BY <1>2, HandlerMoves
  <2>2. CASE request'[r].stage \in InProgress /\ UNCHANGED <<recorded, conn>>
    <3>1. Unfinished' = Unfinished
      BY <2>1, <2>2 DEF Unfinished, InProgress, LinkStages
    <3> QED
      BY <2>1, <2>2, <3>1 DEF ProgressInv
  <2>3. CASE /\ request'[r].stage = "finished"
             /\ recorded' = recorded \/ recorded' = recorded + 1
             /\ conn' = [conn EXCEPT ![r] = IF conn[r] = "waiting" THEN "kept" ELSE conn[r]]
    <3>1. Unfinished' = Unfinished \ {r} /\ r \in Unfinished
      BY <2>1, <2>3 DEF Unfinished, InProgress, LinkStages
    <3>2. Cardinality(Unfinished \ {r}) = Cardinality(Unfinished) - 1
      BY <3>1, UnfinishedFinite, FS_RemoveElement
    <3>3. recorded' \in Nat /\ recorded' + Cardinality(Unfinished') <= MaxRequests
      BY <1>1, <2>3, <3>1, <3>2, UnfinishedFinite DEF ProgressInv
    <3>4. \A q \in Requests : conn'[q] = "waiting" => q # r /\ conn[q] = "waiting"
      BY <2>3 DEF ShutdownInv
    <3>5. \A q \in Requests : conn'[q] = "waiting" => request'[q].stage \in InProgress
      BY <2>1, <3>4 DEF ProgressInv
    <3> QED
      BY <3>3, <3>5 DEF ProgressInv
  <2> QED
    BY <1>2, <2>2, <2>3, HandlerMoves
<1>3. ASSUME NEW r \in Requests, NEW call \in Calls, Receive(r, call) PROVE ProgressInv'
  <2>1. /\ request[r].stage = "none" /\ recorded' = recorded
        /\ request' = [request EXCEPT ![r] = Arrived(call)]
    BY <1>3 DEF Receive, At, storeVars
  <2>2. Arrived(call).stage \in {"received", "found"}
    BY ArrivedOK
  <2>3. request'[r].stage \in {"received", "found"}
        /\ \A q \in Requests \ {r} : request'[q] = request[q]
    BY <2>1, <2>2 DEF RequestsOK
  <2>4. Unfinished' = Unfinished
    BY <2>1, <2>3 DEF Unfinished
  <2>5. \A q \in Requests \ {r} : conn'[q] = "waiting" => conn[q] = "waiting"
    BY <1>3 DEF Receive, ShutdownInv
  <2> QED
    BY <2>1, <2>3, <2>4, <2>5 DEF ProgressInv, InProgress
<1>4. ASSUME UNCHANGED <<request, recorded>>,
             \A q \in Requests : conn'[q] = "waiting" => conn[q] = "waiting"
      PROVE  ProgressInv'
  BY <1>4 DEF ProgressInv, Unfinished
<1>5. CASE \/ \E r \in Requests : Leave(r) \/ IdleEnds(r)
           \/ Signal \/ ServerCloses \/ PoolEnds \/ UNCHANGED serverVars
  <2>1. UNCHANGED <<request, recorded>>
    BY <1>5 DEF Leave, IdleEnds, Signal, ServerCloses, PoolEnds, serverVars, storeVars
  <2>2. \A q \in Requests : conn'[q] = "waiting" => conn[q] = "waiting"
    BY <1>5 DEF Leave, IdleEnds, Signal, ServerCloses, PoolEnds, serverVars, ShutdownInv
  <2> QED
    BY <1>4, <2>1, <2>2
<1> QED
  BY <1>2, <1>3, <1>5 DEF ServerNext

LEMMA ProgressInvAlways == ServerSpec => []ProgressInv
<1>1. ServerInv /\ ProgressInv /\ [ServerNext]_serverVars => ProgressInv'
  BY ProgressInvStep DEF ServerInv
<1> QED
  BY <1>1, ProgressInvInit, ServerInvAlways, PTL DEF ServerSpec

\* What a handler needs at its stage is there: the guards of Handle(r).
CanHandle(r) ==
    \/ At(r, "received") /\ (Route(r) = "stray" \/ ClientFree)
    \/ At(r, "begun")
    \/ At(r, "selected") /\ recorded < MaxEvents
    \/ At(r, "refused") /\ ClientFree /\ recorded < MaxEvents
    \/ (\E stage \in {"found"} \cup LinkStages : At(r, stage)) /\ ClientFree

\* So are the guards of IdleEnds, ServerCloses and PoolEnds.
CanGo ==
    \/ \E r \in Requests : CanHandle(r) \/ (exit = "running" /\ conn[r] = "kept")
    \/ exit = "running" /\ listener = "closing" /\ Drained
    \/ exit = "running" /\ pool = "ending" /\ Held = {}

\* A request is being served, or a shutdown is under way.
Busy ==
    /\ exit = "running"
    /\ listener # "listening" \/ \E r \in Requests : request[r].stage \in InProgress

\* While a request is served the process can go on; a request that the pool of a
\* closing store leaves in its queue does not count, for then the process can end.
NeverStuck == Busy => CanGo

\* While the pool is open some request in progress can go on: one that has a
\* client, or else, since all clients are back, any.
LEMMA OpenPoolServes ==
    ASSUME RequestsOK, ProgressInv, exit = "running", pool = "open",
           NEW q \in Requests, request[q].stage \in InProgress
    PROVE  \E r \in Requests : CanHandle(r)
<1>1. recorded < MaxEvents
  <2>1. q \in Unfinished
    BY DEF Unfinished, InProgress, LinkStages
  <2>2. Cardinality(Unfinished) # 0
    BY <2>1, UnfinishedFinite, FS_EmptySet
  <2> QED
    BY <2>2, UnfinishedFinite, ServerAssumption, StoreAssumption DEF ProgressInv
<1>2. CASE Held = {}
  <2>1. ClientFree
    BY <1>2, FS_EmptySet, ServerAssumption DEF ClientFree
  <2>2. CanHandle(q)
    BY <1>1, <1>2, <2>1 DEF CanHandle, At, InProgress, LinkStages, Held
  <2> QED
    BY <2>2
<1>3. CASE Held # {}
  <2>1. PICK r \in Requests : request[r].stage \in {"begun", "selected"}
    BY <1>3 DEF Held
  <2>2. CanHandle(r)
    BY <1>1, <2>1 DEF CanHandle, At
  <2> QED
    BY <2>2
<1> QED
  BY <1>2, <1>3

LEMMA BusyCanGo == RequestsOK /\ ShutdownInv /\ ProgressInv => NeverStuck
<1> SUFFICES ASSUME RequestsOK, ShutdownInv, ProgressInv, Busy PROVE CanGo
  BY DEF NeverStuck
<1>1. exit = "running" /\ (pool = "open" \/ pool = "ending")
  BY DEF Busy, ShutdownInv
<1>2. CASE listener = "closed"
  <2>1. pool = "ending"
    BY <1>2 DEF ShutdownInv
  <2>2. CASE Held = {}
    BY <1>1, <2>1, <2>2 DEF CanGo
  <2>3. CASE Held # {}
    <3>1. PICK r \in Requests : request[r].stage \in {"begun", "selected"}
      BY <2>3 DEF Held
    <3>2. r \in Unfinished
      BY <3>1 DEF Unfinished
    <3>3. Cardinality(Unfinished) # 0
      BY <3>2, UnfinishedFinite, FS_EmptySet
    <3>4. recorded < MaxEvents
      BY <3>3, UnfinishedFinite, ServerAssumption, StoreAssumption DEF ProgressInv
    <3> QED
      BY <1>1, <3>1, <3>4 DEF CanGo, CanHandle, At
  <2> QED
    BY <2>2, <2>3
<1>3. CASE listener # "closed"
  <2>1. pool = "open" /\ listener \in {"listening", "closing"}
    BY <1>1, <1>3 DEF ShutdownInv
  <2>2. CASE \E r \in Requests : request[r].stage \in InProgress
    BY <1>1, <2>1, <2>2, OpenPoolServes DEF CanGo
  <2>3. CASE \A r \in Requests : request[r].stage \notin InProgress
    <3>1. listener = "closing"
      BY <2>1, <2>3 DEF Busy
    <3>2. \A r \in Requests : conn[r] = "kept" \/ conn[r] = "gone"
      BY <2>3 DEF ProgressInv, ShutdownInv
    <3> QED
      BY <1>1, <3>1, <3>2 DEF CanGo, Drained
  <2> QED
    BY <2>2, <2>3
<1> QED
  BY <1>2, <1>3

\* However requests, signals and departures interleave, the process can go on
\* while it serves or shuts down: nobody waits for a client of the pool that
\* nobody will give back, and the shutdown for no connection that will not end.
THEOREM ServerNeverStuck == ServerSpec => []NeverStuck
<1>1. ServerInv /\ ProgressInv => NeverStuck
  BY BusyCanGo DEF ServerInv
<1> QED
  BY <1>1, ServerInvAlways, ProgressInvAlways, PTL

-----------------------------------------------------------------------------
\* Every request runs down.

\* A handler's step takes its request on, and nothing takes one back; and a
\* connection opens with its request, is kept once and goes for good.
RunsDown ==
    [][\A r \in Requests :
         /\ Handle(r) => StageRank(request[r].stage) < StageRank(request'[r].stage)
         /\ \/ request'[r].stage = request[r].stage
            \/ StageRank(request[r].stage) < StageRank(request'[r].stage)
         /\ \/ conn'[r] = conn[r]
            \/ <<conn[r], conn'[r]>> \in {<<"waiting", "kept">>, <<"waiting", "gone">>, <<"kept", "gone">>}
            \/ request[r].stage = "none" /\ request'[r].stage # "none"]_serverVars

LEMMA StepRunsDown ==
    ASSUME RequestsOK, RowsKnown, StoreTypeOK, ShutdownInv, ServerNext, NEW r \in Requests
    PROVE  /\ Handle(r) => StageRank(request[r].stage) < StageRank(request'[r].stage)
           /\ \/ request'[r].stage = request[r].stage
              \/ StageRank(request[r].stage) < StageRank(request'[r].stage)
           /\ \/ conn'[r] = conn[r]
              \/ <<conn[r], conn'[r]>> \in {<<"waiting", "kept">>, <<"waiting", "gone">>, <<"kept", "gone">>}
              \/ request[r].stage = "none" /\ request'[r].stage # "none"
<1> DEFINE Onward == \/ request'[r].stage = request[r].stage
                     \/ StageRank(request[r].stage) < StageRank(request'[r].stage)
           Closing == \/ conn'[r] = conn[r]
                      \/ <<conn[r], conn'[r]>> \in
                            {<<"waiting", "kept">>, <<"waiting", "gone">>, <<"kept", "gone">>}
           Opening == request[r].stage = "none" /\ request'[r].stage # "none"
<1>1. Handle(r) => StageRank(request[r].stage) < StageRank(request'[r].stage)
  BY HandlerMoves
<1>2. ASSUME NEW q \in Requests, Handle(q) \/ PoolRefuses(q) PROVE Onward /\ Closing
  <2>1. Onward
    BY <1>2, HandlerMoves
  <2>2. \/ conn' = [conn EXCEPT ![q] = IF conn[q] = "waiting" THEN "kept" ELSE conn[q]]
        \/ conn' = conn
    BY <1>2, HandlerMoves
  <2>3. Closing
    BY <2>2 DEF ShutdownInv
  <2> QED
    BY <2>1, <2>3
<1>3. ASSUME NEW q \in Requests, NEW call \in Calls, Receive(q, call)
      PROVE  Onward /\ (Closing \/ Opening)
  <2>1. request[q].stage = "none" /\ request' = [request EXCEPT ![q] = Arrived(call)]
    BY <1>3 DEF Receive, At
  <2>2. Arrived(call).stage \in {"received", "found"}
    BY ArrivedOK
  <2>3. CASE r = q
    <3>1. request[r].stage = "none" /\ request'[r].stage \in {"received", "found"}
      BY <2>1, <2>2, <2>3 DEF RequestsOK
    <3> QED
      BY <3>1 DEF StageRank
  <2>4. CASE r # q
    <3>1. request'[r] = request[r]
      BY <2>1, <2>4 DEF RequestsOK
    <3>2. conn'[r] = conn[r] \/ (conn[r] = "kept" /\ conn'[r] = "gone")
      BY <1>3, <2>4 DEF Receive, ShutdownInv
    <3> QED
      BY <3>1, <3>2
  <2> QED
    BY <2>3, <2>4
<1>4. ASSUME \/ \E q \in Requests : Leave(q) \/ IdleEnds(q)
             \/ Signal \/ ServerCloses \/ PoolEnds
      PROVE  Onward /\ Closing
  <2>1. request' = request
    BY <1>4 DEF Leave, IdleEnds, Signal, ServerCloses, PoolEnds
  <2>2. Closing
    BY <1>4 DEF Leave, IdleEnds, Signal, ServerCloses, PoolEnds, ShutdownInv
  <2> QED
    BY <2>1, <2>2
<1>5. Onward /\ (Closing \/ Opening)
  BY <1>2, <1>3, <1>4 DEF ServerNext
<1> QED
  BY <1>1, <1>5

\* A request makes eight steps at most, and its connection two once it is open.
THEOREM ServerRunsDown == ServerSpec => RunsDown
<1>1. ServerInv /\ [ServerNext]_serverVars =>
        [\A r \in Requests :
           /\ Handle(r) => StageRank(request[r].stage) < StageRank(request'[r].stage)
           /\ \/ request'[r].stage = request[r].stage
              \/ StageRank(request[r].stage) < StageRank(request'[r].stage)
           /\ \/ conn'[r] = conn[r]
              \/ <<conn[r], conn'[r]>> \in {<<"waiting", "kept">>, <<"waiting", "gone">>, <<"kept", "gone">>}
              \/ request[r].stage = "none" /\ request'[r].stage # "none"]_serverVars
  BY StepRunsDown DEF ServerInv
<1> QED
  BY <1>1, ServerInvAlways, PTL DEF ServerSpec, RunsDown
=============================================================================
