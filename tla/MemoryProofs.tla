---------------------------- MODULE MemoryProofs ----------------------------
(***************************************************************************)
(* The service on MemoryStore, for any number of requests in a macrotask,  *)
(* of whichever devices, and any order of their turns: what no request can *)
(* spoil.  No theorem has a hypothesis about who shares a macrotask.       *)
(***************************************************************************)
EXTENDS MemoryIndexer, TLAPS, FiniteSetTheorems, SequenceTheorems

\* What holds of the tables whichever store keeps them, for this one's.
SP == INSTANCE StoreProofs

-----------------------------------------------------------------------------
\* The instance.

\* Sizes of sets are the same in both.
LEMMA SameSizes ==
    ASSUME NEW X
    PROVE  /\ SP!IsFiniteSet(X) = IsFiniteSet(X)
           /\ SP!Cardinality(X) = Cardinality(X)
           /\ S!Cardinality(X) = Cardinality(X)
<1>1. SP!IsFiniteSet(X) = IsFiniteSet(X)
  BY DEF SP!IsFiniteSet, IsFiniteSet
<1>2. SP!Cardinality(X) = Cardinality(X)
  BY DEF SP!Cardinality, Cardinality
<1>3. S!Cardinality(X) = Cardinality(X)
  BY DEF S!Cardinality, Cardinality
<1> QED
  BY <1>1, <1>2, <1>3

\* Its assumptions are this module's.
LEMMA StoreConstants == SP!ProtocolAssumption /\ SP!StoreAssumption
<1>1. SP!StoreAssumption
  BY MemoryAssumption DEF SP!StoreAssumption
<1>2. SP!Device = Device /\ SP!Token = Token
  BY DEF SP!Device, Device, SP!Token, Token, SP!Nonces, Nonces, SP!Intervals, Intervals,
         SP!Amounts, Amounts
<1>3. /\ SP!DeployPayload = DeployPayload /\ SP!MintPayload = MintPayload
      /\ SP!TransferPayload = TransferPayload /\ SP!MessagePayload = MessagePayload
      /\ SP!ConfigPayload = ConfigPayload
  BY DEF SP!DeployPayload, DeployPayload, SP!MintPayload, MintPayload, SP!TransferPayload,
         TransferPayload, SP!MessagePayload, MessagePayload, SP!ConfigPayload, ConfigPayload,
         SP!Nonces, Nonces, SP!Intervals, Intervals, SP!Amounts, Amounts
<1>4. SP!ProtocolAssumption
  <2>1. /\ IsFiniteSet(DeviceIds)
        /\ MaxAmount \in Nat /\ MaxNonce \in Nat /\ MaxInterval \in Nat
        /\ PublicChat \notin DeviceIds /\ Null \notin Int /\ Null \notin DevEuis
    BY ProtocolAssumption
  <2>2. Null \notin SP!Device /\ Null \notin SP!Token
    BY <1>2, ProtocolAssumption, Zenon
  <2>3. \A p \in Payloads :
          \/ p \in SP!DeployPayload  \/ p \in SP!MintPayload  \/ p \in SP!TransferPayload
          \/ p \in SP!MessagePayload \/ p \in SP!ConfigPayload
    BY <1>3, ProtocolAssumption, Zenon
  <2> QED
    BY <2>1, <2>2, <2>3, SameSizes, Zenon DEF SP!ProtocolAssumption
<1> QED
  BY <1>1, <1>4

LEMMA PayloadFields ==
    ASSUME NEW p \in Payloads
    PROVE  /\ p.op \in {"DEPLOY", "MINT", "TRANSFER", "MESSAGE", "CONFIG"}
           /\ p.nonce \in Nat /\ p.nonce \in Nonces
           /\ p.op = "DEPLOY" => /\ p.tick \in Ticks
                                 /\ p.maxSupply \in Amounts /\ p.maxSupply \in Nat
                                 /\ p.limitPerMint \in Amounts /\ p.limitPerMint \in Nat
           /\ p.op = "MINT" => p.tick \in Ticks /\ p.amount \in Amounts /\ p.amount \in Nat
           /\ p.op = "TRANSFER" => /\ p.tick \in Ticks /\ p.recipient \in DeviceIds
                                   /\ p.amount \in Amounts /\ p.amount \in Nat
           /\ p.op = "MESSAGE" => p.recipient \in DeviceIds \cup {PublicChat}
           /\ p.op = "CONFIG" => p.enabled \in BOOLEAN /\ p.interval \in Intervals
<1>1. p.op = "MESSAGE" => p.recipient \in DeviceIds \cup {PublicChat}
  BY ProtocolAssumption DEF DeployPayload, MintPayload, TransferPayload, MessagePayload, ConfigPayload
<1> QED
  BY <1>1, StoreConstants, SP!PayloadFields
  DEF SP!Nonces, Nonces, SP!Intervals, Intervals, SP!Amounts, Amounts

\* Recording an event is the same act in both.
LEMMA SameAppend ==
    ASSUME NEW status, NEW reason, NEW d, NEW p, S!AppendEvent(status, reason, d, p)
    PROVE  SP!AppendEvent(status, reason, d, p)
<1>1. \A at : S!Event(at, status, reason, d, p) = SP!Event(at, status, reason, d, p)
  BY DEF S!Event, SP!Event
<1>2. \A log : S!Prunings(log) = SP!Prunings(log)
  BY SameSizes DEF S!Prunings, SP!Prunings
<1> QED
  BY <1>1, <1>2 DEF S!AppendEvent, SP!AppendEvent

-----------------------------------------------------------------------------
\* Types.

\* A token with terms handleDeploy accepts, and no more of it than they allow.
SoundToken ==
    {o \in Token : /\ o.totalSupply <= o.maxSupply
                   /\ 0 < o.limitPerMint /\ o.limitPerMint <= o.maxSupply}

TablesTyped ==
    /\ devices \in [DeviceIds -> Device \cup {Null}]
    /\ balances \in [Ticks -> [DeviceIds -> Int]]
    /\ objects \in Seq(SoundToken) /\ tokenAt \in [Ticks -> 0..Len(objects)]
    /\ SP!LogTyped

Registered == {d \in DeviceIds : devices[d] # Null}

\* A continuation is of its operation, of a registered device once the checks
\* are passed, and its token object is one of the first n.
Fits(c, n, known) ==
    /\ c \in Continuation /\ c.token <= n
    /\ c.at # "start" => c.job.kind = "ingest"
    /\ c.at \notin {"start", "reject"} =>
          c.job.deviceId \in known /\ PayloadError(c.job.msg) = NoError
    /\ c.at = "token" => c.job.msg.op \in {"DEPLOY", "MINT", "TRANSFER"}
    /\ c.at = "recipient" => c.job.msg.op \in {"TRANSFER", "MESSAGE"}
                             /\ c.job.msg.recipient # PublicChat
    /\ c.at = "debit" => c.job.msg.op = "TRANSFER"
    /\ c.at = "credit" => c.job.msg.op \in {"MINT", "TRANSFER"}
    /\ c.at = "save" => c.job.msg.op \in {"DEPLOY", "MINT", "TRANSFER"}

QueueTyped ==
    /\ queue \in Seq(Continuation)
    /\ \A i \in DOMAIN queue : Fits(queue[i], Len(objects), Registered)

TypeInv == TablesTyped /\ QueueTyped

LEMMA JobFields ==
    ASSUME NEW j \in Jobs
    PROVE  /\ j.deviceId \in DeviceIds /\ j.kind \in {"ingest", "link"}
           /\ j.kind = "ingest" => j.msg \in Payloads
           /\ j.kind = "link" => j.devEui \in DevEuis
BY DEF Jobs

\* What is known of the request at the head.
LEMMA HeadFits ==
    ASSUME TypeInv, queue # <<>>
    PROVE  /\ 1 \in DOMAIN queue /\ Head(queue) = queue[1]
           /\ Head(queue) \in Continuation /\ Head(queue).job \in Jobs
           /\ Fits(Head(queue), Len(objects), Registered)
           /\ Len(objects) \in Nat
<1>1. Len(queue) \in Nat \ {0} /\ DOMAIN queue = 1..Len(queue) /\ Head(queue) = queue[1]
  BY EmptySeq, LenProperties DEF TypeInv, QueueTyped
<1>2. Fits(Head(queue), Len(objects), Registered)
  BY <1>1 DEF TypeInv, QueueTyped
<1>3. Head(queue) \in Continuation /\ Head(queue).job \in Jobs
  BY <1>2 DEF Fits, Continuation
<1>4. Len(objects) \in Nat
  BY LenProperties DEF TypeInv, TablesTyped
<1> QED
  BY <1>1, <1>2, <1>3, <1>4

\* The queue after the head has moved behind the others, or has left.
LEMMA QueueTurns ==
    ASSUME queue \in Seq(Continuation), queue # <<>>, NEW c, AwaitAs(c)
    PROVE  /\ c \in Continuation => queue' \in Seq(Continuation)
           /\ Len(queue') = Len(queue) /\ DOMAIN queue' = 1..Len(queue)
           /\ Len(queue) \in Nat /\ DOMAIN queue = 1..Len(queue)
           /\ \A i \in DOMAIN queue' :
                 \/ i = Len(queue) /\ queue'[i] = c
                 \/ i < Len(queue) /\ i + 1 \in DOMAIN queue /\ queue'[i] = queue[i + 1]
<1> DEFINE C == Continuation \cup {c}
<1>1. /\ Tail(queue) \in Seq(Continuation) /\ Len(Tail(queue)) = Len(queue) - 1
      /\ \A i \in 1..Len(Tail(queue)) : Tail(queue)[i] = queue[i + 1]
  BY HeadTailProperties
<1>2. Len(queue) \in Nat \ {0} /\ DOMAIN queue = 1..Len(queue)
  BY EmptySeq, LenProperties
<1>3. Tail(queue) \in Seq(C) /\ c \in C
  BY <1>1, SeqMonotonic
<1>4. c \in Continuation => C = Continuation
  OBVIOUS
<1> HIDE DEF C
<1>5. /\ queue' \in Seq(C) /\ Len(queue') = Len(Tail(queue)) + 1
      /\ \A i \in 1..Len(Tail(queue)) : queue'[i] = Tail(queue)[i]
      /\ queue'[Len(Tail(queue)) + 1] = c
  BY <1>3, AppendProperties DEF AwaitAs
<1>6. DOMAIN queue' = 1..Len(queue')
  BY <1>5, LenProperties
<1> QED
  BY <1>1, <1>2, <1>4, <1>5, <1>6

LEMMA QueueShrinks ==
    ASSUME queue \in Seq(Continuation), queue # <<>>, Return
    PROVE  /\ queue' \in Seq(Continuation) /\ Len(queue') = Len(queue) - 1
           /\ \A i \in DOMAIN queue' : i + 1 \in DOMAIN queue /\ queue'[i] = queue[i + 1]
<1>1. /\ queue' \in Seq(Continuation) /\ Len(queue') = Len(queue) - 1
      /\ \A i \in 1..Len(queue') : queue'[i] = queue[i + 1]
  BY HeadTailProperties DEF Return
<1>2. /\ Len(queue) \in Nat /\ DOMAIN queue = 1..Len(queue)
      /\ DOMAIN queue' = 1..Len(queue')
  BY <1>1, LenProperties
<1> QED
  BY <1>1, <1>2

\* Devices stay registered and objects stay where they are, so the others wait
\* unharmed.
LEMMA FitsStill ==
    ASSUME NEW c, NEW n \in Nat, NEW m \in Nat, NEW known, NEW more,
           Fits(c, n, known), n <= m, known \subseteq more
    PROVE  Fits(c, m, more)
<1>1. c.token \in Nat
  BY DEF Fits, Continuation
<1> QED
  BY <1>1 DEF Fits

Grows == /\ Len(objects') \in Nat /\ Len(objects) <= Len(objects')
         /\ Registered \subseteq Registered'

LEMMA MovesOn ==
    ASSUME TypeInv, queue # <<>>, Grows, NEW c, AwaitAs(c), Fits(c, Len(objects'), Registered')
    PROVE  QueueTyped'
<1>1. queue \in Seq(Continuation) /\ c \in Continuation
  BY DEF TypeInv, QueueTyped, Fits
<1>2. /\ queue' \in Seq(Continuation)
      /\ \A i \in DOMAIN queue' :
            queue'[i] = c \/ (i + 1 \in DOMAIN queue /\ queue'[i] = queue[i + 1])
  BY <1>1, QueueTurns
<1>3. \A i \in DOMAIN queue : Fits(queue[i], Len(objects'), Registered')
  BY HeadFits, FitsStill DEF TypeInv, QueueTyped, Grows
<1> QED
  BY <1>2, <1>3 DEF QueueTyped

LEMMA Leaves ==
    ASSUME TypeInv, queue # <<>>, Grows, Return
    PROVE  QueueTyped'
<1>1. queue \in Seq(Continuation)
  BY DEF TypeInv, QueueTyped
<1>2. /\ queue' \in Seq(Continuation)
      /\ \A i \in DOMAIN queue' : i + 1 \in DOMAIN queue /\ queue'[i] = queue[i + 1]
  BY <1>1, QueueShrinks
<1>3. \A i \in DOMAIN queue : Fits(queue[i], Len(objects'), Registered')
  BY HeadFits, FitsStill DEF TypeInv, QueueTyped, Grows
<1> QED
  BY <1>2, <1>3 DEF QueueTyped

\* A store that is left alone has grown.
LEMMA GrowsIfKept ==
    ASSUME TypeInv, objects' = objects, devices' = devices
    PROVE  Grows /\ Registered' = Registered /\ Len(objects') = Len(objects)
BY LenProperties DEF TypeInv, TablesTyped, Grows, Registered

\* The head goes on to the handler of its exception.
LEMMA ThrowFits ==
    ASSUME TypeInv, queue # <<>>, Head(queue).job.kind = "ingest", Grows,
           NEW code \in Reasons \cup S!StoreErrors, Throw(code)
    PROVE  QueueTyped'
<1> DEFINE c == [Head(queue) EXCEPT !.at = "reject", !.reason = code]
<1>1. Fits(Head(queue), Len(objects), Registered) /\ Len(objects) \in Nat
  BY HeadFits
<1>2. Fits(Head(queue), Len(objects'), Registered')
  BY <1>1, FitsStill DEF Grows
<1>3. Fits(c, Len(objects'), Registered')
  BY <1>2 DEF Fits, Continuation
<1>4. AwaitAs(c)
  BY DEF Throw
<1> HIDE DEF c
<1> QED
  BY <1>3, <1>4, MovesOn

-----------------------------------------------------------------------------
\* The steps, one by one.

LEMMA RowsSaved ==
    ASSUME TablesTyped, NEW d \in Registered, NEW p \in Payloads
    PROVE  /\ devices[d] \in Device /\ d \in DeviceIds
           /\ AcceptNonce(devices[d], p) \in Device
           /\ p.op = "CONFIG" => ApplyConfig(devices[d], p) \in Device
<1>1. devices[d] \in Device /\ d \in DeviceIds
  BY DEF TablesTyped, Registered
<1>2. AcceptNonce(devices[d], p) \in Device
  BY <1>1, PayloadFields DEF AcceptNonce, Device
<1>3. p.op = "CONFIG" => ApplyConfig(devices[d], p) \in Device
  BY <1>1, PayloadFields DEF ApplyConfig, Device
<1> QED
  BY <1>1, <1>2, <1>3

\* A device object is written; the request appends its event, or throws.
LEMMA SaveDeviceTyped ==
    ASSUME TypeInv, queue # <<>>, Head(queue).job.kind = "ingest",
           NEW device \in Device, Head(queue).job.deviceId \in Registered,
           PayloadError(Head(queue).job.msg) = NoError,
           SaveDevice(Head(queue).job.deviceId, device),
           UNCHANGED <<balances, events, recorded, tokenVars>>
    PROVE  TypeInv'
<1> DEFINE d == Head(queue).job.deviceId
           c == [Head(queue) EXCEPT !.at = "append"]
<1>1. d \in DeviceIds /\ devices' = [devices EXCEPT ![d] = device]
  BY DEF SaveDevice, Registered
<1>2. device # Null
  <2>1. Null \notin Device
    BY ProtocolAssumption
  <2> QED
    BY <2>1
<1>3. devices' \in [DeviceIds -> Device \cup {Null}] /\ Registered' = Registered
  BY <1>1, <1>2 DEF TypeInv, TablesTyped, Registered
<1>4. TablesTyped'
  BY <1>3 DEF TypeInv, TablesTyped, tokenVars, SP!LogTyped, SP!EventRow
<1>5. Grows /\ Len(objects') = Len(objects)
  BY <1>3, LenProperties DEF TypeInv, TablesTyped, Grows, tokenVars
<1>6. CASE Await("append")
  <2>1. Fits(c, Len(objects'), Registered')
    BY <1>3, <1>5, HeadFits DEF Fits, Continuation
  <2> QED
    BY <1>4, <1>5, <1>6, <2>1, MovesOn DEF Await, TypeInv
<1>7. CASE Throw("lorawan_dev_eui_already_registered")
  BY <1>4, <1>5, <1>7, ThrowFits DEF TypeInv, S!StoreErrors
<1> QED
  BY <1>6, <1>7 DEF SaveDevice

\* A step that writes no table.
LEMMA QueueOnlyTyped ==
    ASSUME TypeInv, UNCHANGED <<devices, balances, events, recorded, tokenVars>>
    PROVE  TablesTyped' /\ Grows /\ Registered' = Registered /\ Len(objects') = Len(objects)
<1>1. TablesTyped'
  BY DEF TypeInv, TablesTyped, tokenVars, SP!LogTyped, SP!EventRow
<1> QED
  BY <1>1, GrowsIfKept DEF tokenVars

LEMMA PassedChecks ==
    ASSUME NEW d \in DeviceIds, NEW p \in Payloads, AuthError(devices[d], d, p) = NoError
    PROVE  d \in Registered /\ p.signer = d /\ FreshNonce(devices[d], p.nonce)
BY DEF AuthError, NoError, Registered

LEMMA ErrorsAreReasons ==
    ASSUME NEW d, NEW device, NEW token, NEW p \in Payloads
    PROVE  /\ AuthError(device, d, p) \in Reasons
           /\ PayloadError(p) \in Reasons
           /\ MintError(token, p) \in Reasons
<1>1. AuthError(device, d, p) \in Reasons /\ MintError(token, p) \in Reasons
  BY DEF AuthError, MintError, NoError, Reasons
<1>2. PayloadError(p) \in {DeployTermsError(p), AmountError(p), NoError, ConfigError(p)}
  BY PayloadFields DEF PayloadError
<1> QED
  BY <1>1, <1>2 DEF DeployTermsError, AmountError, ConfigError, NoError, Reasons

\* What holds of the request at the head when it runs on.
LEMMA HeadRuns ==
    ASSUME TypeInv, NEW label, NEW kind, Running(label, kind)
    PROVE  /\ queue # <<>> /\ Head(queue) = queue[1] /\ 1 \in DOMAIN queue
           /\ Head(queue) \in Continuation /\ Head(queue).at = label
           /\ Head(queue).job.kind = kind /\ Head(queue).job.deviceId \in DeviceIds
           /\ kind = "ingest" => Head(queue).job.msg \in Payloads
           /\ kind = "link" => Head(queue).job.devEui \in DevEuis
           /\ Fits(Head(queue), Len(objects), Registered)
           /\ Head(queue).token \in 0..Len(objects) /\ Len(objects) \in Nat
<1>1. queue # <<>> /\ Head(queue).at = label /\ Head(queue).job.kind = kind
  BY DEF Running
<1>2. Head(queue).token \in 0..Len(objects)
  BY <1>1, HeadFits DEF Fits, Continuation
<1> QED
  BY <1>1, <1>2, HeadFits, JobFields

LEMMA GotToken ==
    ASSUME NEW c \in Continuation, NEW k \in Nat
    PROVE  LET b == [c EXCEPT !.at = "token", !.token = k]
           IN b \in Continuation /\ b.at = "token" /\ b.job = c.job /\ b.token = k
BY DEF Continuation

LEMMA BeginTyped ==
    ASSUME TypeInv, Begin
    PROVE  TypeInv'
<1> DEFINE c == Head(queue)
           d == c.job.deviceId
           p == c.job.msg
           error == IF AuthError(devices[d], d, p) # NoError THEN AuthError(devices[d], d, p)
                    ELSE PayloadError(p)
<1>1. /\ queue # <<>> /\ c \in Continuation /\ c.job.kind = "ingest" /\ c.at = "start"
      /\ d \in DeviceIds /\ p \in Payloads /\ Fits(c, Len(objects), Registered)
  BY HeadRuns DEF Begin
<1>2. UNCHANGED <<balances, events, recorded, tokenVars>>
  BY DEF Begin
<1>3. CASE error # NoError
  <2>1. Throw(error) /\ devices' = devices
    BY <1>3 DEF Begin
  <2>2. error \in Reasons
    BY <1>1, ErrorsAreReasons
  <2> HIDE DEF error
  <2>3. TablesTyped' /\ Grows
    BY <1>2, <2>1, QueueOnlyTyped
  <2> QED
    BY <1>1, <2>1, <2>2, <2>3, ThrowFits DEF TypeInv
<1>4. CASE error = NoError
  <2>1. d \in Registered /\ PayloadError(p) = NoError
    BY <1>1, <1>4, PassedChecks
  <2>2. CASE p.op \in {"DEPLOY", "MINT", "TRANSFER"}
    <3> DEFINE b == [c EXCEPT !.at = "token", !.token = tokenAt[p.tick]]
    <3>1. AwaitAs(b) /\ devices' = devices
      BY <1>4, <2>2 DEF Begin
    <3>2. TablesTyped' /\ Grows /\ Registered' = Registered /\ Len(objects') = Len(objects)
      BY <1>2, <3>1, QueueOnlyTyped
    <3>3. tokenAt[p.tick] \in 0..Len(objects) /\ Len(objects) \in Nat
      BY <1>1, <2>2, PayloadFields, HeadFits DEF TypeInv, TablesTyped
    <3>4. Fits(b, Len(objects), Registered)
      <4>1. b \in Continuation /\ b.at = "token" /\ b.job = c.job /\ b.token = tokenAt[p.tick]
        <5>1. tokenAt[p.tick] \in Nat
          BY <3>3
        <5> QED
          BY <1>1, <5>1, GotToken
      <4> HIDE DEF b
      <4> QED
        BY <1>1, <2>1, <2>2, <3>3, <4>1 DEF Fits
    <3> HIDE DEF b
    <3> QED
      BY <1>1, <3>1, <3>2, <3>4, MovesOn DEF TypeInv
  <2>3. CASE p.op = "MESSAGE" /\ p.recipient # PublicChat
    <3> DEFINE b == [c EXCEPT !.at = "recipient"]
    <3>1. AwaitAs(b) /\ devices' = devices
      BY <1>4, <2>3 DEF Begin, Await
    <3>2. TablesTyped' /\ Grows /\ Registered' = Registered /\ Len(objects') = Len(objects)
      BY <1>2, <3>1, QueueOnlyTyped
    <3>3. Fits(b, Len(objects), Registered)
      BY <1>1, <2>1, <2>3 DEF Fits, Continuation
    <3> HIDE DEF b
    <3> QED
      BY <1>1, <3>1, <3>2, <3>3, MovesOn DEF TypeInv
  <2>4. CASE p.op = "MESSAGE" /\ p.recipient = PublicChat
    <3>1. SaveDevice(d, AcceptNonce(devices[d], p))
      BY <1>4, <2>4 DEF Begin
    <3>2. AcceptNonce(devices[d], p) \in Device
      BY <1>1, <2>1, RowsSaved DEF TypeInv
    <3> QED
      BY <1>1, <1>2, <2>1, <3>1, <3>2, SaveDeviceTyped
  <2>5. CASE p.op = "CONFIG"
    <3>1. SaveDevice(d, ApplyConfig(devices[d], p))
      BY <1>4, <2>5 DEF Begin
    <3>2. ApplyConfig(devices[d], p) \in Device
      BY <1>1, <2>1, <2>5, RowsSaved DEF TypeInv
    <3> QED
      BY <1>1, <1>2, <2>1, <3>1, <3>2, SaveDeviceTyped
  <2> QED
    BY <1>1, <2>2, <2>3, <2>4, <2>5, PayloadFields
<1> QED
  BY <1>3, <1>4

\* The token map gains an object, or an object gains supply.
LEMMA CreateTokenTyped ==
    ASSUME TypeInv, CreateToken
    PROVE  TypeInv'
<1> DEFINE c == Head(queue)
           p == c.job.msg
           new == NewToken(c.job.deviceId, p)
           b == [c EXCEPT !.at = "save"]
<1>1. /\ queue # <<>> /\ c \in Continuation /\ c.job.kind = "ingest" /\ c.at = "token"
      /\ c.job.deviceId \in DeviceIds /\ p \in Payloads /\ p.op = "DEPLOY"
      /\ Fits(c, Len(objects), Registered) /\ Len(objects) \in Nat
  BY HeadRuns DEF CreateToken
<1>2. UNCHANGED <<devices, balances, events, recorded>>
  BY DEF CreateToken
<1>3. CASE c.token # 0
  <2>1. Throw("token_already_exists") /\ UNCHANGED tokenVars
    BY <1>3 DEF CreateToken
  <2>2. TablesTyped' /\ Grows
    BY <1>2, <2>1, QueueOnlyTyped
  <2> QED
    BY <1>1, <2>1, <2>2, ThrowFits DEF TypeInv, Reasons
<1>4. CASE c.token = 0
  <2>1. /\ objects' = Append(objects, new) /\ AwaitAs(b)
        /\ tokenAt' = [tokenAt EXCEPT ![p.tick] = Len(objects')]
    BY <1>4 DEF CreateToken, Await
  <2>2. new \in SoundToken
    <3>1. DeployTermsError(p) = NoError
      BY <1>1 DEF Fits, PayloadError
    <3>2. 0 < p.limitPerMint /\ p.limitPerMint <= p.maxSupply /\ 0 <= p.maxSupply
      BY <1>1, <3>1, PayloadFields DEF DeployTermsError, NoError, Amounts
    <3> QED
      BY <1>1, <3>2, PayloadFields, ProtocolAssumption DEF NewToken, SoundToken, Token, Amounts
  <2> HIDE DEF new
  <2>3. objects' \in Seq(SoundToken) /\ Len(objects') = Len(objects) + 1
    BY <2>1, <2>2, AppendProperties DEF TypeInv, TablesTyped
  <2>4. tokenAt' \in [Ticks -> 0..Len(objects')]
    <3>1. tokenAt \in [Ticks -> 0..Len(objects)]
      BY DEF TypeInv, TablesTyped
    <3>2. 0..Len(objects) \subseteq 0..Len(objects') /\ Len(objects') \in 0..Len(objects')
      BY <1>1, <2>3
    <3> QED
      BY <2>1, <3>1, <3>2
  <2>5. TablesTyped' /\ Grows /\ Registered' = Registered
    BY <1>1, <1>2, <2>3, <2>4
    DEF TypeInv, TablesTyped, SP!LogTyped, SP!EventRow, Grows, Registered
  <2>6. Fits(b, Len(objects'), Registered')
    <3>1. b \in Continuation /\ b.at = "save" /\ b.job = c.job /\ b.token = c.token
      BY <1>1 DEF Continuation
    <3>2. c.token <= Len(objects') /\ c.token \in Nat
      BY <1>1, <2>3 DEF Fits, Continuation
    <3> HIDE DEF b
    <3> QED
      BY <1>1, <2>5, <3>1, <3>2 DEF Fits
  <2> HIDE DEF b
  <2> QED
    BY <1>1, <2>1, <2>5, <2>6, MovesOn DEF TypeInv
<1> QED
  BY <1>3, <1>4

\* What a mint makes of its token.
LEMMA MintedSound ==
    ASSUME NEW o \in SoundToken, NEW p \in Payloads, p.op = "MINT", MintError(o, p) = NoError
    PROVE  /\ [o EXCEPT !.totalSupply = @ + p.amount] \in SoundToken
           /\ p.amount <= o.limitPerMint
<1>1. o \in Token /\ o # Null
  <2>1. o \in Token
    BY DEF SoundToken
  <2> QED
    BY <2>1, ProtocolAssumption
<1>2. p.amount <= o.limitPerMint /\ o.totalSupply + p.amount <= o.maxSupply
  BY <1>1, PayloadFields DEF MintError, NoError, Token, Amounts
<1> DEFINE sum == o.totalSupply + p.amount
           new == [o EXCEPT !.totalSupply = sum]
<1>3. sum \in Amounts /\ sum <= o.maxSupply
  BY <1>1, <1>2, PayloadFields, ProtocolAssumption DEF Token, Amounts
<1> HIDE DEF sum
<1>4. /\ new \in Token /\ new.totalSupply = sum
      /\ new.maxSupply = o.maxSupply /\ new.limitPerMint = o.limitPerMint
  BY <1>1, <1>3 DEF Token
<1> HIDE DEF new
<1>5. new \in SoundToken
  BY <1>3, <1>4 DEF SoundToken
<1> QED
  BY <1>2, <1>5 DEF new, sum

LEMMA SaveTokenTyped ==
    ASSUME TypeInv, SaveToken
    PROVE  TypeInv'
<1> DEFINE c == Head(queue)
           p == c.job.msg
           o == IF c.token = 0 THEN Null ELSE objects[c.token]
           b == [c EXCEPT !.at = "credit"]
<1>1. /\ queue # <<>> /\ c \in Continuation /\ c.job.kind = "ingest" /\ c.at = "token"
      /\ c.job.deviceId \in DeviceIds /\ p \in Payloads /\ p.op = "MINT"
      /\ Fits(c, Len(objects), Registered)
      /\ c.token \in 0..Len(objects) /\ Len(objects) \in Nat
  BY HeadRuns DEF SaveToken
<1>2. UNCHANGED <<devices, balances, events, recorded>>
  BY DEF SaveToken
<1>3. CASE MintError(o, p) # NoError
  <2>1. Throw(MintError(o, p)) /\ UNCHANGED tokenVars
    BY <1>3 DEF SaveToken
  <2>2. TablesTyped' /\ Grows
    BY <1>2, <2>1, QueueOnlyTyped
  <2>3. MintError(o, p) \in Reasons
    BY <1>1, ErrorsAreReasons
  <2> QED
    BY <1>1, <2>1, <2>2, <2>3, ThrowFits DEF TypeInv
<1>4. CASE MintError(o, p) = NoError
  <2>1. c.token # 0
    BY <1>4 DEF MintError, NoError
  <2>2. /\ objects' = [objects EXCEPT ![c.token].totalSupply = @ + p.amount]
        /\ tokenAt' = [tokenAt EXCEPT ![p.tick] = c.token] /\ AwaitAs(b)
    BY <1>4 DEF SaveToken, Await
  <2>3. c.token \in 1..Len(objects) /\ objects[c.token] \in SoundToken
    BY <1>1, <2>1, ElementOfSeq DEF TypeInv, TablesTyped
  <2>4. [objects[c.token] EXCEPT !.totalSupply = @ + p.amount] \in SoundToken
    BY <1>1, <1>4, <2>1, <2>3, MintedSound
  <2>5. objects' \in Seq(SoundToken) /\ Len(objects') = Len(objects)
    <3> DEFINE new == [objects[c.token] EXCEPT !.totalSupply = @ + p.amount]
    <3>1. objects' = [objects EXCEPT ![c.token] = new]
      BY <2>2
    <3> HIDE DEF new
    <3> QED
      BY <2>3, <2>4, <3>1, ExceptSeq DEF TypeInv, TablesTyped, new
  <2>6. tokenAt' \in [Ticks -> 0..Len(objects')]
    BY <1>1, <2>2, <2>5 DEF TypeInv, TablesTyped
  <2>7. TablesTyped' /\ Grows /\ Registered' = Registered
    BY <1>1, <1>2, <2>5, <2>6
    DEF TypeInv, TablesTyped, SP!LogTyped, SP!EventRow, Grows, Registered
  <2>8. Fits(b, Len(objects'), Registered')
    <3>1. b \in Continuation /\ b.at = "credit" /\ b.job = c.job /\ b.token = c.token
      BY <1>1 DEF Continuation
    <3> HIDE DEF b
    <3> QED
      BY <1>1, <2>5, <2>7, <3>1 DEF Fits
  <2> HIDE DEF b
  <2> QED
    BY <1>1, <2>2, <2>7, <2>8, MovesOn DEF TypeInv
<1> QED
  BY <1>3, <1>4

LEMMA FindRecipientTyped ==
    ASSUME TypeInv, FindRecipient
    PROVE  TypeInv'
<1> DEFINE c == Head(queue)
           b == [c EXCEPT !.at = "recipient"]
<1>1. /\ queue # <<>> /\ c \in Continuation /\ c.job.kind = "ingest" /\ c.at = "token"
      /\ c.job.msg \in Payloads /\ c.job.msg.op = "TRANSFER"
      /\ Fits(c, Len(objects), Registered)
  BY HeadRuns DEF FindRecipient
<1>2. TablesTyped' /\ Grows /\ Registered' = Registered /\ Len(objects') = Len(objects)
  BY QueueOnlyTyped DEF FindRecipient
<1>3. CASE c.token = 0
  BY <1>1, <1>2, <1>3, ThrowFits DEF FindRecipient, TypeInv, Reasons
<1>4. CASE c.token # 0
  <2>1. AwaitAs(b)
    BY <1>4 DEF FindRecipient, Await
  <2>2. c.job.msg.recipient # PublicChat
    BY <1>1, PayloadFields, ProtocolAssumption
  <2>3. Fits(b, Len(objects), Registered)
    BY <1>1, <2>2 DEF Fits, Continuation
  <2> HIDE DEF b
  <2> QED
    BY <1>1, <1>2, <2>1, <2>3, MovesOn DEF TypeInv
<1> QED
  BY <1>3, <1>4

LEMMA CheckRecipientTyped ==
    ASSUME TypeInv, CheckRecipient
    PROVE  TypeInv'
<1> DEFINE c == Head(queue)
           d == c.job.deviceId
           p == c.job.msg
           b == [c EXCEPT !.at = "debit", !.funds = balances[p.tick][d]]
<1>1. /\ queue # <<>> /\ c \in Continuation /\ c.job.kind = "ingest" /\ c.at = "recipient"
      /\ d \in DeviceIds /\ p \in Payloads /\ Fits(c, Len(objects), Registered)
  BY HeadRuns DEF CheckRecipient
<1>2. /\ UNCHANGED <<balances, events, recorded, tokenVars>>
      /\ p.op \in {"TRANSFER", "MESSAGE"} /\ d \in Registered /\ PayloadError(p) = NoError
  BY <1>1 DEF CheckRecipient, Fits
<1>3. CASE devices[p.recipient] = Null
  <2>1. Throw("recipient_not_found") /\ devices' = devices
    BY <1>3 DEF CheckRecipient
  <2>2. TablesTyped' /\ Grows
    BY <1>2, <2>1, QueueOnlyTyped
  <2> QED
    BY <1>1, <2>1, <2>2, ThrowFits DEF TypeInv, Reasons
<1>4. CASE devices[p.recipient] # Null /\ p.op = "TRANSFER"
  <2>1. AwaitAs(b) /\ devices' = devices
    BY <1>4 DEF CheckRecipient
  <2>2. TablesTyped' /\ Grows /\ Registered' = Registered /\ Len(objects') = Len(objects)
    BY <1>2, <2>1, QueueOnlyTyped
  <2>3. balances[p.tick][d] \in Int
    BY <1>1, <1>4, PayloadFields DEF TypeInv, TablesTyped
  <2>4. Fits(b, Len(objects), Registered)
    <3>1. b \in Continuation /\ b.at = "debit" /\ b.job = c.job /\ b.token = c.token
      BY <1>1, <2>3 DEF Continuation
    <3> HIDE DEF b
    <3> QED
      BY <1>1, <1>4, <3>1 DEF Fits
  <2> HIDE DEF b
  <2> QED
    BY <1>1, <2>1, <2>2, <2>4, MovesOn DEF TypeInv
<1>5. CASE devices[p.recipient] # Null /\ p.op = "MESSAGE"
  <2>1. SaveDevice(d, AcceptNonce(devices[d], p))
    BY <1>5 DEF CheckRecipient
  <2>2. AcceptNonce(devices[d], p) \in Device
    BY <1>1, <1>2, RowsSaved DEF TypeInv
  <2> QED
    BY <1>1, <1>2, <2>1, <2>2, SaveDeviceTyped
<1> QED
  BY <1>2, <1>3, <1>4, <1>5

\* A balance is written.
LEMMA BalanceTyped ==
    ASSUME TypeInv, NEW t \in Ticks, NEW f \in [DeviceIds -> Int],
           balances' = [balances EXCEPT ![t] = f],
           UNCHANGED <<devices, events, recorded, tokenVars>>
    PROVE  TablesTyped' /\ Grows /\ Registered' = Registered /\ Len(objects') = Len(objects)
<1>1. TablesTyped'
  BY DEF TypeInv, TablesTyped, tokenVars, SP!LogTyped, SP!EventRow
<1> QED
  BY <1>1, GrowsIfKept DEF tokenVars

LEMMA DebitSenderTyped ==
    ASSUME TypeInv, DebitSender
    PROVE  TypeInv'
<1> DEFINE c == Head(queue)
           p == c.job.msg
           f == Debit(balances[p.tick], c.job.deviceId, p.amount)
           b == [c EXCEPT !.at = "credit"]
<1>1. /\ queue # <<>> /\ c \in Continuation /\ c.job.kind = "ingest" /\ c.at = "debit"
      /\ c.job.deviceId \in DeviceIds /\ p \in Payloads /\ Fits(c, Len(objects), Registered)
  BY HeadRuns DEF DebitSender
<1>2. p.op = "TRANSFER" /\ p.tick \in Ticks /\ p.amount \in Nat
  BY <1>1, PayloadFields DEF Fits
<1>3. CASE c.funds < p.amount
  <2>1. /\ Throw("insufficient_balance")
        /\ UNCHANGED <<devices, balances, events, recorded, tokenVars>>
    BY <1>3 DEF DebitSender
  <2> QED
    BY <1>1, <2>1, QueueOnlyTyped, ThrowFits DEF TypeInv, Reasons
<1>4. CASE ~(c.funds < p.amount)
  <2>1. balances' = [balances EXCEPT ![p.tick] = f] /\ AwaitAs(b)
    BY <1>4 DEF DebitSender, Await
  <2>2. f \in [DeviceIds -> Int]
    BY <1>1, <1>2 DEF Debit, TypeInv, TablesTyped
  <2>3. TablesTyped' /\ Grows /\ Registered' = Registered /\ Len(objects') = Len(objects)
    BY <1>2, <2>1, <2>2, BalanceTyped DEF DebitSender
  <2>4. Fits(b, Len(objects), Registered)
    BY <1>1, <1>2 DEF Fits, Continuation
  <2> HIDE DEF b
  <2> QED
    BY <1>1, <2>1, <2>3, <2>4, MovesOn DEF TypeInv
<1> QED
  BY <1>3, <1>4

LEMMA CreditOwnerTyped ==
    ASSUME TypeInv, CreditOwner
    PROVE  TypeInv'
<1> DEFINE c == Head(queue)
           p == c.job.msg
           owner == IF p.op = "MINT" THEN c.job.deviceId ELSE p.recipient
           f == Credit(balances[p.tick], owner, p.amount)
           b == [c EXCEPT !.at = "save"]
<1>1. /\ queue # <<>> /\ c \in Continuation /\ c.job.kind = "ingest" /\ c.at = "credit"
      /\ c.job.deviceId \in DeviceIds /\ p \in Payloads /\ Fits(c, Len(objects), Registered)
  BY HeadRuns DEF CreditOwner
<1>2. /\ p.op \in {"MINT", "TRANSFER"} /\ p.tick \in Ticks /\ p.amount \in Nat
      /\ owner \in DeviceIds
  BY <1>1, PayloadFields DEF Fits
<1>3. balances' = [balances EXCEPT ![p.tick] = f] /\ AwaitAs(b)
  BY DEF CreditOwner, Await
<1>4. f \in [DeviceIds -> Int]
  <2>1. balances[p.tick] \in [DeviceIds -> Int]
    BY <1>2 DEF TypeInv, TablesTyped
  <2>2. \A g \in [DeviceIds -> Int], x \in DeviceIds, a \in Nat :
           Credit(g, x, a) \in [DeviceIds -> Int]
    BY DEF Credit
  <2> QED
    BY <1>2, <2>1, <2>2
<1>5. TablesTyped' /\ Grows /\ Registered' = Registered /\ Len(objects') = Len(objects)
  BY <1>2, <1>3, <1>4, BalanceTyped DEF CreditOwner
<1>6. Fits(b, Len(objects), Registered)
  BY <1>1, <1>2 DEF Fits, Continuation
<1> HIDE DEF b
<1> QED
  BY <1>1, <1>3, <1>5, <1>6, MovesOn DEF TypeInv

LEMMA SaveNonceTyped ==
    ASSUME TypeInv, SaveNonce
    PROVE  TypeInv'
<1> DEFINE c == Head(queue)
           d == c.job.deviceId
<1>1. /\ queue # <<>> /\ c.job.kind = "ingest" /\ d \in Registered
      /\ c.job.msg \in Payloads /\ PayloadError(c.job.msg) = NoError
  BY HeadRuns DEF SaveNonce, Fits
<1>2. SaveDevice(d, AcceptNonce(devices[d], c.job.msg))
  BY DEF SaveNonce
<1>3. AcceptNonce(devices[d], c.job.msg) \in Device
  BY <1>1, RowsSaved DEF TypeInv
<1> QED
  BY <1>1, <1>2, <1>3, SaveDeviceTyped DEF SaveNonce

\* The event is appended and the request leaves the queue.
LEMMA AppendTyped ==
    ASSUME TypeInv, AppendAccepted \/ AppendRejected
    PROVE  TypeInv'
<1> DEFINE c == Head(queue)
<1>1. /\ queue # <<>> /\ Return /\ UNCHANGED <<devices, balances, tokenVars>>
      /\ c \in Continuation /\ c.job.deviceId \in DeviceIds /\ c.job.msg \in Payloads
  BY HeadRuns DEF AppendAccepted, AppendRejected
<1>2. PICK status \in {"accepted", "rejected"}, reason \in Reasons \cup S!StoreErrors :
        S!AppendEvent(status, reason, c.job.deviceId, c.job.msg)
  BY <1>1 DEF AppendAccepted, AppendRejected, Continuation, NoError, Reasons
<1>3. SP!AppendEvent(status, reason, c.job.deviceId, c.job.msg)
  BY <1>2, SameAppend
<1>4. reason \in SP!Reasons \cup SP!StoreErrors
  BY <1>2 DEF Reasons, SP!Reasons, NoError, SP!NoError, S!StoreErrors, SP!StoreErrors
<1>5. SP!LogTyped'
  BY <1>1, <1>2, <1>3, <1>4, StoreConstants, SP!AppendEventTyped DEF TypeInv, TablesTyped
<1>6. TablesTyped'
  BY <1>1, <1>5 DEF TypeInv, TablesTyped, tokenVars
<1>7. Grows
  BY <1>1, GrowsIfKept DEF tokenVars
<1> QED
  BY <1>1, <1>6, <1>7, Leaves DEF TypeInv

LEMMA LinkTyped ==
    ASSUME TypeInv, LinkLorawanDevEui
    PROVE  TypeInv'
<1> DEFINE job == Head(queue).job
<1>1. /\ queue # <<>> /\ Return /\ UNCHANGED <<balances, events, recorded, tokenVars>>
      /\ job.deviceId \in DeviceIds /\ job.devEui \in DevEuis
  BY HeadRuns DEF LinkLorawanDevEui
<1>2. devices' \in [DeviceIds -> Device \cup {Null}] /\ Registered' = Registered
  <2>1. CASE devices[job.deviceId] = Null
    BY <2>1 DEF LinkLorawanDevEui, TypeInv, TablesTyped, Registered
  <2>2. CASE devices[job.deviceId] # Null
    <3> DEFINE device == [devices[job.deviceId] EXCEPT !.devEui = job.devEui]
    <3>1. devices' = [devices EXCEPT ![job.deviceId] = device]
      BY <1>1, <2>2 DEF LinkLorawanDevEui, TypeInv, TablesTyped
    <3>2. devices[job.deviceId] \in Device
      BY <1>1, <2>2 DEF TypeInv, TablesTyped
    <3>3. device \in Device
      BY <1>1, <3>2 DEF Device
    <3> HIDE DEF device
    <3>4. device # Null
      BY <3>3, ProtocolAssumption
    <3> QED
      BY <1>1, <2>2, <3>1, <3>3, <3>4 DEF TypeInv, TablesTyped, Registered
  <2> QED
    BY <2>1, <2>2
<1>3. TablesTyped'
  BY <1>1, <1>2 DEF TypeInv, TablesTyped, tokenVars, SP!LogTyped, SP!EventRow
<1>4. Grows
  BY <1>1, <1>2, LenProperties DEF TypeInv, TablesTyped, tokenVars, Grows
<1> QED
  BY <1>1, <1>3, <1>4, Leaves DEF TypeInv

LEMMA RegisterTyped ==
    ASSUME TypeInv, RegisterDevice
    PROVE  TypeInv'
<1>1. PICK x \in Registrations : S!RegisterDevice(x.deviceId, x.devEui)
  BY DEF RegisterDevice
<1>2. x.deviceId \in DeviceIds /\ x.devEui \in DevEuis \cup {Null}
  BY MemoryAssumption
<1>3. NewDevice(x.devEui) \in Device
  BY <1>2 DEF NewDevice, Device
<1>4. /\ devices' = [devices EXCEPT ![x.deviceId] = NewDevice(x.devEui)]
      /\ devices[x.deviceId] = Null /\ UNCHANGED <<balances, events, recorded, tokenVars>>
      /\ queue = <<>> /\ queue' = queue
  BY <1>1 DEF S!RegisterDevice, S!NewDevice, NewDevice, RegisterDevice
<1>5. TablesTyped'
  BY <1>2, <1>3, <1>4 DEF TypeInv, TablesTyped, tokenVars, SP!LogTyped, SP!EventRow
<1>6. QueueTyped'
  BY <1>4, EmptySeq DEF QueueTyped
<1> QED
  BY <1>5, <1>6 DEF TypeInv

LEMMA ArriveTyped ==
    ASSUME TypeInv, Arrive
    PROVE  TypeInv'
<1>1. PICK job \in Calls : queue' = Append(queue, Called(job))
  BY DEF Arrive
<1>2. TablesTyped' /\ Len(objects') = Len(objects) /\ Registered' = Registered
  BY QueueOnlyTyped DEF Arrive
<1>3. Len(objects) \in Nat
  BY LenProperties DEF TypeInv, TablesTyped
<1>4. Fits(Called(job), Len(objects), Registered)
  BY <1>1, <1>3 DEF Called, Calls, Fits, Continuation, Reasons
<1>5. /\ queue' \in Seq(Continuation) /\ Len(queue') = Len(queue) + 1
      /\ \A i \in 1..Len(queue) : queue'[i] = queue[i]
      /\ queue'[Len(queue) + 1] = Called(job)
  BY <1>1, <1>4, AppendProperties DEF Fits, TypeInv, QueueTyped
<1>6. Len(queue) \in Nat /\ DOMAIN queue' = 1..Len(queue') /\ DOMAIN queue = 1..Len(queue)
  BY <1>5, LenProperties DEF TypeInv, QueueTyped
<1>7. \A i \in DOMAIN queue' : Fits(queue'[i], Len(objects), Registered)
  BY <1>4, <1>5, <1>6 DEF TypeInv, QueueTyped
<1> QED
  BY <1>2, <1>5, <1>7 DEF TypeInv, QueueTyped

LEMMA WaitTyped ==
    ASSUME TypeInv, Wait
    PROVE  TypeInv'
<1>1. queue # <<>>
  BY EmptySeq DEF Wait
<1>2. TablesTyped' /\ Grows /\ Registered' = Registered /\ Len(objects') = Len(objects)
  BY QueueOnlyTyped DEF Wait
<1> QED
  BY <1>1, <1>2, HeadFits, MovesOn DEF Wait, AwaitAs, TypeInv

-----------------------------------------------------------------------------

LEMMA TypeInvInit == Init => TypeInv
<1> SUFFICES ASSUME Init PROVE TypeInv
  OBVIOUS
<1>1. /\ objects = <<>> /\ tokenAt = [t \in Ticks |-> 0] /\ queue = <<>>
      /\ devices = [d \in DeviceIds |-> Null]
      /\ balances = [t \in Ticks |-> [d \in DeviceIds |-> 0]]
      /\ events = {} /\ recorded = 0
  BY DEF Init, S!StoreInit, S!LedgerInit, S!TableInit
<1>2. SP!LogTyped
  BY <1>1, MemoryAssumption DEF SP!LogTyped
<1>3. objects \in Seq(SoundToken) /\ Len(objects) = 0 /\ queue \in Seq(Continuation)
      /\ DOMAIN queue = {}
  BY <1>1, EmptySeq
<1> QED
  BY <1>1, <1>2, <1>3 DEF TypeInv, TablesTyped, QueueTyped

LEMMA TypeInvStep == TypeInv /\ [Next]_vars => TypeInv'
<1> SUFFICES ASSUME TypeInv, [Next]_vars PROVE TypeInv'
  OBVIOUS
<1>1. CASE UNCHANGED vars
  <2>1. queue' = queue /\ UNCHANGED <<devices, balances, events, recorded, tokenVars>>
    BY <1>1 DEF vars
  <2>2. TablesTyped' /\ Registered' = Registered /\ Len(objects') = Len(objects)
    BY <2>1, QueueOnlyTyped
  <2> QED
    BY <2>1, <2>2 DEF TypeInv, QueueTyped
<1> QED
  BY <1>1, RegisterTyped, ArriveTyped, WaitTyped, BeginTyped, CreateTokenTyped, SaveTokenTyped,
     FindRecipientTyped, CheckRecipientTyped, DebitSenderTyped, CreditOwnerTyped,
     SaveNonceTyped, AppendTyped, LinkTyped
  DEF Next

LEMMA TypeInvAlways == Spec => []TypeInv
BY TypeInvInit, TypeInvStep, PTL DEF Spec

\* The object a ticker leads to is a sound token.
LEMMA TokensSound ==
    ASSUME TypeInv, NEW t \in Ticks
    PROVE  tokens[t] = Null \/ tokens[t] \in SoundToken
<1>1. tokenAt[t] \in 0..Len(objects) /\ Len(objects) \in Nat
  BY LenProperties DEF TypeInv, TablesTyped
<1>2. tokenAt[t] # 0 => objects[tokenAt[t]] \in SoundToken
  BY <1>1, ElementOfSeq DEF TypeInv, TablesTyped
<1> QED
  BY <1>2 DEF tokens

\* However the requests of a macrotask take turns, rows and objects keep their
\* types, and every continuation keeps to an object that exists.
THEOREM MemoryTypeCorrect == Spec => []MemoryTypeOK
<1>1. TypeInv => MemoryTypeOK
  <2> SUFFICES ASSUME TypeInv PROVE MemoryTypeOK
    OBVIOUS
  <2>1. tokens \in [Ticks -> Token \cup {Null}]
    BY TokensSound DEF tokens, SoundToken
  <2>2. recorded \in 0..MaxEvents /\ events \subseteq S!EventRow
    BY DEF TypeInv, TablesTyped, SP!LogTyped, SP!EventRow, S!EventRow, SP!Reasons, S!Reasons,
           SP!NoError, S!NoError, SP!StoreErrors, S!StoreErrors
  <2>3. \A i \in DOMAIN queue : queue[i] \in Continuation /\ queue[i].token <= Len(objects)
    BY DEF TypeInv, QueueTyped, Fits
  <2> QED
    BY <2>1, <2>2, <2>3 DEF TypeInv, TablesTyped, MemoryTypeOK
<1> QED
  BY <1>1, TypeInvAlways, PTL

\* The cap holds at every await, whatever shares a macrotask, also for objects
\* that a rival deploy has replaced: handleMint checks and changes the object in
\* one piece.
THEOREM MemorySupplyCapped == Spec => []SupplyCapped
<1>1. TypeInv => SupplyCapped
  BY TokensSound DEF SupplyCapped, S!SupplyCapped, SoundToken
<1> QED
  BY <1>1, TypeInvAlways, PTL

-----------------------------------------------------------------------------
\* Turns.

\* A continuation goes on with its own request, and with what it has just read.
GoesOn(b, c) ==
    /\ c.job = b.job
    /\ c.at = "token" => c.token = tokenAt[c.job.msg.tick]
    /\ c.at = "debit" => c.funds = balances[c.job.msg.tick][c.job.deviceId]

\* The labels of a record are set one at a time.
LEMMA LabelsSet ==
    ASSUME NEW b \in Continuation, NEW label, NEW code, NEW k
    PROVE  /\ [b EXCEPT !.at = label].job = b.job /\ [b EXCEPT !.at = label].at = label
           /\ [b EXCEPT !.at = label, !.reason = code].job = b.job
           /\ [b EXCEPT !.at = label, !.reason = code].at = label
           /\ [b EXCEPT !.at = label, !.token = k].job = b.job
           /\ [b EXCEPT !.at = label, !.token = k].at = label
           /\ [b EXCEPT !.at = label, !.token = k].token = k
           /\ [b EXCEPT !.at = label, !.funds = k].job = b.job
           /\ [b EXCEPT !.at = label, !.funds = k].at = label
           /\ [b EXCEPT !.at = label, !.funds = k].funds = k
BY DEF Continuation

HeadTurns == queue # <<>> /\ \E c : AwaitAs(c) /\ GoesOn(Head(queue), c)

LEMMA AwaitGoes ==
    ASSUME TypeInv, queue # <<>>, NEW label, Await(label)
    PROVE  \E c : AwaitAs(c) /\ c.job = Head(queue).job /\ c.at = label
<1> DEFINE c == [Head(queue) EXCEPT !.at = label]
<1>1. c.job = Head(queue).job /\ c.at = label
  BY HeadFits, LabelsSet
<1>2. AwaitAs(c)
  BY DEF Await
<1> HIDE DEF c
<1> QED
  BY <1>1, <1>2

LEMMA ThrowGoes ==
    ASSUME TypeInv, queue # <<>>, NEW code, Throw(code)
    PROVE  \E c : AwaitAs(c) /\ c.job = Head(queue).job /\ c.at = "reject"
<1> DEFINE c == [Head(queue) EXCEPT !.at = "reject", !.reason = code]
<1>1. c.job = Head(queue).job /\ c.at = "reject"
  BY HeadFits, LabelsSet
<1>2. AwaitAs(c)
  BY DEF Throw
<1> HIDE DEF c
<1> QED
  BY <1>1, <1>2

LEMMA AwaitTurns ==
    ASSUME TypeInv, queue # <<>>, NEW label, label \notin {"token", "debit"}, Await(label)
    PROVE  HeadTurns
BY AwaitGoes DEF GoesOn, HeadTurns

LEMMA ThrowTurns ==
    ASSUME TypeInv, queue # <<>>, NEW code, Throw(code)
    PROVE  HeadTurns
BY ThrowGoes DEF GoesOn, HeadTurns

LEMMA SaveTurns ==
    ASSUME TypeInv, queue # <<>>, NEW d, NEW device, SaveDevice(d, device)
    PROVE  HeadTurns
<1>1. Await("append") \/ Throw("lorawan_dev_eui_already_registered")
  BY DEF SaveDevice
<1> QED
  BY <1>1, AwaitTurns, ThrowTurns

\* What a step makes of the queue.
LEMMA Turns ==
    ASSUME TypeInv, [Next]_vars
    PROVE  \/ queue' = queue
           \/ Arrive
           \/ queue # <<>> /\ Return
           \/ HeadTurns
<1>1. CASE Wait
  <2>1. queue # <<>> /\ AwaitAs(Head(queue)) /\ Head(queue).at \in {"start", "reject"}
    BY <1>1, EmptySeq DEF Wait, AwaitAs
  <2> QED
    BY <2>1 DEF GoesOn, HeadTurns
<1>2. CASE Begin
  <2> DEFINE c == Head(queue)
             d == c.job.deviceId
             p == c.job.msg
             error == IF AuthError(devices[d], d, p) # NoError THEN AuthError(devices[d], d, p)
                      ELSE PayloadError(p)
             b == [c EXCEPT !.at = "token", !.token = tokenAt[p.tick]]
  <2>1. queue # <<>> /\ c \in Continuation
    BY <1>2, HeadRuns DEF Begin
  <2>2. p.op \in {"DEPLOY", "MINT", "TRANSFER", "MESSAGE", "CONFIG"}
    BY <1>2, HeadRuns, PayloadFields DEF Begin
  <2>3. \/ Throw(error) \/ Await("recipient") \/ \E device : SaveDevice(d, device)
        \/ AwaitAs(b)
    BY <1>2, <2>2 DEF Begin
  <2>4. CASE AwaitAs(b)
    <3>1. b.job = c.job /\ b.at = "token" /\ b.token = tokenAt[p.tick]
      BY <2>1, LabelsSet
    <3> QED
      BY <2>1, <2>4, <3>1 DEF GoesOn, HeadTurns
  <2>5. CASE Await("recipient")
    BY <2>1, <2>5, AwaitTurns
  <2> QED
    BY <2>1, <2>3, <2>4, <2>5, ThrowTurns, SaveTurns
<1>3. CASE CheckRecipient
  <2> DEFINE c == Head(queue)
             d == c.job.deviceId
             p == c.job.msg
             b == [c EXCEPT !.at = "debit", !.funds = balances[p.tick][d]]
  <2>1. queue # <<>> /\ c \in Continuation /\ p.op \in {"TRANSFER", "MESSAGE"}
    BY <1>3, HeadRuns DEF CheckRecipient, Fits
  <2>2. \/ Throw("recipient_not_found") \/ \E device : SaveDevice(d, device)
        \/ AwaitAs(b)
    BY <1>3, <2>1 DEF CheckRecipient
  <2>3. CASE AwaitAs(b)
    <3>1. b.job = c.job /\ b.at = "debit" /\ b.funds = balances[p.tick][d]
      BY <2>1, LabelsSet
    <3> QED
      BY <2>1, <2>3, <3>1 DEF GoesOn, HeadTurns
  <2> QED
    BY <2>1, <2>2, <2>3, ThrowTurns, SaveTurns
<1>4. CASE CreateToken \/ SaveToken \/ FindRecipient \/ DebitSender \/ CreditOwner
  <2>1. queue # <<>>
    BY <1>4 DEF CreateToken, SaveToken, FindRecipient, DebitSender, CreditOwner, Running
  <2>2. \/ Await("save") \/ Await("credit") \/ Await("recipient")
        \/ \E code : Throw(code)
    BY <1>4 DEF CreateToken, SaveToken, FindRecipient, DebitSender, CreditOwner
  <2> QED
    BY <2>1, <2>2, AwaitTurns, ThrowTurns
<1>5. CASE SaveNonce
  BY <1>5, SaveTurns DEF SaveNonce, Running
<1>6. CASE AppendAccepted \/ AppendRejected \/ LinkLorawanDevEui
  BY <1>6 DEF AppendAccepted, AppendRejected, LinkLorawanDevEui, Running
<1> QED
  BY <1>1, <1>2, <1>3, <1>4, <1>5, <1>6 DEF Next, vars, RegisterDevice

\* Those who arrive together share a macrotask.
LEMMA ArrivesLast ==
    ASSUME TypeInv, Arrive
    PROVE  \E job \in Calls :
              /\ Len(queue') = Len(queue) + 1 /\ Len(queue) \in Nat
              /\ DOMAIN queue' = 1..(Len(queue) + 1) /\ DOMAIN queue = 1..Len(queue)
              /\ queue'[Len(queue) + 1] = Called(job)
              /\ \A i \in DOMAIN queue :
                    /\ queue'[i] = queue[i]
                    /\ Overlap \/ queue[i].job.deviceId # job.deviceId
                    /\ \A other \in {job, queue[i].job} :
                          other.kind = "ingest" => other.msg \in Together
<1>1. PICK job \in Calls :
        /\ queue' = Append(queue, Called(job))
        /\ \A i \in DOMAIN queue :
              /\ Overlap \/ queue[i].job.deviceId # job.deviceId
              /\ \A other \in {job, queue[i].job} :
                    other.kind = "ingest" => other.msg \in Together
  BY DEF Arrive
<1>2. Called(job) \in Continuation /\ queue \in Seq(Continuation)
  BY <1>1 DEF Called, Calls, Continuation, Reasons, TypeInv, QueueTyped
<1>3. /\ queue' \in Seq(Continuation) /\ Len(queue') = Len(queue) + 1
      /\ \A i \in 1..Len(queue) : queue'[i] = queue[i]
      /\ queue'[Len(queue) + 1] = Called(job)
  BY <1>1, <1>2, AppendProperties
<1>4. Len(queue) \in Nat /\ DOMAIN queue = 1..Len(queue) /\ DOMAIN queue' = 1..Len(queue')
  BY <1>2, <1>3, LenProperties
<1> QED
  BY <1>1, <1>3, <1>4

\* Who waits keeps his place in the line: the queue has moved by k, and only its
\* last can be somebody who has just read, the head.
Carried(k) ==
    /\ \A j \in DOMAIN queue : j > k => j - k \in DOMAIN queue' /\ queue'[j - k] = queue[j]
    /\ \A i \in DOMAIN queue' :
          \/ i + k \in DOMAIN queue /\ queue'[i] = queue[i + k]
          \/ queue'[i].at = "start"
          \/ GoesOn(Head(queue), queue'[i])

LEMMA HeadPlaces ==
    ASSUME TypeInv, queue # <<>>, NEW c, AwaitAs(c)
    PROVE  /\ Len(queue) \in Nat /\ DOMAIN queue = 1..Len(queue) /\ DOMAIN queue' = 1..Len(queue)
           /\ Len(queue) \in DOMAIN queue' /\ queue'[Len(queue)] = c
           /\ \A i \in DOMAIN queue' : i # Len(queue) =>
                 i + 1 \in DOMAIN queue /\ queue'[i] = queue[i + 1]
           /\ \A j \in DOMAIN queue : j > 1 => j - 1 \in DOMAIN queue' /\ queue'[j - 1] = queue[j]
<1>1. /\ Len(queue) \in Nat /\ DOMAIN queue = 1..Len(queue) /\ DOMAIN queue' = 1..Len(queue)
      /\ \A i \in DOMAIN queue' :
            \/ i = Len(queue) /\ queue'[i] = c
            \/ i < Len(queue) /\ i + 1 \in DOMAIN queue /\ queue'[i] = queue[i + 1]
  BY QueueTurns DEF TypeInv, QueueTyped
<1>2. Len(queue) # 0
  BY <1>1, HeadFits
<1>3. Len(queue) \in DOMAIN queue' /\ queue'[Len(queue)] = c
  BY <1>1, <1>2
<1>4. ASSUME NEW j \in DOMAIN queue, j > 1
      PROVE  j - 1 \in DOMAIN queue' /\ queue'[j - 1] = queue[j]
  <2>1. j - 1 \in 1..Len(queue) /\ j - 1 # Len(queue) /\ (j - 1) + 1 = j
    BY <1>1, <1>4
  <2> QED
    BY <1>1, <2>1
<1> QED
  BY <1>1, <1>3, <1>4

LEMMA LeavePlaces ==
    ASSUME TypeInv, queue # <<>>, Return
    PROVE  /\ Len(queue) \in Nat /\ DOMAIN queue = 1..Len(queue)
           /\ DOMAIN queue' = 1..(Len(queue) - 1)
           /\ \A i \in DOMAIN queue' : i + 1 \in DOMAIN queue /\ queue'[i] = queue[i + 1]
           /\ \A j \in DOMAIN queue : j > 1 => j - 1 \in DOMAIN queue' /\ queue'[j - 1] = queue[j]
<1>1. /\ queue' \in Seq(Continuation) /\ Len(queue') = Len(queue) - 1
      /\ \A i \in DOMAIN queue' : i + 1 \in DOMAIN queue /\ queue'[i] = queue[i + 1]
  BY QueueShrinks DEF TypeInv, QueueTyped
<1>2. /\ Len(queue) \in Nat /\ DOMAIN queue = 1..Len(queue)
      /\ DOMAIN queue' = 1..(Len(queue) - 1)
  BY <1>1, LenProperties DEF TypeInv, QueueTyped
<1>3. ASSUME NEW j \in DOMAIN queue, j > 1
      PROVE  j - 1 \in DOMAIN queue' /\ queue'[j - 1] = queue[j]
  <2>1. j - 1 \in 1..(Len(queue) - 1) /\ (j - 1) + 1 = j
    BY <1>2, <1>3
  <2> QED
    BY <1>1, <1>2, <2>1
<1> QED
  BY <1>1, <1>2, <1>3

LEMMA Carries ==
    ASSUME TypeInv, [Next]_vars
    PROVE  \E k \in {0, 1} : Carried(k)
<1>1. Len(queue) \in Nat /\ DOMAIN queue = 1..Len(queue)
  BY LenProperties DEF TypeInv, QueueTyped
<1>2. CASE queue' = queue
  <2>1. \A j \in DOMAIN queue : j - 0 = j /\ j + 0 = j
    BY <1>1
  <2> QED
    BY <1>2, <2>1 DEF Carried
<1>3. CASE Arrive
  <2>1. PICK job \in Calls :
          /\ DOMAIN queue' = 1..(Len(queue) + 1)
          /\ queue'[Len(queue) + 1] = Called(job)
          /\ \A i \in DOMAIN queue : queue'[i] = queue[i]
    BY <1>3, ArrivesLast
  <2>2. \A i \in DOMAIN queue' : i \in DOMAIN queue \/ queue'[i].at = "start"
    BY <1>1, <2>1 DEF Called
  <2>3. /\ \A j \in DOMAIN queue : j - 0 = j /\ j + 0 = j /\ j \in DOMAIN queue'
    BY <1>1, <2>1
  <2> QED
    BY <2>1, <2>2, <2>3 DEF Carried
<1>4. CASE queue # <<>> /\ Return
  BY <1>4, LeavePlaces DEF Carried
<1>5. CASE HeadTurns
  <2>1. PICK c : AwaitAs(c) /\ GoesOn(Head(queue), c)
    BY <1>5 DEF HeadTurns
  <2> QED
    BY <1>5, <2>1, HeadPlaces DEF Carried, HeadTurns
<1> QED
  BY <1>2, <1>3, <1>4, <1>5, Turns

-----------------------------------------------------------------------------
\* Balances.

\* A transfer of d that has been debited and has not gone on.
Debited(c, t, d) ==
    c.at = "credit" /\ c.job.deviceId = d /\ c.job.msg.op = "TRANSFER" /\ c.job.msg.tick = t

\* What a transfer has read of its sender's balance is still there, or another
\* debit has come since, and its request stands behind this one in the queue.
FundsRead ==
    \A i \in DOMAIN queue : LET c == queue[i] IN
        c.at = "debit" =>
           \/ c.funds <= balances[c.job.msg.tick][c.job.deviceId]
           \/ \E j \in DOMAIN queue : i < j /\ Debited(queue[j], c.job.msg.tick, c.job.deviceId)

LEMMA DebitFields ==
    ASSUME TypeInv, NEW i \in DOMAIN queue, queue[i].at = "debit"
    PROVE  LET c == queue[i]
           IN /\ c.job.msg.tick \in Ticks /\ c.job.deviceId \in DeviceIds /\ c.funds \in Int
              /\ balances[c.job.msg.tick][c.job.deviceId] \in Int
<1>1. /\ queue[i] \in Continuation /\ queue[i].job.kind = "ingest"
      /\ queue[i].job.msg.op = "TRANSFER"
  BY DEF TypeInv, QueueTyped, Fits
<1>2. queue[i].job \in Jobs /\ queue[i].funds \in Int
  BY <1>1 DEF Continuation
<1>3. queue[i].job.msg.tick \in Ticks /\ queue[i].job.deviceId \in DeviceIds
  BY <1>1, <1>2, JobFields, PayloadFields
<1> QED
  BY <1>2, <1>3 DEF TypeInv, TablesTyped

\* A step that lowers no balance.
LEMMA FundsReadKept ==
    ASSUME TypeInv, FundsRead, [Next]_vars,
           \A t \in Ticks, d \in DeviceIds : balances[t][d] <= balances'[t][d]
    PROVE  FundsRead'
<1> SUFFICES ASSUME NEW i \in DOMAIN queue', queue'[i].at = "debit"
             PROVE  LET c == queue'[i] IN
                    \/ c.funds <= balances'[c.job.msg.tick][c.job.deviceId]
                    \/ \E j \in DOMAIN queue' :
                          i < j /\ Debited(queue'[j], c.job.msg.tick, c.job.deviceId)
  BY DEF FundsRead, Debited
<1> DEFINE c == queue'[i]
           t == c.job.msg.tick
           d == c.job.deviceId
<1>1. PICK k \in {0, 1} : Carried(k)
  BY Carries
<1>2. TypeInv'
  BY TypeInvStep
<1>3. t \in Ticks /\ d \in DeviceIds /\ c.funds \in Int /\ balances'[t][d] \in Int
  <2>1. /\ c \in Continuation /\ c.job.kind = "ingest" /\ c.job.msg.op = "TRANSFER"
    BY <1>2 DEF TypeInv, QueueTyped, Fits
  <2>2. c.job \in Jobs /\ c.funds \in Int
    BY <2>1 DEF Continuation
  <2>3. t \in Ticks /\ d \in DeviceIds
    BY <2>1, <2>2, JobFields, PayloadFields
  <2> QED
    BY <1>2, <2>2, <2>3 DEF TypeInv, TablesTyped
<1>4. balances[t][d] \in Int /\ balances[t][d] <= balances'[t][d]
  BY <1>3 DEF TypeInv, TablesTyped
<1>5. CASE i + k \in DOMAIN queue /\ c = queue[i + k]
  <2>1. CASE c.funds <= balances[t][d]
    BY <1>3, <1>4, <2>1
  <2>2. ASSUME NEW j \in DOMAIN queue, i + k < j, Debited(queue[j], t, d)
        PROVE  \E h \in DOMAIN queue' : i < h /\ Debited(queue'[h], t, d)
    <3>1. i \in Nat /\ j \in Nat /\ i > 0
      BY <1>2, LenProperties DEF TypeInv, QueueTyped
    <3>2. j > k /\ i < j - k
      BY <2>2, <3>1
    <3>3. j - k \in DOMAIN queue' /\ queue'[j - k] = queue[j]
      BY <1>1, <3>2 DEF Carried
    <3> QED
      BY <2>2, <3>2, <3>3
  <2> QED
    BY <1>5, <2>1, <2>2 DEF FundsRead
<1>6. CASE GoesOn(Head(queue), c)
  BY <1>3, <1>4, <1>6 DEF GoesOn
<1> QED
  BY <1>1, <1>5, <1>6 DEF Carried

\* What the debit at the head writes.
LEMMA DebitWrites ==
    ASSUME TypeInv, DebitSender
    PROVE  LET h == Head(queue)
               d == h.job.deviceId
               p == h.job.msg
           IN /\ queue # <<>> /\ h = queue[1] /\ 1 \in DOMAIN queue /\ h.at = "debit"
              /\ d \in DeviceIds /\ p \in Payloads /\ p.op = "TRANSFER" /\ p.tick \in Ticks
              /\ p.amount \in Nat /\ h.funds \in Int
              /\ \/ balances' = balances /\ \E code : Throw(code)
                 \/ /\ p.amount <= h.funds
                    /\ balances'[p.tick][d] = balances[p.tick][d] - p.amount
                    /\ \A t \in Ticks, x \in DeviceIds :
                          t # p.tick \/ x # d => balances'[t][x] = balances[t][x]
                    /\ \E c : AwaitAs(c) /\ Debited(c, p.tick, d)
<1> DEFINE h == Head(queue)
           d == h.job.deviceId
           p == h.job.msg
<1>1. /\ queue # <<>> /\ h = queue[1] /\ 1 \in DOMAIN queue /\ h.at = "debit"
      /\ d \in DeviceIds /\ p \in Payloads /\ Fits(h, Len(objects), Registered)
  BY HeadRuns DEF DebitSender
<1>2. p.op = "TRANSFER" /\ h.funds \in Int
  BY <1>1 DEF Fits, Continuation
<1>3. p.tick \in Ticks /\ p.amount \in Nat
  BY <1>1, <1>2, PayloadFields
<1>4. CASE h.funds < p.amount
  <2>1. balances' = balances /\ Throw("insufficient_balance")
    BY <1>4 DEF DebitSender
  <2> QED
    BY <1>1, <1>2, <1>3, <2>1
<1>5. CASE ~(h.funds < p.amount)
  <2>1. balances' = [balances EXCEPT ![p.tick] = Debit(@, d, p.amount)] /\ Await("credit")
    BY <1>5 DEF DebitSender
  <2>2. PICK c : AwaitAs(c) /\ c.job = h.job /\ c.at = "credit"
    BY <1>1, <2>1, AwaitGoes
  <2>3. Debited(c, p.tick, d)
    BY <1>2, <2>2 DEF Debited
  <2>4. /\ balances'[p.tick][d] = balances[p.tick][d] - p.amount
        /\ \A t \in Ticks, x \in DeviceIds :
              t # p.tick \/ x # d => balances'[t][x] = balances[t][x]
    BY <1>1, <1>3, <2>1 DEF TypeInv, TablesTyped, Debit
  <2>5. p.amount <= h.funds
    BY <1>2, <1>3, <1>5
  <2> QED
    BY <1>1, <1>2, <1>3, <2>2, <2>3, <2>4, <2>5
<1> QED
  BY <1>4, <1>5

LEMMA DebitKeepsRead ==
    ASSUME TypeInv, FundsRead, DebitSender
    PROVE  FundsRead'
<1> DEFINE h == Head(queue)
           d == h.job.deviceId
           p == h.job.msg
<1>1. CASE balances' = balances
  <2>1. \A t \in Ticks, x \in DeviceIds : balances[t][x] \in Int
    BY DEF TypeInv, TablesTyped
  <2> QED
    BY <1>1, <2>1, FundsReadKept DEF Next
<1>2. ASSUME queue # <<>>, NEW c, AwaitAs(c), Debited(c, p.tick, d),
             \A t \in Ticks, x \in DeviceIds :
                t # p.tick \/ x # d => balances'[t][x] = balances[t][x]
      PROVE  FundsRead'
  <2> SUFFICES ASSUME NEW i \in DOMAIN queue', queue'[i].at = "debit"
               PROVE  LET b == queue'[i] IN
                      \/ b.funds <= balances'[b.job.msg.tick][b.job.deviceId]
                      \/ \E j \in DOMAIN queue' :
                            i < j /\ Debited(queue'[j], b.job.msg.tick, b.job.deviceId)
    BY DEF FundsRead, Debited
  <2>1. /\ Len(queue) \in Nat /\ DOMAIN queue = 1..Len(queue) /\ DOMAIN queue' = 1..Len(queue)
        /\ Len(queue) \in DOMAIN queue' /\ queue'[Len(queue)] = c
        /\ i # Len(queue) => i + 1 \in DOMAIN queue /\ queue'[i] = queue[i + 1]
        /\ \A j \in DOMAIN queue : j > 1 => j - 1 \in DOMAIN queue' /\ queue'[j - 1] = queue[j]
    BY <1>2, HeadPlaces
  <2>2. i # Len(queue) /\ i < Len(queue) /\ i \in Nat /\ i > 0
    BY <1>2, <2>1 DEF Debited
  <2>3. PICK b : b = queue[i + 1]
    OBVIOUS
  <2> DEFINE t == b.job.msg.tick
             x == b.job.deviceId
  <2>4. i + 1 \in DOMAIN queue /\ queue'[i] = b /\ b.at = "debit" /\ t \in Ticks /\ x \in DeviceIds
    BY <2>1, <2>2, <2>3, DebitFields
  <2>5. CASE t = p.tick /\ x = d
    BY <1>2, <2>1, <2>2, <2>4, <2>5
  <2>6. CASE b.funds <= balances[t][x] /\ ~(t = p.tick /\ x = d)
    BY <1>2, <2>4, <2>6
  <2>7. ASSUME NEW j \in DOMAIN queue, i + 1 < j, Debited(queue[j], t, x)
        PROVE  \E k \in DOMAIN queue' : i < k /\ Debited(queue'[k], t, x)
    <3>1. j \in Nat /\ j > 1 /\ i < j - 1
      BY <2>1, <2>2, <2>7
    <3> QED
      BY <2>1, <2>7, <3>1
  <2>8. \/ b.funds <= balances[t][x]
        \/ \E j \in DOMAIN queue : i + 1 < j /\ Debited(queue[j], t, x)
    BY <2>3, <2>4 DEF FundsRead
  <2> QED
    BY <2>4, <2>5, <2>6, <2>7, <2>8
<1> QED
  BY <1>1, <1>2, DebitWrites

\* What a credit writes.
LEMMA CreditWrites ==
    ASSUME TypeInv, CreditOwner
    PROVE  LET j == Head(queue).job
               p == j.msg
               owner == IF p.op = "MINT" THEN j.deviceId ELSE p.recipient
           IN /\ queue # <<>> /\ Head(queue).at = "credit" /\ j.kind = "ingest"
              /\ p \in Payloads /\ j.deviceId \in DeviceIds
              /\ p.op \in {"MINT", "TRANSFER"} /\ p.tick \in Ticks /\ p.amount \in Nat
              /\ p.amount \in Amounts /\ owner \in DeviceIds
              /\ balances'[p.tick][owner] = balances[p.tick][owner] + p.amount
              /\ \A t \in Ticks, d \in DeviceIds :
                    t # p.tick \/ d # owner => balances'[t][d] = balances[t][d]
              /\ Await("save")
<1> DEFINE j == Head(queue).job
           p == j.msg
           owner == IF p.op = "MINT" THEN j.deviceId ELSE p.recipient
<1>1. /\ queue # <<>> /\ Head(queue).at = "credit" /\ j.kind = "ingest"
      /\ p \in Payloads /\ j.deviceId \in DeviceIds /\ Fits(Head(queue), Len(objects), Registered)
  BY HeadRuns DEF CreditOwner
<1>2. /\ p.op \in {"MINT", "TRANSFER"} /\ p.tick \in Ticks /\ p.amount \in Nat
      /\ p.amount \in Amounts /\ owner \in DeviceIds
  BY <1>1, PayloadFields DEF Fits
<1>3. balances' = [balances EXCEPT ![p.tick] = Credit(@, owner, p.amount)] /\ Await("save")
  BY DEF CreditOwner
<1>4. /\ balances'[p.tick][owner] = balances[p.tick][owner] + p.amount
      /\ \A t \in Ticks, d \in DeviceIds :
            t # p.tick \/ d # owner => balances'[t][d] = balances[t][d]
  <2>1. balances \in [Ticks -> [DeviceIds -> Int]]
    BY DEF TypeInv, TablesTyped
  <2>2. \A f \in [DeviceIds -> Int], o \in DeviceIds, a \in Amounts :
           /\ Credit(f, o, a)[o] = f[o] + a
           /\ \A d \in DeviceIds : d # o => Credit(f, o, a)[d] = f[d]
    BY DEF Credit
  <2> HIDE DEF owner
  <2> QED
    BY <1>2, <1>3, <2>1, <2>2
<1> QED
  BY <1>1, <1>2, <1>3, <1>4

LEMMA CreditRaises ==
    ASSUME TypeInv, CreditOwner, NEW t \in Ticks, NEW d \in DeviceIds
    PROVE  balances[t][d] \in Int /\ balances[t][d] <= balances'[t][d]
<1>1. PICK s \in Ticks, owner \in DeviceIds, a \in Nat :
        /\ balances'[s][owner] = balances[s][owner] + a
        /\ \A u \in Ticks, x \in DeviceIds :
              u # s \/ x # owner => balances'[u][x] = balances[u][x]
  BY CreditWrites
<1>2. balances[t][d] \in Int
  BY DEF TypeInv, TablesTyped
<1>3. CASE t = s /\ d = owner
  BY <1>1, <1>2, <1>3
<1>4. CASE ~(t = s /\ d = owner)
  BY <1>1, <1>2, <1>4
<1> QED
  BY <1>2, <1>3, <1>4

\* Which steps write a balance.
LEMMA BalanceSteps ==
    ASSUME TypeInv, [Next]_vars
    PROVE  balances' = balances \/ DebitSender \/ CreditOwner
BY DEF Next, vars, tokenVars, RegisterDevice, Arrive, Wait, Begin, CreateToken, SaveToken,
       FindRecipient, CheckRecipient, SaveNonce, AppendAccepted, AppendRejected,
       LinkLorawanDevEui, S!RegisterDevice

LEMMA FundsReadAlways == Spec => []FundsRead
<1>1. Init => FundsRead
  BY EmptySeq DEF Init, FundsRead
<1>2. TypeInv /\ FundsRead /\ [Next]_vars => FundsRead'
  <2> SUFFICES ASSUME TypeInv, FundsRead, [Next]_vars PROVE FundsRead'
    OBVIOUS
  <2>1. \A t \in Ticks, d \in DeviceIds : balances[t][d] \in Int
    BY DEF TypeInv, TablesTyped
  <2>2. CASE balances' = balances
    BY <2>1, <2>2, FundsReadKept
  <2>3. CASE CreditOwner
    <3>1. \A t \in Ticks, d \in DeviceIds : balances[t][d] <= balances'[t][d]
      BY <2>3, CreditRaises
    <3> QED
      BY <3>1, FundsReadKept
  <2> QED
    BY <2>2, <2>3, DebitKeepsRead, BalanceSteps
<1> QED
  BY <1>1, <1>2, TypeInvAlways, PTL DEF Spec

\* A debit overdraws only while another transfer of its sender has been debited
\* and not gone on, however many share the macrotask: what one read is what the
\* other takes from.
THEOREM MemoryOverdraftTakesTwo == Spec => OverdraftTakesTwo
<1>1. TypeInv /\ FundsRead /\ [Next]_vars =>
        [\A t \in Ticks, d \in DeviceIds :
           (balances'[t][d] < balances[t][d] /\ balances'[t][d] < 0) =>
              \E i \in 2..Len(queue) :
                 /\ queue[i].at = "credit" /\ queue[i].job.deviceId = d
                 /\ queue[i].job.msg.op = "TRANSFER" /\ queue[i].job.msg.tick = t]_vars
  <2> SUFFICES ASSUME TypeInv, FundsRead, [Next]_vars, NEW t \in Ticks, NEW d \in DeviceIds,
                      balances'[t][d] < balances[t][d], balances'[t][d] < 0
               PROVE  \E i \in 2..Len(queue) :
                         /\ queue[i].at = "credit" /\ queue[i].job.deviceId = d
                         /\ queue[i].job.msg.op = "TRANSFER" /\ queue[i].job.msg.tick = t
    OBVIOUS
  <2> DEFINE h == Head(queue)
             p == h.job.msg
  <2>1. balances[t][d] \in Int /\ balances'[t][d] \in Int
    BY TypeInvStep DEF TypeInv, TablesTyped
  <2>2. DebitSender
    <3>1. ~CreditOwner
      <4> SUFFICES ASSUME CreditOwner PROVE FALSE
        OBVIOUS
      <4>1. balances[t][d] <= balances'[t][d]
        BY CreditRaises
      <4> QED
        BY <2>1, <4>1
    <3>2. balances' # balances
      BY <2>1
    <3> QED
      BY <3>1, <3>2, BalanceSteps
  <2>3. /\ h = queue[1] /\ 1 \in DOMAIN queue /\ h.at = "debit" /\ p.amount \in Nat /\ h.funds \in Int
        /\ t = p.tick /\ d = h.job.deviceId /\ p.amount <= h.funds
        /\ balances'[t][d] = balances[t][d] - p.amount
    BY <2>1, <2>2, DebitWrites
  <2>4. ~(h.funds <= balances[t][d])
    BY <2>1, <2>3
  <2>5. PICK j \in DOMAIN queue : 1 < j /\ Debited(queue[j], t, d)
    BY <2>3, <2>4 DEF FundsRead
  <2>6. j \in 2..Len(queue)
    BY <2>5, LenProperties DEF TypeInv, QueueTyped
  <2> QED
    BY <2>5, <2>6 DEF Debited
<1> QED
  BY <1>1, TypeInvAlways, FundsReadAlways, PTL DEF Spec, OverdraftTakesTwo

-----------------------------------------------------------------------------
\* Tokens.

\* A handler that has read the tokens map knows the object that is there, or the
\* map has been written since, by a request that stands behind it in the queue.
TokenRead ==
    \A i \in DOMAIN queue : LET c == queue[i] IN
        c.at = "token" =>
           \/ c.token = tokenAt[c.job.msg.tick]
           \/ \E j \in DOMAIN queue : i < j /\ WroteToken(queue[j], c.job.msg.tick)

\* Which steps write a token, and that who has written the map is known by it.
LEMMA TokenSteps ==
    ASSUME TypeInv, [Next]_vars
    PROVE  \/ UNCHANGED tokenVars
           \/ CreateToken
           \/ SaveToken
BY DEF Next, vars, tokenVars, RegisterDevice, Arrive, Wait, Begin, FindRecipient,
       CheckRecipient, DebitSender, CreditOwner, SaveNonce, AppendAccepted, AppendRejected,
       LinkLorawanDevEui

LEMMA CreateWrites ==
    ASSUME TypeInv, CreateToken
    PROVE  LET h == Head(queue)
               p == h.job.msg
           IN /\ queue # <<>> /\ h = queue[1] /\ 1 \in DOMAIN queue /\ h.at = "token"
              /\ h.job.kind = "ingest" /\ h.job.deviceId \in DeviceIds
              /\ p \in Payloads /\ p.op = "DEPLOY" /\ p.tick \in Ticks
              /\ \/ UNCHANGED tokenVars /\ Throw("token_already_exists")
                 \/ /\ h.token = 0 /\ Len(objects) \in Nat
                    /\ objects' = Append(objects, NewToken(h.job.deviceId, p))
                    /\ Len(objects') = Len(objects) + 1
                    /\ \A k \in 1..Len(objects) : objects'[k] = objects[k]
                    /\ objects'[Len(objects')] = NewToken(h.job.deviceId, p)
                    /\ tokenAt' = [tokenAt EXCEPT ![p.tick] = Len(objects')]
                    /\ Await("save")
<1> DEFINE h == Head(queue)
           p == h.job.msg
           new == NewToken(h.job.deviceId, p)
<1>1. /\ queue # <<>> /\ h = queue[1] /\ 1 \in DOMAIN queue /\ h.at = "token"
      /\ h.job.kind = "ingest" /\ h.job.deviceId \in DeviceIds
      /\ p \in Payloads /\ p.op = "DEPLOY" /\ p.tick \in Ticks /\ Len(objects) \in Nat
  BY HeadRuns, PayloadFields DEF CreateToken
<1>2. CASE h.token # 0
  BY <1>1, <1>2 DEF CreateToken
<1>3. CASE h.token = 0
  <2>1. /\ objects' = Append(objects, new) /\ Await("save")
        /\ tokenAt' = [tokenAt EXCEPT ![p.tick] = Len(objects')]
    BY <1>3 DEF CreateToken
  <2>2. objects \in Seq(SoundToken \cup {new}) /\ new \in SoundToken \cup {new}
    BY SeqMonotonic DEF TypeInv, TablesTyped
  <2> HIDE DEF new
  <2>3. /\ Len(objects') = Len(objects) + 1 /\ objects'[Len(objects) + 1] = new
        /\ \A k \in 1..Len(objects) : objects'[k] = objects[k]
    BY <2>1, <2>2, AppendProperties
  <2> QED
    BY <1>1, <1>3, <2>1, <2>3 DEF new
<1> QED
  BY <1>2, <1>3

LEMMA MintWrites ==
    ASSUME TypeInv, SaveToken
    PROVE  LET h == Head(queue)
               p == h.job.msg
               k == h.token
           IN /\ queue # <<>> /\ h = queue[1] /\ 1 \in DOMAIN queue /\ h.at = "token"
              /\ h.job.kind = "ingest" /\ h.job.deviceId \in DeviceIds
              /\ p \in Payloads /\ p.op = "MINT" /\ p.tick \in Ticks
              /\ p.amount \in Nat /\ p.amount \in Amounts
              /\ \/ UNCHANGED tokenVars /\ \E code \in Reasons : Throw(code)
                 \/ /\ k \in 1..Len(objects) /\ objects[k] \in SoundToken
                    /\ objects'[k] \in SoundToken
                    /\ objects'[k].totalSupply = objects[k].totalSupply + p.amount
                    /\ [objects'[k] EXCEPT !.totalSupply = 0]
                         = [objects[k] EXCEPT !.totalSupply = 0]
                    /\ \A n \in 1..Len(objects) : n # k => objects'[n] = objects[n]
                    /\ Len(objects') = Len(objects)
                    /\ tokenAt' = [tokenAt EXCEPT ![p.tick] = k]
                    /\ Await("credit")
<1> DEFINE h == Head(queue)
           p == h.job.msg
           k == h.token
           o == IF k = 0 THEN Null ELSE objects[k]
           n == [objects[k] EXCEPT !.totalSupply = @ + p.amount]
<1>1. /\ queue # <<>> /\ h = queue[1] /\ 1 \in DOMAIN queue /\ h.at = "token"
      /\ h.job.kind = "ingest" /\ h.job.deviceId \in DeviceIds
      /\ p \in Payloads /\ p.op = "MINT" /\ k \in 0..Len(objects) /\ Len(objects) \in Nat
  BY HeadRuns DEF SaveToken
<1>2. p.tick \in Ticks /\ p.amount \in Nat /\ p.amount \in Amounts
  BY <1>1, PayloadFields
<1>3. CASE MintError(o, p) # NoError
  <2>1. MintError(o, p) \in Reasons
    BY <1>1, ErrorsAreReasons
  <2>2. Throw(MintError(o, p)) /\ UNCHANGED tokenVars
    BY <1>3 DEF SaveToken
  <2> QED
    BY <1>1, <1>2, <2>1, <2>2
<1>4. CASE MintError(o, p) = NoError
  <2>1. k # 0
    BY <1>4 DEF MintError, NoError
  <2>2. /\ objects' = [objects EXCEPT ![k] = n]
        /\ tokenAt' = [tokenAt EXCEPT ![p.tick] = k] /\ Await("credit")
    BY <1>4 DEF SaveToken
  <2>3. k \in 1..Len(objects) /\ objects[k] \in SoundToken
    BY <1>1, <2>1, ElementOfSeq DEF TypeInv, TablesTyped
  <2>4. n \in SoundToken
    BY <1>1, <1>4, <2>1, <2>3, MintedSound
  <2>5. /\ n.totalSupply = objects[k].totalSupply + p.amount
        /\ [n EXCEPT !.totalSupply = 0] = [objects[k] EXCEPT !.totalSupply = 0]
    <3>1. objects[k] \in Token
      BY <2>3 DEF SoundToken
    <3>2. PICK old \in Token : old = objects[k]
      BY <3>1
    <3>3. /\ [old EXCEPT !.totalSupply = @ + p.amount].totalSupply = old.totalSupply + p.amount
          /\ [[old EXCEPT !.totalSupply = @ + p.amount] EXCEPT !.totalSupply = 0]
               = [old EXCEPT !.totalSupply = 0]
      BY DEF Token
    <3> QED
      BY <3>2, <3>3
  <2> HIDE DEF n
  <2>6. DOMAIN objects = 1..Len(objects)
    BY LenProperties DEF TypeInv, TablesTyped
  <2>7. objects'[k] = n /\ \A m \in 1..Len(objects) : m # k => objects'[m] = objects[m]
    BY <2>2, <2>3, <2>6
  <2>8. Len(objects') = Len(objects)
    BY <2>2, <2>3, <2>4, ExceptSeq DEF TypeInv, TablesTyped
  <2> QED
    BY <1>1, <1>2, <2>2, <2>3, <2>4, <2>5, <2>7, <2>8
<1> QED
  BY <1>3, <1>4

\* A step that writes the map leaves its request at the end of the queue, where
\* it is known by what it wrote.
LEMMA MapWritten ==
    ASSUME TypeInv, [Next]_vars, tokenAt' # tokenAt
    PROVE  LET h == Head(queue)
               s == h.job.msg.tick
           IN /\ queue # <<>> /\ h = queue[1] /\ 1 \in DOMAIN queue /\ h.at = "token"
              /\ s \in Ticks
              /\ \A t \in Ticks : t # s => tokenAt'[t] = tokenAt[t]
              /\ \/ h.token = 0
                 \/ tokenAt'[s] = h.token
              /\ \E c : AwaitAs(c) /\ WroteToken(c, s)
<1> DEFINE h == Head(queue)
           s == h.job.msg.tick
<1>1. tokenAt \in [Ticks -> 0..Len(objects)]
  BY DEF TypeInv, TablesTyped
<1>2. CASE CreateToken
  <2>1. /\ queue # <<>> /\ h = queue[1] /\ 1 \in DOMAIN queue /\ h.at = "token" /\ s \in Ticks
        /\ h.job.kind = "ingest" /\ h.job.msg.op = "DEPLOY" /\ h.token = 0
        /\ tokenAt' = [tokenAt EXCEPT ![s] = Len(objects')] /\ Await("save")
    BY <1>2, CreateWrites DEF tokenVars
  <2>2. PICK c : AwaitAs(c) /\ c.job = h.job /\ c.at = "save"
    BY <2>1, AwaitGoes
  <2>3. WroteToken(c, s)
    BY <2>1, <2>2 DEF WroteToken
  <2> QED
    BY <1>1, <2>1, <2>2, <2>3
<1>3. CASE SaveToken
  <2>1. /\ queue # <<>> /\ h = queue[1] /\ 1 \in DOMAIN queue /\ h.at = "token" /\ s \in Ticks
        /\ h.job.kind = "ingest" /\ h.job.msg.op = "MINT"
        /\ tokenAt' = [tokenAt EXCEPT ![s] = h.token] /\ Await("credit")
    BY <1>3, MintWrites DEF tokenVars
  <2>2. PICK c : AwaitAs(c) /\ c.job = h.job /\ c.at = "credit"
    BY <2>1, AwaitGoes
  <2>3. WroteToken(c, s)
    BY <2>1, <2>2 DEF WroteToken
  <2> QED
    BY <1>1, <2>1, <2>2, <2>3
<1> QED
  BY <1>2, <1>3, TokenSteps DEF tokenVars

LEMMA ReaderFields ==
    ASSUME TypeInv, NEW i \in DOMAIN queue, queue[i].at = "token"
    PROVE  queue[i].job.msg.tick \in Ticks
<1>1. /\ queue[i] \in Continuation /\ queue[i].job.kind = "ingest"
      /\ queue[i].job.msg.op \in {"DEPLOY", "MINT", "TRANSFER"}
  BY DEF TypeInv, QueueTyped, Fits
<1>2. queue[i].job \in Jobs
  BY <1>1 DEF Continuation
<1> QED
  BY <1>1, <1>2, JobFields, PayloadFields

LEMMA TokenReadStep ==
    ASSUME TypeInv, TokenRead, [Next]_vars
    PROVE  TokenRead'
<1> SUFFICES ASSUME NEW i \in DOMAIN queue', queue'[i].at = "token"
             PROVE  LET c == queue'[i] IN
                    \/ c.token = tokenAt'[c.job.msg.tick]
                    \/ \E j \in DOMAIN queue' : i < j /\ WroteToken(queue'[j], c.job.msg.tick)
  BY DEF TokenRead, WroteToken
<1> DEFINE c == queue'[i]
           t == c.job.msg.tick
<1>1. DOMAIN queue' = 1..Len(queue') /\ Len(queue') \in Nat
  BY TypeInvStep, LenProperties DEF TypeInv, QueueTyped
<1>2. DOMAIN queue = 1..Len(queue) /\ Len(queue) \in Nat
  BY LenProperties DEF TypeInv, QueueTyped
<1>3. CASE tokenAt' = tokenAt
  <2>1. PICK k \in {0, 1} : Carried(k)
    BY Carries
  <2>2. CASE i + k \in DOMAIN queue /\ c = queue[i + k]
    <3>1. CASE c.token = tokenAt[t]
      BY <1>3, <3>1
    <3>2. ASSUME NEW j \in DOMAIN queue, i + k < j, WroteToken(queue[j], t)
          PROVE  \E h \in DOMAIN queue' : i < h /\ WroteToken(queue'[h], t)
      <4>1. j > k /\ i < j - k
        BY <1>1, <1>2, <3>2
      <4>2. j - k \in DOMAIN queue' /\ queue'[j - k] = queue[j]
        BY <2>1, <4>1 DEF Carried
      <4> QED
        BY <3>2, <4>1, <4>2
    <3> QED
      BY <2>2, <3>1, <3>2 DEF TokenRead
  <2>3. CASE GoesOn(Head(queue), c)
    BY <1>3, <2>3 DEF GoesOn
  <2> QED
    BY <2>1, <2>2, <2>3 DEF Carried
<1>4. CASE tokenAt' # tokenAt
  <2>1. PICK s, b : /\ queue # <<>> /\ AwaitAs(b) /\ WroteToken(b, s)
                    /\ \A u \in Ticks : u # s => tokenAt'[u] = tokenAt[u]
    BY <1>4, MapWritten
  <2>2. /\ DOMAIN queue' = 1..Len(queue)
        /\ Len(queue) \in DOMAIN queue' /\ queue'[Len(queue)] = b
        /\ i # Len(queue) => i + 1 \in DOMAIN queue /\ queue'[i] = queue[i + 1]
        /\ \A j \in DOMAIN queue : j > 1 => j - 1 \in DOMAIN queue' /\ queue'[j - 1] = queue[j]
    BY <2>1, HeadPlaces
  <2>3. i # Len(queue) /\ i < Len(queue)
    BY <1>2, <2>1, <2>2 DEF WroteToken
  <2>4. i + 1 \in DOMAIN queue /\ c = queue[i + 1] /\ t \in Ticks
    BY <2>2, <2>3, ReaderFields
  <2>5. CASE t = s
    BY <2>1, <2>2, <2>3, <2>5
  <2>6. CASE t # s /\ c.token = tokenAt[t]
    BY <2>1, <2>4, <2>6
  <2>7. ASSUME NEW j \in DOMAIN queue, i + 1 < j, WroteToken(queue[j], t)
        PROVE  \E h \in DOMAIN queue' : i < h /\ WroteToken(queue'[h], t)
    <3>1. j > 1 /\ i < j - 1
      BY <1>2, <2>2, <2>7
    <3> QED
      BY <2>2, <2>7, <3>1
  <2> QED
    BY <2>4, <2>5, <2>6, <2>7 DEF TokenRead
<1> QED
  BY <1>3, <1>4

LEMMA TokenReadAlways == Spec => []TokenRead
<1>1. Init => TokenRead
  BY EmptySeq DEF Init, TokenRead
<1>2. TypeInv /\ TokenRead /\ [Next]_vars => TokenRead'
  BY TokenReadStep
<1> QED
  BY <1>1, <1>2, TypeInvAlways, PTL DEF Spec

\* An object that stays in the map keeps its terms, whichever ticker's mint
\* writes it.
LEMMA ObjectsKeepTerms ==
    ASSUME TypeInv, [Next]_vars, NEW k \in 1..Len(objects)
    PROVE  /\ k \in 1..Len(objects') /\ objects[k] \in SoundToken /\ objects'[k] \in SoundToken
           /\ [objects'[k] EXCEPT !.totalSupply = 0] = [objects[k] EXCEPT !.totalSupply = 0]
           /\ objects'[k].totalSupply >= objects[k].totalSupply
<1>1. Len(objects) \in Nat /\ Len(objects') \in Nat /\ objects[k] \in SoundToken
  BY TypeInvStep, LenProperties, ElementOfSeq DEF TypeInv, TablesTyped
<1>2. objects[k].totalSupply \in Nat
  BY <1>1 DEF SoundToken, Token, Amounts
<1>3. CASE UNCHANGED tokenVars
  BY <1>1, <1>2, <1>3 DEF tokenVars
<1>4. CASE CreateToken
  BY <1>1, <1>2, <1>3, <1>4, CreateWrites
<1>5. CASE SaveToken
  <2>1. CASE k = Head(queue).token
    BY <1>1, <1>2, <1>3, <1>5, <2>1, MintWrites
  <2>2. CASE k # Head(queue).token
    BY <1>1, <1>2, <1>3, <1>5, <2>2, MintWrites
  <2> QED
    BY <2>1, <2>2
<1> QED
  BY <1>3, <1>4, <1>5, TokenSteps

LEMMA TermsOfMap ==
    ASSUME TypeInv, [Next]_vars, NEW t \in Ticks, tokens[t] # Null, tokenAt'[t] = tokenAt[t]
    PROVE  TermsKept(t)
<1> DEFINE k == tokenAt[t]
<1>1. k \in 1..Len(objects) /\ tokens[t] = objects[k]
  BY LenProperties DEF tokens, TypeInv, TablesTyped
<1>2. k # 0
  BY <1>1, LenProperties DEF TypeInv, TablesTyped
<1>3. tokens'[t] = objects'[k]
  BY <1>2 DEF tokens
<1>4. objects'[k] \in SoundToken
  BY <1>1, ObjectsKeepTerms
<1>5. objects'[k] # Null
  BY <1>4, ProtocolAssumption DEF SoundToken
<1> QED
  BY <1>1, <1>3, <1>5, ObjectsKeepTerms DEF TermsKept

\* Who replaces a deployed token read the map before a request wrote it that is
\* still waiting: nobody who comes after a deploy or a mint replaces its object.
THEOREM MemoryReplacedByRivalOnly == Spec => ReplacedByRivalOnly
<1>1. TypeInv /\ TokenRead /\ [Next]_vars =>
        [\A t \in Ticks : tokens[t] # Null =>
           TermsKept(t) \/ \E i \in 2..Len(queue) : WroteToken(queue[i], t)]_vars
  <2> SUFFICES ASSUME TypeInv, TokenRead, [Next]_vars, NEW t \in Ticks, tokens[t] # Null,
                      tokenAt'[t] # tokenAt[t]
               PROVE  \E i \in 2..Len(queue) : WroteToken(queue[i], t)
    BY TermsOfMap
  <2>1. tokenAt[t] # 0
    BY DEF tokens
  <2>2. /\ Head(queue) = queue[1] /\ 1 \in DOMAIN queue /\ Head(queue).at = "token"
        /\ t = Head(queue).job.msg.tick
        /\ Head(queue).token = 0 \/ tokenAt'[t] = Head(queue).token
    BY MapWritten
  <2>3. PICK j \in DOMAIN queue : 1 < j /\ WroteToken(queue[j], t)
    BY <2>1, <2>2 DEF TokenRead
  <2>4. j \in 2..Len(queue)
    BY <2>3, LenProperties DEF TypeInv, QueueTyped
  <2> QED
    BY <2>3, <2>4
<1> QED
  BY <1>1, TypeInvAlways, TokenReadAlways, PTL DEF Spec, ReplacedByRivalOnly

-----------------------------------------------------------------------------
\* What the head goes on to.

DevEuiTaken == "lorawan_dev_eui_already_registered"

\* A continuation that has written its nonce, and with it all it writes: only the
\* row of its event is left to be added, be the event accepted or not.
Spends(c) == c.at = "append" \/ (c.at = "reject" /\ c.reason = DevEuiTaken)

\* The head goes on to its next await, and no device and no event is written.
Walks ==
    /\ queue # <<>> /\ Head(queue).at # "append" /\ UNCHANGED <<devices, events, recorded>>
    /\ \E c : /\ AwaitAs(c) /\ c.job = Head(queue).job
              /\ c = Head(queue) \/ (~Spends(c) /\ ~Spends(Head(queue)))

\* It writes its nonce into the store's device object.
Saves ==
    /\ queue # <<>> /\ ~Spends(Head(queue)) /\ UNCHANGED <<events, recorded>>
    /\ Head(queue).job.deviceId \in Registered /\ Head(queue).job.msg \in Payloads
    /\ \E device \in Device :
          /\ device.lastNonce = Head(queue).job.msg.nonce
          /\ devices' = [devices EXCEPT ![Head(queue).job.deviceId] = device]
    /\ \E c : AwaitAs(c) /\ c.job = Head(queue).job /\ Spends(c)

LEMMA ReasonsSpendNothing ==
    ASSUME TypeInv, queue # <<>>, NEW code \in Reasons, Throw(code)
    PROVE  \E c : AwaitAs(c) /\ c.job = Head(queue).job /\ ~Spends(c)
<1> DEFINE c == [Head(queue) EXCEPT !.at = "reject", !.reason = code]
<1>1. Head(queue) \in Continuation
  BY HeadFits
<1>2. c.job = Head(queue).job /\ c.at = "reject" /\ c.reason = code
  BY <1>1 DEF Continuation
<1>3. code # DevEuiTaken
  BY DEF Reasons, NoError, DevEuiTaken
<1>4. AwaitAs(c)
  BY DEF Throw
<1> HIDE DEF c
<1> QED
  BY <1>2, <1>3, <1>4 DEF Spends

LEMMA ThrowWalks ==
    ASSUME TypeInv, queue # <<>>, ~Spends(Head(queue)), UNCHANGED <<devices, events, recorded>>,
           NEW code \in Reasons, Throw(code)
    PROVE  Walks
BY ReasonsSpendNothing DEF Walks, Spends

LEMMA AwaitWalks ==
    ASSUME TypeInv, queue # <<>>, ~Spends(Head(queue)), UNCHANGED <<devices, events, recorded>>,
           NEW label, label \notin {"append", "reject"}, Await(label)
    PROVE  Walks
BY AwaitGoes DEF Walks, Spends

\* What saveDevice makes of the head, whether it throws or not.
LEMMA SaveSpends ==
    ASSUME TypeInv, queue # <<>>, NEW d, NEW device, SaveDevice(d, device)
    PROVE  \E c : AwaitAs(c) /\ c.job = Head(queue).job /\ Spends(c)
<1>1. CASE Await("append")
  BY <1>1, AwaitGoes DEF Spends
<1>2. CASE Throw(DevEuiTaken)
  <2> DEFINE c == [Head(queue) EXCEPT !.at = "reject", !.reason = DevEuiTaken]
  <2>1. Head(queue) \in Continuation
    BY HeadFits
  <2>2. c.job = Head(queue).job /\ c.at = "reject" /\ c.reason = DevEuiTaken
    BY <2>1 DEF Continuation
  <2>3. AwaitAs(c)
    BY <1>2 DEF Throw
  <2> HIDE DEF c
  <2> QED
    BY <2>2, <2>3 DEF Spends
<1> QED
  BY <1>1, <1>2 DEF SaveDevice, DevEuiTaken

\* What the handlers make of a device object.
LEMMA RowsWritten ==
    ASSUME NEW device \in Device, NEW p \in Payloads
    PROVE  /\ AcceptNonce(device, p).lastNonce = p.nonce
           /\ ApplyConfig(device, p).lastNonce = p.nonce
BY DEF AcceptNonce, ApplyConfig, Device

LEMMA NonceSaves ==
    ASSUME TypeInv, queue # <<>>, ~Spends(Head(queue)), UNCHANGED <<events, recorded>>,
           Head(queue).job.deviceId \in Registered, Head(queue).job.msg \in Payloads,
           NEW device,
           \/ device = AcceptNonce(devices[Head(queue).job.deviceId], Head(queue).job.msg)
           \/ /\ device = ApplyConfig(devices[Head(queue).job.deviceId], Head(queue).job.msg)
              /\ Head(queue).job.msg.op = "CONFIG",
           SaveDevice(Head(queue).job.deviceId, device)
    PROVE  Saves
<1>1. device \in Device /\ devices[Head(queue).job.deviceId] \in Device
  BY RowsSaved DEF TypeInv
<1>2. device.lastNonce = Head(queue).job.msg.nonce
  BY <1>1, RowsWritten
<1>3. devices' = [devices EXCEPT ![Head(queue).job.deviceId] = device]
  BY DEF SaveDevice
<1> QED
  BY <1>1, <1>2, <1>3, SaveSpends DEF Saves

\* What a step makes of devices, events and the queue.
LEMMA Steps ==
    ASSUME TypeInv, [Next]_vars
    PROVE  \/ UNCHANGED vars \/ RegisterDevice \/ Arrive \/ LinkLorawanDevEui
           \/ AppendAccepted \/ AppendRejected \/ Walks \/ Saves
<1> DEFINE c == Head(queue)
           d == c.job.deviceId
           p == c.job.msg
<1>1. CASE Wait
  <2>1. /\ queue # <<>> /\ AwaitAs(c) /\ c.at \in {"start", "reject"}
        /\ UNCHANGED <<devices, events, recorded>>
    BY <1>1, EmptySeq DEF Wait, AwaitAs
  <2> QED
    BY <2>1 DEF Walks
<1>2. CASE Begin
  <2> DEFINE error == IF AuthError(devices[d], d, p) # NoError THEN AuthError(devices[d], d, p)
                      ELSE PayloadError(p)
             b == [c EXCEPT !.at = "token", !.token = tokenAt[p.tick]]
  <2>1. queue # <<>> /\ c \in Continuation /\ d \in DeviceIds /\ p \in Payloads
        /\ p.op \in {"DEPLOY", "MINT", "TRANSFER", "MESSAGE", "CONFIG"}
        /\ c.at = "start" /\ ~Spends(c) /\ UNCHANGED <<events, recorded>>
    BY <1>2, HeadRuns, PayloadFields DEF Begin, Spends
  <2>2. CASE error # NoError
    <3>1. Throw(error) /\ devices' = devices
      BY <1>2, <2>2 DEF Begin
    <3>2. error \in Reasons
      BY <2>1, ErrorsAreReasons
    <3> QED
      BY <2>1, <3>1, <3>2, ThrowWalks
  <2>3. CASE error = NoError
    <3>1. d \in Registered
      BY <2>1, <2>3, PassedChecks
    <3>2. \/ AwaitAs(b) /\ devices' = devices
          \/ Await("recipient") /\ devices' = devices
          \/ SaveDevice(d, AcceptNonce(devices[d], p))
          \/ p.op = "CONFIG" /\ SaveDevice(d, ApplyConfig(devices[d], p))
      BY <1>2, <2>1, <2>3 DEF Begin
    <3>3. CASE AwaitAs(b) /\ devices' = devices
      <4>1. b.job = c.job /\ b.at = "token"
        BY <2>1, LabelsSet
      <4> QED
        BY <2>1, <3>1, <3>3, <4>1 DEF Walks, Spends
    <3>4. CASE Await("recipient") /\ devices' = devices
      BY <2>1, <3>1, <3>4, AwaitWalks
    <3> QED
      BY <2>1, <3>1, <3>2, <3>3, <3>4, NonceSaves
  <2> QED
    BY <2>2, <2>3
<1>3. CASE CheckRecipient
  <2> DEFINE b == [c EXCEPT !.at = "debit", !.funds = balances[p.tick][d]]
  <2>1. /\ queue # <<>> /\ c \in Continuation /\ p.op \in {"TRANSFER", "MESSAGE"}
        /\ ~Spends(c) /\ d \in Registered /\ p \in Payloads
        /\ UNCHANGED <<events, recorded>>
    <3>1. /\ queue # <<>> /\ c \in Continuation /\ c.at = "recipient"
          /\ Fits(c, Len(objects), Registered) /\ p \in Payloads
          /\ UNCHANGED <<events, recorded>>
      BY <1>3, HeadRuns DEF CheckRecipient
    <3> QED
      BY <3>1 DEF Fits, Spends
  <2>2. \/ Throw("recipient_not_found") /\ devices' = devices
        \/ SaveDevice(d, AcceptNonce(devices[d], p))
        \/ AwaitAs(b) /\ devices' = devices
    BY <1>3, <2>1 DEF CheckRecipient
  <2>3. CASE AwaitAs(b) /\ devices' = devices
    <3>1. b.job = c.job /\ b.at = "debit"
      BY <2>1, LabelsSet
    <3> QED
      BY <2>1, <2>3, <3>1 DEF Walks, Spends
  <2> QED
    BY <2>1, <2>2, <2>3, ThrowWalks, NonceSaves DEF Reasons
<1>4. CASE CreateToken \/ SaveToken \/ FindRecipient \/ DebitSender \/ CreditOwner
  <2>1. /\ queue # <<>> /\ ~Spends(c) /\ UNCHANGED <<devices, events, recorded>>
    BY <1>4 DEF CreateToken, SaveToken, FindRecipient, DebitSender, CreditOwner, Running, Spends
  <2>2. \/ Await("save") \/ Await("credit") \/ Await("recipient")
        \/ \E code \in Reasons : Throw(code)
    BY <1>4, MintWrites
    DEF CreateToken, SaveToken, FindRecipient, DebitSender, CreditOwner, Reasons
  <2> QED
    BY <2>1, <2>2, AwaitWalks, ThrowWalks
<1>5. CASE SaveNonce
  <2>1. /\ queue # <<>> /\ c.at = "save" /\ d \in Registered /\ p \in Payloads
        /\ UNCHANGED <<events, recorded>> /\ SaveDevice(d, AcceptNonce(devices[d], p))
    BY <1>5, HeadRuns, SMTT(40) DEF SaveNonce, Fits
  <2> QED
    BY <2>1, NonceSaves DEF Spends
<1> QED
  BY <1>1, <1>2, <1>3, <1>4, <1>5 DEF Next

-----------------------------------------------------------------------------
\* Rows.

\* There are no more rows than were inserted.
SizeInv == IsFiniteSet(events) /\ Cardinality(events) <= recorded

LEMMA RowsCounted ==
    ASSUME TypeInv, SizeInv, NEW status, NEW reason, NEW d, NEW p,
           S!AppendEvent(status, reason, d, p)
    PROVE  LET row == S!Event(recorded + 1, status, reason, d, p)
           IN /\ recorded' = recorded + 1 /\ recorded \in Nat
              /\ events' \subseteq events \cup {row}
              /\ IsFiniteSet(events') /\ Cardinality(events') <= recorded'
              /\ Cardinality(events') = recorded' =>
                    events' = events \cup {row} /\ Cardinality(events) = recorded
              /\ \A e \in events \cup {row} : e.msg.op # "MESSAGE" => e \in events'
<1> DEFINE row == S!Event(recorded + 1, status, reason, d, p)
           log == events \cup {row}
<1>1. recorded' = recorded + 1 /\ events' \in S!Prunings(log)
  BY DEF S!AppendEvent
<1>2. recorded \in Nat
  BY DEF TypeInv, TablesTyped, SP!LogTyped
<1>3. events' \subseteq log /\ \A e \in log : e.msg.op # "MESSAGE" => e \in events'
  BY <1>1 DEF S!Prunings
<1> HIDE DEF row
<1>4. /\ IsFiniteSet(log) /\ Cardinality(events) \in Nat
      /\ Cardinality(log) \in {Cardinality(events), Cardinality(events) + 1}
  BY FS_AddElement, FS_CardinalityType DEF SizeInv
<1>5. /\ IsFiniteSet(events') /\ Cardinality(events') <= Cardinality(log)
      /\ Cardinality(log) = Cardinality(events') => events' = log
      /\ Cardinality(events') \in Nat
  <2> HIDE DEF log
  <2> QED
    BY <1>3, <1>4, FS_Subset, FS_CardinalityType
<1>6. Cardinality(events') <= recorded'
  BY <1>1, <1>2, <1>4, <1>5 DEF SizeInv
<1>7. ASSUME Cardinality(events') = recorded'
      PROVE  events' = log /\ Cardinality(events) = recorded
  BY <1>1, <1>2, <1>4, <1>5, <1>7 DEF SizeInv
<1> QED
  BY <1>1, <1>2, <1>3, <1>5, <1>6, <1>7 DEF row

LEMMA SizeInvAlways == Spec => []SizeInv
<1>1. Init => SizeInv
  BY FS_EmptySet DEF Init, SizeInv, S!StoreInit, S!TableInit
<1>2. TypeInv /\ SizeInv /\ [Next]_vars => SizeInv'
  <2> SUFFICES ASSUME TypeInv, SizeInv, [Next]_vars PROVE SizeInv'
    OBVIOUS
  <2>1. ASSUME NEW status, NEW reason, NEW d, NEW p, S!AppendEvent(status, reason, d, p)
        PROVE  SizeInv'
    BY <2>1, RowsCounted DEF SizeInv
  <2>2. CASE UNCHANGED <<events, recorded>>
    BY <2>2 DEF SizeInv
  <2> QED
    BY <2>1, <2>2, Steps
    DEF vars, RegisterDevice, S!RegisterDevice, Arrive, LinkLorawanDevEui, AppendAccepted,
        AppendRejected, Walks, Saves
<1> QED
  BY <1>1, <1>2, TypeInvAlways, PTL DEF Spec

-----------------------------------------------------------------------------
\* Nonces.

NonceSet(d) == devices[d] # Null /\ devices[d].lastNonce # Null

AppendOf(c, d) == c.at = "append" /\ c.job.deviceId = d

\* saveDevice has refused an uplink of d, nonce and all.
RefusalOf(c, d) == c.at = "reject" /\ c.reason = DevEuiTaken /\ c.job.deviceId = d

LastAppend(i, d) ==
    /\ AppendOf(queue[i], d)
    /\ \A j \in DOMAIN queue : i < j => ~AppendOf(queue[j], d)

LastAccepted(e, d) ==
    /\ e \in S!Accepted(d) /\ \A f \in S!Accepted(d) : f.at <= e.at
    /\ \A j \in DOMAIN queue : ~AppendOf(queue[j], d)

\* Where the nonce of a device comes from: the last of its uplinks that is about
\* to add its row, one that saveDevice has refused, with its row added or not, or
\* the last accepted row.
Traced(d) ==
    LET n == devices[d].lastNonce
    IN \/ \E i \in DOMAIN queue : LastAppend(i, d) /\ queue[i].job.msg.nonce = n
       \/ \E i \in DOMAIN queue : RefusalOf(queue[i], d) /\ queue[i].job.msg.nonce = n
       \/ \E e \in events : /\ e.deviceId = d /\ e.status = "rejected" /\ Effective(e)
                            /\ e.msg.nonce = n
       \/ \E e \in events : LastAccepted(e, d) /\ e.msg.nonce = n

\* Who has written a nonce has given his device one, and every nonce there is can
\* be traced as long as no row has been pruned.
Spenders ==
    /\ \A i \in DOMAIN queue : Spends(queue[i]) => NonceSet(queue[i].job.deviceId)
    /\ \A e \in events : Effective(e) => NonceSet(e.deviceId)

NonceInv ==
    Cardinality(events) = recorded => \A d \in DeviceIds : NonceSet(d) => Traced(d)

\* The queue has moved by k, and nobody of d has written a nonce or gone away with
\* one, but for a refusal that left its row.
Unspent(k, d) ==
    /\ \A j \in DOMAIN queue : j > k => j - k \in DOMAIN queue' /\ queue'[j - k] = queue[j]
    /\ \A i \in DOMAIN queue' :
          (i + k \in DOMAIN queue /\ queue'[i] = queue[i + k]) \/ ~AppendOf(queue'[i], d)
    /\ \A j \in DOMAIN queue : (j <= k /\ Spends(queue[j]) /\ queue[j].job.deviceId = d) =>
          /\ queue[j].at # "append"
          /\ \/ \E i \in DOMAIN queue' : queue'[i] = queue[j]
             \/ \E e \in events' : /\ e.deviceId = d /\ e.status = "rejected" /\ Effective(e)
                                   /\ e.msg.nonce = queue[j].job.msg.nonce

LEMMA TracedStays ==
    ASSUME TypeInv, [Next]_vars, NEW d \in DeviceIds, Traced(d), NEW k \in {0, 1}, Unspent(k, d),
           devices'[d].lastNonce = devices[d].lastNonce, events \subseteq events',
           S!Accepted(d)' = S!Accepted(d)
    PROVE  Traced(d)'
<1> DEFINE n == devices[d].lastNonce
<1>1. /\ DOMAIN queue = 1..Len(queue) /\ Len(queue) \in Nat
      /\ DOMAIN queue' = 1..Len(queue') /\ Len(queue') \in Nat
  BY TypeInvStep, LenProperties DEF TypeInv, QueueTyped
<1>2. ASSUME NEW i \in DOMAIN queue, LastAppend(i, d), queue[i].job.msg.nonce = n
      PROVE  Traced(d)'
  <2>1. i > k
    BY <1>1, <1>2 DEF LastAppend, AppendOf, Unspent, Spends
  <2>2. i - k \in DOMAIN queue' /\ queue'[i - k] = queue[i]
    BY <2>1 DEF Unspent
  <2>3. ASSUME NEW j \in DOMAIN queue', i - k < j PROVE ~AppendOf(queue'[j], d)
    <3>1. i < j + k
      BY <1>1, <2>3
    <3> QED
      BY <1>2, <3>1 DEF LastAppend, Unspent
  <2>4. LastAppend(i - k, d)'
    BY <1>2, <2>2, <2>3 DEF LastAppend, AppendOf
  <2> QED
    BY <1>2, <2>2, <2>4 DEF Traced
<1>3. ASSUME NEW i \in DOMAIN queue, RefusalOf(queue[i], d), queue[i].job.msg.nonce = n
      PROVE  Traced(d)'
  <2>1. CASE i > k
    <3>1. i - k \in DOMAIN queue' /\ queue'[i - k] = queue[i]
      BY <2>1 DEF Unspent
    <3> QED
      BY <1>3, <3>1 DEF Traced, RefusalOf
  <2>2. CASE i <= k
    <3>1. Spends(queue[i]) /\ queue[i].job.deviceId = d
      BY <1>3 DEF Spends, RefusalOf
    <3>2. \/ \E j \in DOMAIN queue' : queue'[j] = queue[i]
          \/ \E e \in events' : /\ e.deviceId = d /\ e.status = "rejected" /\ Effective(e)
                                /\ e.msg.nonce = n
      BY <1>3, <2>2, <3>1 DEF Unspent
    <3>3. CASE \E j \in DOMAIN queue' : queue'[j] = queue[i]
      BY <1>3, <3>3 DEF Traced, RefusalOf
    <3> QED
      BY <3>2, <3>3 DEF Traced, Effective
  <2> QED
    BY <1>1, <2>1, <2>2
<1>4. ASSUME NEW e \in events, LastAccepted(e, d), e.msg.nonce = n
      PROVE  Traced(d)'
  <2>1. \A j \in DOMAIN queue' : ~AppendOf(queue'[j], d)
    BY <1>4 DEF LastAccepted, Unspent
  <2>2. LastAccepted(e, d)'
    BY <1>4, <2>1 DEF LastAccepted, AppendOf
  <2> QED
    BY <1>4, <2>2 DEF Traced
<1>5. ASSUME NEW e \in events, e.deviceId = d, e.status = "rejected", Effective(e), e.msg.nonce = n
      PROVE  Traced(d)'
  BY <1>5 DEF Traced, Effective
<1> QED
  BY <1>2, <1>3, <1>4, <1>5 DEF Traced

\* Devices and their nonces stay.
LEMMA NoncesSaved ==
    ASSUME TypeInv, Saves, NEW d, d = Head(queue).job.deviceId
    PROVE  /\ d \in DeviceIds /\ NonceSet(d)'
           /\ devices'[d].lastNonce = Head(queue).job.msg.nonce
           /\ \A x \in DeviceIds : x # d => devices'[x] = devices[x]
<1> DEFINE n == Head(queue).job.msg.nonce
<1>1. PICK device \in Device : /\ device.lastNonce = n
                               /\ devices' = [devices EXCEPT ![d] = device]
  BY DEF Saves
<1>2. d \in DeviceIds /\ n \in Nat /\ devices \in [DeviceIds -> Device \cup {Null}]
  BY PayloadFields DEF Saves, Registered, TypeInv, TablesTyped
<1>3. device # Null /\ n # Null
  BY <1>1, <1>2, ProtocolAssumption
<1> QED
  BY <1>1, <1>2, <1>3 DEF NonceSet

LEMMA NoncesStay ==
    ASSUME TypeInv, [Next]_vars, NEW d \in DeviceIds, NonceSet(d)
    PROVE  /\ NonceSet(d)'
           /\ \/ Saves /\ Head(queue).job.deviceId = d
              \/ devices'[d].lastNonce = devices[d].lastNonce
<1>1. devices[d] \in Device
  BY DEF TypeInv, TablesTyped, NonceSet
<1>2. CASE devices'[d] = devices[d]
  BY <1>2 DEF NonceSet
<1>3. CASE RegisterDevice
  <2>1. PICK x \in Registrations : S!RegisterDevice(x.deviceId, x.devEui)
    BY <1>3 DEF RegisterDevice
  <2>2. devices'[d] = devices[d]
    BY <2>1 DEF S!RegisterDevice, NonceSet, TypeInv, TablesTyped
  <2> QED
    BY <1>2, <2>2
<1>4. CASE LinkLorawanDevEui
  <2> DEFINE job == Head(queue).job
             device == [devices[d] EXCEPT !.devEui = job.devEui]
  <2>1. devices'[d] \in {devices[d], device}
    BY <1>1, <1>4 DEF LinkLorawanDevEui, TypeInv, TablesTyped
  <2>2. job.devEui \in DevEuis
    BY <1>4, HeadRuns DEF LinkLorawanDevEui
  <2>3. device \in Device /\ device.lastNonce = devices[d].lastNonce
    BY <1>1, <2>2 DEF Device
  <2>4. device # Null
    BY <2>3, ProtocolAssumption
  <2> QED
    BY <2>1, <2>3, <2>4 DEF NonceSet
<1>5. CASE Saves
  <2>1. CASE Head(queue).job.deviceId = d
    BY <1>5, <2>1, NoncesSaved
  <2>2. CASE Head(queue).job.deviceId # d
    BY <1>2, <1>5, <2>2, NoncesSaved
  <2> QED
    BY <2>1, <2>2
<1> QED
  BY <1>2, <1>3, <1>4, <1>5, Steps DEF vars, Arrive, AppendAccepted, AppendRejected, Walks

\* The row that an uplink leaves.
LEMMA RowLeft ==
    ASSUME TypeInv, SizeInv, AppendAccepted \/ AppendRejected
    PROVE  LET h == Head(queue) IN
           /\ queue # <<>> /\ Return /\ h = queue[1] /\ 1 \in DOMAIN queue
           /\ h.job.deviceId \in DeviceIds /\ h.job.msg \in Payloads /\ h.job.kind = "ingest"
           /\ recorded \in Nat /\ recorded' = recorded + 1
           /\ \E row :
                 /\ row.at = recorded + 1 /\ row.deviceId = h.job.deviceId /\ row.msg = h.job.msg
                 /\ \/ AppendAccepted /\ h.at = "append" /\ row.status = "accepted"
                    \/ AppendRejected /\ h.at = "reject" /\ row.status = "rejected"
                       /\ row.reason = h.reason
                 /\ row \notin events
                 /\ events' \subseteq events \cup {row}
                 /\ Cardinality(events') = recorded' =>
                       events' = events \cup {row} /\ Cardinality(events) = recorded
                 /\ \A e \in events \cup {row} : e.msg.op # "MESSAGE" => e \in events'
<1> DEFINE h == Head(queue)
<1>1. /\ queue # <<>> /\ Return /\ h = queue[1] /\ 1 \in DOMAIN queue
      /\ h.job.deviceId \in DeviceIds /\ h.job.msg \in Payloads /\ h.job.kind = "ingest"
      /\ recorded \in Nat
  BY HeadRuns DEF AppendAccepted, AppendRejected, TypeInv, TablesTyped, SP!LogTyped
<1>2. \A e \in events : e.at # recorded + 1
  BY <1>1 DEF TypeInv, TablesTyped, SP!LogTyped, SP!EventRow
<1>3. CASE AppendAccepted
  <2> DEFINE row == S!Event(recorded + 1, "accepted", NoError, h.job.deviceId, h.job.msg)
  <2>1. /\ row.at = recorded + 1 /\ row.deviceId = h.job.deviceId /\ row.msg = h.job.msg
        /\ row.status = "accepted"
    BY DEF S!Event
  <2>2. h.at = "append" /\ S!AppendEvent("accepted", NoError, h.job.deviceId, h.job.msg)
    BY <1>3 DEF AppendAccepted, Running
  <2>3. /\ events' \subseteq events \cup {row} /\ recorded' = recorded + 1
        /\ Cardinality(events') = recorded' =>
              events' = events \cup {row} /\ Cardinality(events) = recorded
        /\ \A e \in events \cup {row} : e.msg.op # "MESSAGE" => e \in events'
    BY <2>2, RowsCounted
  <2> HIDE DEF row
  <2> QED
    BY <1>1, <1>2, <1>3, <2>1, <2>2, <2>3
<1>4. CASE AppendRejected
  <2> DEFINE row == S!Event(recorded + 1, "rejected", h.reason, h.job.deviceId, h.job.msg)
  <2>1. /\ row.at = recorded + 1 /\ row.deviceId = h.job.deviceId /\ row.msg = h.job.msg
        /\ row.status = "rejected" /\ row.reason = h.reason
    BY DEF S!Event
  <2>2. h.at = "reject" /\ S!AppendEvent("rejected", h.reason, h.job.deviceId, h.job.msg)
    BY <1>4 DEF AppendRejected, Running
  <2>3. /\ events' \subseteq events \cup {row} /\ recorded' = recorded + 1
        /\ Cardinality(events') = recorded' =>
              events' = events \cup {row} /\ Cardinality(events) = recorded
        /\ \A e \in events \cup {row} : e.msg.op # "MESSAGE" => e \in events'
    BY <2>2, RowsCounted
  <2> HIDE DEF row
  <2> QED
    BY <1>1, <1>2, <1>4, <2>1, <2>2, <2>3
<1> QED
  BY <1>3, <1>4

LEMMA QueueDevices ==
    ASSUME TypeInv
    PROVE  /\ \A i \in DOMAIN queue : queue[i].job.deviceId \in DeviceIds
           /\ \A e \in events : e.deviceId \in DeviceIds
<1>1. \A i \in DOMAIN queue : queue[i].job.deviceId \in DeviceIds
  BY JobFields DEF TypeInv, QueueTyped, Fits, Continuation
<1> QED
  BY <1>1 DEF TypeInv, TablesTyped, SP!LogTyped, SP!EventRow

LEMMA SpendersStep ==
    ASSUME TypeInv, SizeInv, Spenders, [Next]_vars
    PROVE  Spenders'
<1>1. ASSUME NEW i \in DOMAIN queue', Spends(queue'[i]), NEW d, d = queue'[i].job.deviceId
      PROVE  NonceSet(d)'
  <2>1. ASSUME NEW j \in DOMAIN queue, queue'[i] = queue[j] PROVE NonceSet(d)'
    <3>1. NonceSet(d) /\ d \in DeviceIds
      BY <1>1, <2>1, QueueDevices DEF Spenders
    <3> QED
      BY <3>1, NoncesStay
  <2>2. CASE queue' = queue
    BY <1>1, <2>1, <2>2
  <2>3. CASE Arrive
    <3>1. PICK job \in Calls :
            /\ Len(queue) \in Nat /\ DOMAIN queue' = 1..(Len(queue) + 1)
            /\ DOMAIN queue = 1..Len(queue) /\ queue'[Len(queue) + 1] = Called(job)
            /\ \A j \in DOMAIN queue : queue'[j] = queue[j]
      BY <2>3, ArrivesLast
    <3>2. i = Len(queue) + 1 \/ i \in DOMAIN queue
      BY <3>1
    <3> QED
      BY <1>1, <2>1, <3>1, <3>2 DEF Called, Spends
  <2>4. CASE queue # <<>> /\ Return
    BY <1>1, <2>1, <2>4, LeavePlaces
  <2>5. CASE Walks
    <3>1. PICK c : /\ AwaitAs(c) /\ queue # <<>>
                   /\ c = Head(queue) \/ ~Spends(c)
      BY <2>5 DEF Walks
    <3>2. CASE i = Len(queue)
      BY <1>1, <2>1, <3>1, <3>2, HeadPlaces, HeadFits
    <3>3. CASE i # Len(queue)
      BY <1>1, <2>1, <3>1, <3>3, HeadPlaces
    <3> QED
      BY <3>2, <3>3
  <2>6. CASE Saves
    <3>1. PICK c : AwaitAs(c) /\ queue # <<>> /\ c.job = Head(queue).job
      BY <2>6 DEF Saves
    <3>2. CASE i = Len(queue)
      BY <1>1, <2>6, <3>1, <3>2, HeadPlaces, NoncesSaved
    <3>3. CASE i # Len(queue)
      BY <1>1, <2>1, <3>1, <3>3, HeadPlaces
    <3> QED
      BY <3>2, <3>3
  <2> QED
    BY <2>2, <2>3, <2>4, <2>5, <2>6, Steps
    DEF vars, RegisterDevice, AppendAccepted, AppendRejected, LinkLorawanDevEui, Running
<1>2. ASSUME NEW e \in events', Effective(e), NEW d, d = e.deviceId
      PROVE  NonceSet(d)'
  <2>1. CASE e \in events
    BY <1>2, <2>1, QueueDevices, NoncesStay DEF Spenders
  <2>2. CASE e \notin events /\ (AppendAccepted \/ AppendRejected)
    <3>1. /\ d = Head(queue).job.deviceId /\ Head(queue) = queue[1] /\ 1 \in DOMAIN queue
          /\ Spends(Head(queue))
      BY <1>2, <2>2, RowLeft DEF Effective, Spends, DevEuiTaken
    <3>2. NonceSet(d) /\ d \in DeviceIds
      BY <3>1, QueueDevices DEF Spenders
    <3> QED
      BY <3>2, NoncesStay
  <2> QED
    BY <2>1, <2>2, Steps
    DEF vars, RegisterDevice, S!RegisterDevice, Arrive, LinkLorawanDevEui, Walks, Saves
<1> QED
  BY <1>1, <1>2 DEF Spenders, Spends, Effective

\* Only saveDevice gives a device a nonce.
LEMMA NoncesBefore ==
    ASSUME TypeInv, [Next]_vars, NEW d \in DeviceIds, NonceSet(d)',
           ~(Saves /\ Head(queue).job.deviceId = d)
    PROVE  NonceSet(d)
<1>1. CASE devices'[d] = devices[d]
  BY <1>1 DEF NonceSet
<1>2. CASE RegisterDevice
  <2>1. PICK x \in Registrations : S!RegisterDevice(x.deviceId, x.devEui)
    BY <1>2 DEF RegisterDevice
  <2>2. CASE x.deviceId = d
    <3>1. devices'[d].lastNonce = Null
      BY <2>1, <2>2 DEF S!RegisterDevice, S!NewDevice, TypeInv, TablesTyped
    <3> QED
      BY <3>1 DEF NonceSet
  <2>3. CASE x.deviceId # d
    BY <1>1, <2>1, <2>3 DEF S!RegisterDevice, TypeInv, TablesTyped
  <2> QED
    BY <2>2, <2>3
<1>3. CASE LinkLorawanDevEui
  <2> DEFINE job == Head(queue).job
             device == [devices[d] EXCEPT !.devEui = job.devEui]
  <2>1. devices'[d] = devices[d] \/ (devices[d] # Null /\ devices'[d] = device)
    BY <1>3 DEF LinkLorawanDevEui, TypeInv, TablesTyped
  <2>2. CASE devices[d] # Null /\ devices'[d] = device
    <3>1. devices[d] \in Device
      BY <2>2 DEF TypeInv, TablesTyped
    <3>2. device.lastNonce = devices[d].lastNonce
      BY <3>1 DEF Device
    <3> QED
      BY <2>2, <3>2 DEF NonceSet
  <2> QED
    BY <1>1, <2>1, <2>2
<1>4. CASE Saves
  BY <1>1, <1>4, NoncesSaved
<1> QED
  BY <1>1, <1>2, <1>3, <1>4, Steps DEF vars, Arrive, AppendAccepted, AppendRejected, Walks

LEMMA UnspentKept ==
    ASSUME TypeInv, SizeInv, [Next]_vars, NEW d \in DeviceIds,
           Cardinality(events') = recorded',
           ~(Saves /\ Head(queue).job.deviceId = d),
           ~(AppendAccepted /\ Head(queue).job.deviceId = d)
    PROVE  \E k \in {0, 1} : Unspent(k, d)
<1>1. /\ DOMAIN queue = 1..Len(queue) /\ Len(queue) \in Nat
  BY LenProperties DEF TypeInv, QueueTyped
<1>2. CASE queue' = queue
  <2>1. \A j \in DOMAIN queue : j - 0 = j /\ j + 0 = j /\ ~(j <= 0)
    BY <1>1
  <2> QED
    BY <1>2, <2>1 DEF Unspent
<1>3. CASE Arrive
  <2>1. PICK job \in Calls :
          /\ DOMAIN queue' = 1..(Len(queue) + 1)
          /\ queue'[Len(queue) + 1] = Called(job)
          /\ \A i \in DOMAIN queue : queue'[i] = queue[i]
    BY <1>3, ArrivesLast
  <2>2. \A i \in DOMAIN queue' : i \in DOMAIN queue \/ queue'[i].at = "start"
    BY <1>1, <2>1 DEF Called
  <2>3. \A j \in DOMAIN queue : j - 0 = j /\ j + 0 = j /\ j \in DOMAIN queue' /\ ~(j <= 0)
    BY <1>1, <2>1
  <2> QED
    BY <2>1, <2>2, <2>3 DEF Unspent, AppendOf
<1>4. ASSUME NEW j \in DOMAIN queue, j <= 1 PROVE j = 1 /\ queue[j] = Head(queue) /\ queue # <<>>
  BY <1>1, <1>4, HeadFits, EmptySeq
<1>5. CASE AppendRejected
  <2>1. PICK row \in events' :
          /\ row.deviceId = Head(queue).job.deviceId /\ row.msg = Head(queue).job.msg
          /\ row.status = "rejected" /\ row.reason = Head(queue).reason
    <3>1. Head(queue).at = "reject"
      BY <1>5 DEF AppendRejected, Running
    <3>2. PICK row :
            /\ row.deviceId = Head(queue).job.deviceId /\ row.msg = Head(queue).job.msg
            /\ \/ Head(queue).at = "append"
               \/ row.status = "rejected" /\ row.reason = Head(queue).reason
            /\ events' = events \cup {row}
      BY <1>5, RowLeft
    <3> QED
      BY <3>1, <3>2
  <2>2. Head(queue).at = "reject" /\ queue # <<>> /\ Return
    BY <1>5 DEF AppendRejected, Running
  <2>3. Spends(Head(queue)) => Effective(row)
    BY <2>1, <2>2 DEF Spends, Effective, DevEuiTaken
  <2> QED
    BY <1>4, <2>1, <2>2, <2>3, LeavePlaces DEF Unspent
<1>6. CASE LinkLorawanDevEui
  <2>1. Head(queue).at = "start" /\ queue # <<>> /\ Return
    BY <1>6 DEF LinkLorawanDevEui, Running
  <2> QED
    BY <1>4, <2>1, LeavePlaces DEF Unspent, Spends
<1>7. CASE AppendAccepted
  <2>1. Head(queue).job.deviceId # d /\ queue # <<>> /\ Return
    BY <1>7 DEF AppendAccepted, Running
  <2> QED
    BY <1>4, <2>1, LeavePlaces DEF Unspent
<1>8. CASE Walks
  <2>1. PICK c : /\ queue # <<>> /\ AwaitAs(c) /\ Head(queue).at # "append"
                 /\ c = Head(queue) \/ (~Spends(c) /\ ~Spends(Head(queue)))
    BY <1>8 DEF Walks
  <2>2. ~AppendOf(c, d)
    BY <2>1 DEF AppendOf, Spends
  <2> QED
    BY <1>4, <2>1, <2>2, HeadPlaces DEF Unspent
<1>9. CASE Saves
  <2>1. PICK c : /\ queue # <<>> /\ AwaitAs(c) /\ c.job = Head(queue).job
    BY <1>9 DEF Saves
  <2>2. Head(queue).job.deviceId # d /\ ~AppendOf(c, d)
    BY <1>9, <2>1 DEF AppendOf
  <2> QED
    BY <1>4, <2>1, <2>2, HeadPlaces DEF Unspent
<1> QED
  BY <1>2, <1>3, <1>5, <1>6, <1>7, <1>8, <1>9, Steps DEF vars, RegisterDevice

LEMMA NonceInvStep ==
    ASSUME TypeInv, SizeInv, Spenders, NonceInv, [Next]_vars, NEW d \in DeviceIds,
           Cardinality(events') = recorded', NonceSet(d)'
    PROVE  Traced(d)'
<1>1. events \subseteq events' /\ Cardinality(events) = recorded
  <2>1. CASE AppendAccepted \/ AppendRejected
    BY <2>1, RowLeft
  <2> QED
    BY <2>1, Steps
    DEF vars, RegisterDevice, S!RegisterDevice, Arrive, LinkLorawanDevEui, Walks, Saves
<1>2. CASE Saves /\ Head(queue).job.deviceId = d
  <2>1. PICK c : AwaitAs(c) /\ queue # <<>> /\ c.job = Head(queue).job /\ Spends(c)
    BY <1>2 DEF Saves
  <2>2. /\ Len(queue) \in Nat /\ DOMAIN queue' = 1..Len(queue)
        /\ Len(queue) \in DOMAIN queue' /\ queue'[Len(queue)] = c
    BY <2>1, HeadPlaces
  <2>3. devices'[d].lastNonce = c.job.msg.nonce /\ c.job.deviceId = d
    BY <1>2, <2>1, NoncesSaved
  <2>4. CASE c.at = "append"
    <3>1. LastAppend(Len(queue), d)'
      <4>1. AppendOf(c, d)
        BY <2>3, <2>4 DEF AppendOf
      <4>2. \A n \in Nat : n = Len(queue) => LastAppend(n, d)'
        BY <2>2, <4>1 DEF LastAppend
      <4> QED
        BY <2>2, <4>2
    <3> QED
      BY <2>2, <2>3, <3>1 DEF Traced
  <2>5. CASE c.at # "append"
    <3>1. RefusalOf(c, d)
      BY <2>1, <2>3, <2>5 DEF Spends, RefusalOf
    <3> QED
      BY <2>2, <2>3, <3>1 DEF Traced
  <2> QED
    BY <2>4, <2>5
<1>3. CASE AppendAccepted /\ Head(queue).job.deviceId = d
  <2>1. /\ queue # <<>> /\ Return /\ Head(queue) = queue[1] /\ 1 \in DOMAIN queue
        /\ Head(queue).at = "append" /\ AppendOf(queue[1], d)
    BY <1>3, RowLeft DEF AppendAccepted, Running, AppendOf
  <2>2. PICK row : /\ row.at = recorded + 1 /\ row.deviceId = d
                   /\ row.msg = queue[1].job.msg /\ row.status = "accepted"
                   /\ events' = events \cup {row}
    BY <1>3, <2>1, RowLeft
  <2>3. NonceSet(d) /\ Traced(d) /\ devices'[d].lastNonce = devices[d].lastNonce
    BY <1>1, <1>3, <2>1, NoncesStay DEF NonceInv, Spenders, Spends, Saves
  <2>4. /\ DOMAIN queue = 1..Len(queue) /\ DOMAIN queue' = 1..(Len(queue) - 1)
        /\ Len(queue) \in Nat
        /\ \A j \in DOMAIN queue' : j + 1 \in DOMAIN queue /\ queue'[j] = queue[j + 1]
        /\ \A j \in DOMAIN queue : j > 1 => j - 1 \in DOMAIN queue' /\ queue'[j - 1] = queue[j]
    BY <2>1, LeavePlaces
  <2> DEFINE n == devices[d].lastNonce
  <2>5. ASSUME LastAppend(1, d), queue[1].job.msg.nonce = n PROVE Traced(d)'
    <3>1. \A j \in DOMAIN queue' : ~AppendOf(queue'[j], d)
      BY <2>4, <2>5 DEF LastAppend
    <3>2. row \in S!Accepted(d)' /\ \A f \in S!Accepted(d)' : f.at <= row.at
      BY <2>2 DEF S!Accepted, TypeInv, TablesTyped, SP!LogTyped, SP!EventRow
    <3>3. LastAccepted(row, d)'
      BY <3>1, <3>2 DEF LastAccepted, AppendOf
    <3> QED
      BY <2>2, <2>3, <2>5, <3>3 DEF Traced
  <2>6. ASSUME NEW i \in DOMAIN queue, i > 1, LastAppend(i, d), queue[i].job.msg.nonce = n
        PROVE  Traced(d)'
    <3>1. LastAppend(i - 1, d)'
      BY <2>4, <2>6 DEF LastAppend, AppendOf
    <3> QED
      BY <2>3, <2>4, <2>6, <3>1 DEF Traced
  <2>7. ASSUME NEW i \in DOMAIN queue, RefusalOf(queue[i], d), queue[i].job.msg.nonce = n
        PROVE  Traced(d)'
    <3>1. i > 1
      BY <2>1, <2>4, <2>7 DEF RefusalOf, AppendOf
    <3>2. i - 1 \in DOMAIN queue' /\ RefusalOf(queue'[i - 1], d) /\ queue'[i - 1] = queue[i]
      BY <2>4, <2>7, <3>1
    <3> QED
      BY <2>3, <2>7, <3>2 DEF Traced, RefusalOf
  <2>8. ASSUME NEW e \in events, e.deviceId = d, e.status = "rejected", Effective(e),
               e.msg.nonce = n
        PROVE  Traced(d)'
    BY <1>1, <2>3, <2>8 DEF Traced, Effective
  <2>9. ASSUME NEW e \in events, LastAccepted(e, d) PROVE FALSE
    BY <2>1, <2>9 DEF LastAccepted
  <2>10. \A i \in DOMAIN queue : i = 1 \/ i > 1
    BY <2>4
  <2> QED
    BY <2>3, <2>5, <2>6, <2>7, <2>8, <2>9, <2>10 DEF Traced
<1>4. CASE ~(Saves /\ Head(queue).job.deviceId = d) /\ ~(AppendAccepted /\ Head(queue).job.deviceId = d)
  <2>1. NonceSet(d) /\ Traced(d) /\ devices'[d].lastNonce = devices[d].lastNonce
    BY <1>1, <1>4, NoncesBefore, NoncesStay DEF NonceInv
  <2>2. S!Accepted(d)' = S!Accepted(d)
    <3>1. CASE AppendAccepted \/ AppendRejected
      BY <1>4, <3>1, RowLeft DEF S!Accepted
    <3>2. CASE events' = events
      BY <3>2 DEF S!Accepted
    <3> QED
      BY <3>1, <3>2, Steps
      DEF vars, RegisterDevice, S!RegisterDevice, Arrive, LinkLorawanDevEui, Walks, Saves
  <2>3. PICK k \in {0, 1} : Unspent(k, d)
    BY <1>4, UnspentKept
  <2> QED
    BY <1>1, <2>1, <2>2, <2>3, TracedStays
<1> QED
  BY <1>2, <1>3, <1>4

\* Whatever turns the requests of a macrotask take, two of one device, links and
\* refusals of saveDevice among them, a device's nonce is one that the log shows:
\* the last accepted uplink's or that of an uplink that saveDevice refused.
THEOREM MemoryNonceSpentOnRecord == Spec => []NonceSpentOnRecord
<1>1. Init => Spenders /\ NonceInv
  BY EmptySeq DEF Init, S!StoreInit, S!TableInit, Spenders, NonceInv, NonceSet
<1>2. TypeInv /\ SizeInv /\ Spenders /\ NonceInv /\ [Next]_vars => Spenders' /\ NonceInv'
  <2> SUFFICES ASSUME TypeInv, SizeInv, Spenders, NonceInv, [Next]_vars
               PROVE  Spenders' /\ NonceInv'
    OBVIOUS
  <2>1. NonceInv'
    BY NonceInvStep DEF NonceInv, NonceSet, Traced
  <2> QED
    BY <2>1, SpendersStep
<1>3. TypeInv /\ Spenders /\ NonceInv => NonceSpentOnRecord
  <2> SUFFICES ASSUME TypeInv, Spenders, NonceInv, AtRest, Cardinality(events) = recorded,
                      NEW d \in DeviceIds, devices[d] # Null,
                      NEW spent, spent = {e \in events : Effective(e) /\ e.deviceId = d}
               PROVE  IF spent = {} THEN devices[d].lastNonce = Null
                      ELSE \E e \in spent :
                             /\ e.msg.nonce = devices[d].lastNonce
                             /\ e.status = "accepted" => \A f \in S!Accepted(d) : f.at <= e.at
    BY DEF NonceSpentOnRecord
  <2>1. DOMAIN queue = {}
    BY EmptySeq DEF AtRest
  <2>2. ASSUME NonceSet(d)
        PROVE  \E e \in spent :
                 /\ e.msg.nonce = devices[d].lastNonce
                 /\ e.status = "accepted" => \A f \in S!Accepted(d) : f.at <= e.at
    <3>1. Traced(d)
      BY <2>2 DEF NonceInv
    <3> QED
      BY <2>1, <3>1 DEF Traced, LastAccepted, S!Accepted, Effective
  <2>3. spent # {} => NonceSet(d)
    BY DEF Spenders
  <2> QED
    BY <2>2, <2>3 DEF NonceSet
<1> QED
  BY <1>1, <1>2, <1>3, TypeInvAlways, SizeInvAlways, PTL DEF Spec

-----------------------------------------------------------------------------
\* The ledger and the effective rows.

\* A request whose nonce is saved adds its row next, refused or not.
Stage(c) == IF c.at = "reject" /\ c.reason = DevEuiTaken THEN "append" ELSE c.at

\* From where on a request has written the supply or the sender's balance, and
\* from where on the owner's too.
Issued  == {"credit", "save", "append"}
Settled == {"save", "append"}
Stages  == {Issued, Settled}
LoggedOps == {"DEPLOY", "MINT", "TRANSFER"}

\* What an uplink is to d: his own, one that pays him, or any.
Roles == {"any", "by", "to"}
Plays(x, role, d) ==
    CASE role = "any" -> TRUE
      [] role = "by" -> x.deviceId = d
      [] role = "to" -> x.msg.recipient = d

Counts(c, stages, op, t, role, d) ==
    /\ Stage(c) \in stages /\ c.job.kind = "ingest"
    /\ c.job.msg.op = op /\ c.job.msg.tick = t /\ Plays(c.job, role, d)

\* A request under its place in the line of all that ever waited: k have been
\* before the head.
Item(k, i, job) == [turn |-> k + i, deviceId |-> job.deviceId, msg |-> job.msg]

Items(k, q, stages, op, t, role, d) ==
    {Item(k, i, q[i].job) : i \in {j \in DOMAIN q : Counts(q[j], stages, op, t, role, d)}}

Rows(op, t, role, d) == {e \in EffectiveOp(op, t) : Plays(e, role, d)}

LEMMA ItemsTyped ==
    ASSUME TypeInv, NEW k \in Nat, NEW stages, NEW op, NEW t, NEW role, NEW d
    PROVE  /\ IsFiniteSet(Items(k, queue, stages, op, t, role, d))
           /\ \A x \in Items(k, queue, stages, op, t, role, d) :
                 /\ x.turn \in (k + 1)..(k + Len(queue)) /\ x.deviceId \in DeviceIds
                 /\ x.msg \in Payloads /\ x.msg.op = op /\ x.msg.tick = t
<1> DEFINE I == {j \in DOMAIN queue : Counts(queue[j], stages, op, t, role, d)}
           T == {Item(k, i, queue[i].job) : i \in I}
           f == [i \in I |-> Item(k, i, queue[i].job)]
<1>1. DOMAIN queue = 1..Len(queue) /\ Len(queue) \in Nat
  BY LenProperties DEF TypeInv, QueueTyped
<1>2. IsFiniteSet(I)
  <2>1. IsFiniteSet(1..Len(queue)) /\ I \subseteq 1..Len(queue)
    BY <1>1, FS_Interval
  <2> QED
    BY <2>1, FS_Subset
<1>3. IsFiniteSet(T)
  <2> HIDE DEF I
  <2>1. f \in Surjection(I, T)
    BY DEF Surjection
  <2> HIDE DEF T, f
  <2> QED
    BY <1>2, <2>1, FS_Surjection
<1>4. ASSUME NEW i \in I
      PROVE  LET x == Item(k, i, queue[i].job)
             IN /\ x.turn \in (k + 1)..(k + Len(queue)) /\ x.deviceId \in DeviceIds
                /\ x.msg \in Payloads /\ x.msg.op = op /\ x.msg.tick = t
  <2>1. queue[i].job \in Jobs
    BY DEF TypeInv, QueueTyped, Fits, Continuation
  <2>2. queue[i].job.msg \in Payloads /\ queue[i].job.deviceId \in DeviceIds
    BY <2>1, JobFields DEF Counts
  <2>3. i \in 1..Len(queue) /\ k + i \in (k + 1)..(k + Len(queue))
    BY <1>1
  <2> QED
    BY <2>2, <2>3 DEF Item, Counts
<1> QED
  BY <1>3, <1>4 DEF Items

\* Those behind the head.
Rest(k, stages, op, t, role, d) ==
    {Item(k, i, queue[i].job) :
        i \in {j \in DOMAIN queue : j > 1 /\ Counts(queue[j], stages, op, t, role, d)}}

One(k, i, c, stages, op, t, role, d) ==
    IF Counts(c, stages, op, t, role, d) THEN {Item(k, i, c.job)} ELSE {}

LEMMA ItemsNow ==
    ASSUME TypeInv, queue # <<>>, NEW k \in Nat, NEW stages, NEW op, NEW t, NEW role, NEW d
    PROVE  /\ Items(k, queue, stages, op, t, role, d) =
                 Rest(k, stages, op, t, role, d) \cup One(k, 1, Head(queue), stages, op, t, role, d)
           /\ \A x \in Rest(k, stages, op, t, role, d) : x.turn \in (k + 2)..(k + Len(queue))
           /\ IsFiniteSet(Rest(k, stages, op, t, role, d))
<1> DEFINE R == Rest(k, stages, op, t, role, d)
           H == One(k, 1, Head(queue), stages, op, t, role, d)
           A == Items(k, queue, stages, op, t, role, d)
<1>1. 1 \in DOMAIN queue /\ Head(queue) = queue[1] /\ DOMAIN queue = 1..Len(queue) /\ Len(queue) \in Nat
  BY HeadFits, LenProperties DEF TypeInv, QueueTyped
<1>2. A \subseteq R \cup H
  <2> SUFFICES ASSUME NEW i \in DOMAIN queue, Counts(queue[i], stages, op, t, role, d)
               PROVE  Item(k, i, queue[i].job) \in R \cup H
    BY DEF Items
  <2>1. i = 1 \/ i > 1
    BY <1>1
  <2> QED
    BY <1>1, <2>1 DEF Rest, One
<1>3. R \subseteq A
  BY DEF Rest, Items
<1>4. H \subseteq A
  BY <1>1 DEF One, Items
<1>5. ASSUME NEW x \in R PROVE x.turn \in (k + 2)..(k + Len(queue))
  <2>1. PICK i \in DOMAIN queue : i > 1 /\ x = Item(k, i, queue[i].job)
    BY DEF Rest
  <2>2. x.turn = k + i
    BY <2>1 DEF Item
  <2> QED
    BY <1>1, <2>1, <2>2
<1>6. IsFiniteSet(R)
  BY <1>3, ItemsTyped, FS_Subset
<1> QED
  BY <1>2, <1>3, <1>4, <1>5, <1>6

LEMMA ItemsTurned ==
    ASSUME TypeInv, queue # <<>>, NEW c, AwaitAs(c), NEW k \in Nat,
           NEW stages, NEW op, NEW t, NEW role, NEW d
    PROVE  Items(k + 1, queue', stages, op, t, role, d) =
              Rest(k, stages, op, t, role, d)
              \cup One(k + 1, Len(queue), c, stages, op, t, role, d)
<1> DEFINE R == Rest(k, stages, op, t, role, d)
           C == One(k + 1, Len(queue), c, stages, op, t, role, d)
           A == Items(k + 1, queue', stages, op, t, role, d)
<1>1. /\ Len(queue) \in Nat /\ DOMAIN queue = 1..Len(queue) /\ DOMAIN queue' = 1..Len(queue)
      /\ Len(queue) \in DOMAIN queue' /\ queue'[Len(queue)] = c
      /\ \A i \in DOMAIN queue' : i # Len(queue) =>
            i + 1 \in DOMAIN queue /\ queue'[i] = queue[i + 1]
      /\ \A j \in DOMAIN queue : j > 1 => j - 1 \in DOMAIN queue' /\ queue'[j - 1] = queue[j]
  BY HeadPlaces
<1>2. ASSUME NEW i \in DOMAIN queue', Counts(queue'[i], stages, op, t, role, d)
      PROVE  Item(k + 1, i, queue'[i].job) \in R \cup C
  <2>1. CASE i = Len(queue)
    BY <1>1, <1>2, <2>1 DEF One
  <2>2. CASE i # Len(queue)
    <3>1. i + 1 \in DOMAIN queue /\ i + 1 > 1 /\ queue'[i] = queue[i + 1] /\ (k + 1) + i = k + (i + 1)
      BY <1>1, <2>2
    <3>2. Item(k + 1, i, queue'[i].job) = Item(k, i + 1, queue[i + 1].job)
      BY <3>1 DEF Item
    <3> QED
      BY <1>2, <3>1, <3>2 DEF Rest
  <2> QED
    BY <2>1, <2>2
<1>3. ASSUME NEW j \in DOMAIN queue, j > 1, Counts(queue[j], stages, op, t, role, d)
      PROVE  Item(k, j, queue[j].job) \in A
  <2>1. j - 1 \in DOMAIN queue' /\ queue'[j - 1] = queue[j] /\ (k + 1) + (j - 1) = k + j
    BY <1>1, <1>3
  <2>2. Item(k + 1, j - 1, queue'[j - 1].job) = Item(k, j, queue[j].job)
    BY <2>1 DEF Item
  <2> QED
    BY <1>3, <2>1, <2>2 DEF Items
<1>4. C \subseteq A
  BY <1>1 DEF One, Items
<1>5. A \subseteq R \cup C
  BY <1>2 DEF Items
<1>6. R \subseteq A
  BY <1>3 DEF Rest
<1> QED
  BY <1>4, <1>5, <1>6

LEMMA ItemsLeft ==
    ASSUME TypeInv, queue # <<>>, Return, NEW k \in Nat,
           NEW stages, NEW op, NEW t, NEW role, NEW d
    PROVE  Items(k + 1, queue', stages, op, t, role, d) = Rest(k, stages, op, t, role, d)
<1> DEFINE R == Rest(k, stages, op, t, role, d)
           A == Items(k + 1, queue', stages, op, t, role, d)
<1>1. /\ Len(queue) \in Nat /\ DOMAIN queue = 1..Len(queue) /\ DOMAIN queue' = 1..(Len(queue) - 1)
      /\ \A i \in DOMAIN queue' : i + 1 \in DOMAIN queue /\ queue'[i] = queue[i + 1]
      /\ \A j \in DOMAIN queue : j > 1 => j - 1 \in DOMAIN queue' /\ queue'[j - 1] = queue[j]
  BY LeavePlaces
<1>2. ASSUME NEW i \in DOMAIN queue', Counts(queue'[i], stages, op, t, role, d)
      PROVE  Item(k + 1, i, queue'[i].job) \in R
  <2>1. i \in Nat /\ i + 1 > 1 /\ (k + 1) + i = k + (i + 1)
    <3>1. i \in 1..(Len(queue) - 1)
      BY <1>1
    <3>2. i \in Nat
      BY <3>1
    <3>3. i >= 1
      BY <3>1
    <3>4. (k + 1) + i = k + (i + 1) /\ i + 1 > 1
      BY <3>2, <3>3
    <3> QED
      BY <3>2, <3>4
  <2>2. i + 1 \in DOMAIN queue /\ queue'[i] = queue[i + 1]
    BY <1>1
  <2>3. Item(k + 1, i, queue'[i].job) = Item(k, i + 1, queue[i + 1].job)
    BY <2>1, <2>2 DEF Item
  <2> QED
    BY <1>2, <2>1, <2>2, <2>3 DEF Rest
<1>3. ASSUME NEW j \in DOMAIN queue, j > 1, Counts(queue[j], stages, op, t, role, d)
      PROVE  Item(k, j, queue[j].job) \in A
  <2>1. j - 1 \in DOMAIN queue' /\ queue'[j - 1] = queue[j] /\ (k + 1) + (j - 1) = k + j
    BY <1>1, <1>3
  <2>2. Item(k + 1, j - 1, queue'[j - 1].job) = Item(k, j, queue[j].job)
    BY <2>1 DEF Item
  <2> QED
    BY <1>3, <2>1, <2>2 DEF Items
<1> QED
  BY <1>2, <1>3 DEF Rest, Items

LEMMA ItemsArrive ==
    ASSUME TypeInv, Arrive, NEW k \in Nat, NEW stages \in Stages, NEW op, NEW t, NEW role, NEW d
    PROVE  Items(k, queue', stages, op, t, role, d) = Items(k, queue, stages, op, t, role, d)
<1>1. PICK job \in Calls :
        /\ DOMAIN queue' = 1..(Len(queue) + 1) /\ DOMAIN queue = 1..Len(queue)
        /\ Len(queue) \in Nat /\ queue'[Len(queue) + 1] = Called(job)
        /\ \A i \in DOMAIN queue : queue'[i] = queue[i]
  BY ArrivesLast
<1>2. ~Counts(Called(job), stages, op, t, role, d)
  BY DEF Called, Counts, Stage, Stages, Issued, Settled
<1>3. \A i \in DOMAIN queue' : Counts(queue'[i], stages, op, t, role, d) => i \in DOMAIN queue
  BY <1>1, <1>2
<1>4. \A i \in DOMAIN queue : i \in DOMAIN queue'
  BY <1>1
<1> QED
  BY <1>1, <1>3, <1>4 DEF Items

-----------------------------------------------------------------------------
\* Sums.

Sum(k, stages, op, t, role, d) ==
    SP!Moved(Rows(op, t, role, d)) + SP!Moved(Items(k, queue, stages, op, t, role, d))

Share(c, stages, op, t, role, d) ==
    IF Counts(c, stages, op, t, role, d) THEN c.job.msg.amount ELSE 0

\* The operations that move an amount.
SumOps == {"MINT", "TRANSFER"}

LEMMA MovedIsNat ==
    ASSUME NEW R, IsFiniteSet(R)
    PROVE  SP!Moved(R) \in Nat /\ SP!Moved(R) = S!Moved(R)
<1>1. SP!IsFiniteSet(R)
  BY SameSizes
<1>2. SP!Moved(R) \in Nat
  BY <1>1, StoreConstants, SP!MovedIsNat DEF SP!Moved
<1>3. SP!Moved(R) = S!Moved(R)
  BY SameSizes DEF SP!Moved, S!Moved
<1> QED
  BY <1>2, <1>3

LEMMA MovedWith ==
    ASSUME NEW R, IsFiniteSet(R), NEW x, x \notin R, x.msg.amount \in Amounts
    PROVE  SP!Moved(R \cup {x}) = SP!Moved(R) + x.msg.amount
<1>1. SP!IsFiniteSet(R) /\ x.msg.amount \in SP!Amounts
  BY SameSizes DEF Amounts, SP!Amounts
<1> QED
  BY <1>1, StoreConstants, SP!MovedOfNew DEF SP!Moved

LEMMA OneMoved ==
    ASSUME NEW R, IsFiniteSet(R), NEW c \in Continuation, NEW k \in Nat, NEW i \in Nat,
           \A x \in R : x.turn # k + i,
           NEW stages, NEW op \in SumOps, NEW t, NEW role, NEW d
    PROVE  /\ Share(c, stages, op, t, role, d) \in Nat
           /\ SP!Moved(R \cup One(k, i, c, stages, op, t, role, d)) =
                 SP!Moved(R) + Share(c, stages, op, t, role, d)
<1>1. CASE Counts(c, stages, op, t, role, d)
  <2> DEFINE x == Item(k, i, c.job)
  <2>1. c.job \in Jobs
    BY DEF Continuation
  <2>2. c.job.msg.amount \in Amounts /\ c.job.msg.amount \in Nat
    BY <1>1, <2>1, JobFields, PayloadFields DEF Counts, SumOps
  <2>3. x.turn = k + i /\ x.msg.amount = c.job.msg.amount
    BY DEF Item
  <2> HIDE DEF x
  <2>4. x \notin R
    BY <2>3
  <2>5. SP!Moved(R \cup {x}) = SP!Moved(R) + x.msg.amount
    BY <2>2, <2>3, <2>4, MovedWith
  <2>6. /\ One(k, i, c, stages, op, t, role, d) = {x}
        /\ Share(c, stages, op, t, role, d) = c.job.msg.amount
    BY <1>1 DEF Share, One, x
  <2> QED
    BY <2>2, <2>3, <2>5, <2>6
<1>2. CASE ~Counts(c, stages, op, t, role, d)
  <2>1. R \cup One(k, i, c, stages, op, t, role, d) = R
    BY <1>2 DEF One
  <2>2. Share(c, stages, op, t, role, d) = 0
    BY <1>2 DEF Share
  <2>3. SP!Moved(R) \in Nat
    BY MovedIsNat
  <2> QED
    BY <2>1, <2>2, <2>3
<1> QED
  BY <1>1, <1>2

\* The sum now: the rows, those behind the head, and the head.
LEMMA SumNow ==
    ASSUME TypeInv, SizeInv, queue # <<>>, NEW k \in Nat,
           NEW stages, NEW op \in SumOps, NEW t, NEW role, NEW d
    PROVE  /\ SP!Moved(Rows(op, t, role, d)) \in Nat
           /\ SP!Moved(Rest(k, stages, op, t, role, d)) \in Nat
           /\ Share(Head(queue), stages, op, t, role, d) \in Nat
           /\ Sum(k, stages, op, t, role, d) =
                 SP!Moved(Rows(op, t, role, d)) + SP!Moved(Rest(k, stages, op, t, role, d))
                 + Share(Head(queue), stages, op, t, role, d)
<1> DEFINE R == Rest(k, stages, op, t, role, d)
<1>1. Rows(op, t, role, d) \subseteq events
  BY DEF Rows, EffectiveOp
<1>2. SP!Moved(Rows(op, t, role, d)) \in Nat
  BY <1>1, FS_Subset, MovedIsNat DEF SizeInv
<1>3. /\ IsFiniteSet(R) /\ \A x \in R : x.turn \in (k + 2)..(k + Len(queue))
      /\ Items(k, queue, stages, op, t, role, d) =
            R \cup One(k, 1, Head(queue), stages, op, t, role, d)
  BY ItemsNow
<1> HIDE DEF R
<1>4. \A x \in R : x.turn # k + 1
  BY <1>3
<1>5. /\ SP!Moved(R) \in Nat /\ Share(Head(queue), stages, op, t, role, d) \in Nat
      /\ SP!Moved(R \cup One(k, 1, Head(queue), stages, op, t, role, d)) =
            SP!Moved(R) + Share(Head(queue), stages, op, t, role, d)
  <2>1. Head(queue) \in Continuation
    BY HeadFits
  <2> QED
    BY <1>3, <1>4, <2>1, OneMoved, MovedIsNat
<1> QED
  BY <1>2, <1>3, <1>5 DEF Sum, R

LEMMA SumTyped ==
    ASSUME TypeInv, SizeInv, NEW k \in Nat, NEW stages, NEW op, NEW t, NEW role, NEW d
    PROVE  Sum(k, stages, op, t, role, d) \in Nat
<1>1. Rows(op, t, role, d) \subseteq events
  BY DEF Rows, EffectiveOp
<1>2. SP!Moved(Rows(op, t, role, d)) \in Nat
  BY <1>1, FS_Subset, MovedIsNat DEF SizeInv
<1>3. SP!Moved(Items(k, queue, stages, op, t, role, d)) \in Nat
  BY ItemsTyped, MovedIsNat
<1> QED
  BY <1>2, <1>3 DEF Sum

LEMMA SumTurns ==
    ASSUME TypeInv, SizeInv, [Next]_vars, queue # <<>>, NEW c, AwaitAs(c), events' = events,
           NEW k \in Nat, NEW stages, NEW op \in SumOps, NEW t, NEW role, NEW d
    PROVE  /\ Share(c, stages, op, t, role, d) \in Nat
           /\ Sum(k + 1, stages, op, t, role, d)' =
                 Sum(k, stages, op, t, role, d) - Share(Head(queue), stages, op, t, role, d)
                 + Share(c, stages, op, t, role, d)
<1> DEFINE R == Rest(k, stages, op, t, role, d)
           C == One(k + 1, Len(queue), c, stages, op, t, role, d)
           n == Len(queue)
<1>1. n \in Nat /\ n # 0 /\ c \in Continuation
  <2>1. Len(queue) \in DOMAIN queue' /\ queue'[Len(queue)] = c /\ DOMAIN queue' = 1..Len(queue)
        /\ Len(queue) \in Nat
    BY HeadPlaces
  <2>2. queue'[Len(queue)] \in Continuation
    BY <2>1, TypeInvStep DEF TypeInv, QueueTyped, Fits
  <2> QED
    BY <2>1, <2>2
<1>2. IsFiniteSet(R) /\ \A x \in R : x.turn \in (k + 2)..(k + n)
  BY ItemsNow
<1>3. Items(k + 1, queue', stages, op, t, role, d) = R \cup C
  BY ItemsTurned
<1> HIDE DEF R, n
<1>4. \A x \in R : x.turn # (k + 1) + n
  BY <1>1, <1>2
<1>5. /\ Share(c, stages, op, t, role, d) \in Nat
      /\ SP!Moved(R \cup C) = SP!Moved(R) + Share(c, stages, op, t, role, d)
  BY <1>1, <1>2, <1>4, OneMoved DEF n
<1>6. /\ SP!Moved(Rows(op, t, role, d)) \in Nat /\ SP!Moved(R) \in Nat
      /\ Share(Head(queue), stages, op, t, role, d) \in Nat
      /\ Sum(k, stages, op, t, role, d) =
            SP!Moved(Rows(op, t, role, d)) + SP!Moved(R)
            + Share(Head(queue), stages, op, t, role, d)
  BY SumNow DEF R
<1>7. Rows(op, t, role, d)' = Rows(op, t, role, d)
  BY DEF Rows, EffectiveOp
<1>8. Sum(k + 1, stages, op, t, role, d)' =
         SP!Moved(Rows(op, t, role, d)) + SP!Moved(R) + Share(c, stages, op, t, role, d)
  <2>1. Sum(k + 1, stages, op, t, role, d)' =
           SP!Moved(Rows(op, t, role, d)) + SP!Moved(R \cup C)
    BY <1>3, <1>7 DEF Sum, SP!Moved
  <2> QED
    BY <1>5, <1>6, <2>1
<1> QED
  BY <1>5, <1>8, <1>6

LEMMA SumArrives ==
    ASSUME TypeInv, Arrive, NEW k \in Nat, NEW stages \in Stages, NEW op, NEW t, NEW role, NEW d
    PROVE  Sum(k, stages, op, t, role, d)' = Sum(k, stages, op, t, role, d)
<1>1. Rows(op, t, role, d)' = Rows(op, t, role, d)
  BY DEF Rows, EffectiveOp, Arrive
<1>2. Items(k, queue', stages, op, t, role, d) = Items(k, queue, stages, op, t, role, d)
  BY ItemsArrive
<1> QED
  BY <1>1, <1>2 DEF Sum, SP!Moved

LEMMA SumLeaves ==
    ASSUME TypeInv, SizeInv, LinkLorawanDevEui, NEW k \in Nat,
           NEW stages, NEW op \in SumOps, NEW t, NEW role, NEW d
    PROVE  Sum(k + 1, stages, op, t, role, d)' = Sum(k, stages, op, t, role, d)
<1>1. queue # <<>> /\ Return /\ Head(queue).job.kind = "link" /\ events' = events
  BY DEF LinkLorawanDevEui, Running
<1>2. Rows(op, t, role, d)' = Rows(op, t, role, d)
  BY <1>1 DEF Rows, EffectiveOp
<1>3. Items(k + 1, queue', stages, op, t, role, d) = Rest(k, stages, op, t, role, d)
  BY <1>1, ItemsLeft
<1>4. Share(Head(queue), stages, op, t, role, d) = 0
  BY <1>1 DEF Share, Counts
<1>5. Sum(k + 1, stages, op, t, role, d)' =
         SP!Moved(Rows(op, t, role, d)) + SP!Moved(Rest(k, stages, op, t, role, d))
  BY <1>2, <1>3 DEF Sum, SP!Moved
<1>6. /\ SP!Moved(Rows(op, t, role, d)) \in Nat
      /\ SP!Moved(Rest(k, stages, op, t, role, d)) \in Nat
      /\ Sum(k, stages, op, t, role, d) =
            SP!Moved(Rows(op, t, role, d)) + SP!Moved(Rest(k, stages, op, t, role, d))
            + Share(Head(queue), stages, op, t, role, d)
  <2>1. queue # <<>>
    BY <1>1
  <2> QED
    BY <2>1, SumNow
<1> QED
  BY <1>4, <1>5, <1>6

\* The row of an uplink takes its item's place.
LEMMA RowsAppend ==
    ASSUME TypeInv, SizeInv, AppendAccepted \/ AppendRejected,
           NEW stages \in Stages, NEW op \in LoggedOps, NEW t, NEW role, NEW d
    PROVE  \E row : /\ row \notin events /\ row.deviceId = Head(queue).job.deviceId
                    /\ row.msg = Head(queue).job.msg
                    /\ Rows(op, t, role, d)' =
                          IF Counts(Head(queue), stages, op, t, role, d)
                          THEN Rows(op, t, role, d) \cup {row} ELSE Rows(op, t, role, d)
<1> DEFINE h == Head(queue)
<1>1. PICK row :
        /\ row.deviceId = h.job.deviceId /\ row.msg = h.job.msg /\ row \notin events
        /\ \/ AppendAccepted /\ h.at = "append" /\ row.status = "accepted"
           \/ AppendRejected /\ h.at = "reject" /\ row.status = "rejected"
              /\ row.reason = h.reason
        /\ events' \subseteq events \cup {row}
        /\ \A e \in events \cup {row} : e.msg.op # "MESSAGE" => e \in events'
  BY RowLeft
<1>2. h.job.kind = "ingest"
  BY RowLeft
<1>3. Effective(row) <=> Stage(h) = "append"
  BY <1>1 DEF Effective, Stage, DevEuiTaken
<1>4. Counts(h, stages, op, t, role, d) <=>
        Effective(row) /\ row.msg.op = op /\ row.msg.tick = t /\ Plays(row, role, d)
  <2>1. "append" \in stages /\ "reject" \notin stages
    BY DEF Stages, Issued, Settled
  <2>2. Stage(h) \in {"append", "reject"}
    BY <1>1 DEF Stage
  <2>3. Plays(row, role, d) <=> Plays(h.job, role, d)
    BY <1>1 DEF Plays
  <2> QED
    BY <1>1, <1>2, <1>3, <2>1, <2>2, <2>3 DEF Counts
<1>5. ASSUME NEW e
      PROVE  e \in Rows(op, t, role, d)' <=>
               e \in Rows(op, t, role, d) \/ (e = row /\ Counts(h, stages, op, t, role, d))
  <2>1. e \in Rows(op, t, role, d) <=>
          e \in events /\ Effective(e) /\ e.msg.op = op /\ e.msg.tick = t /\ Plays(e, role, d)
    BY DEF Rows, EffectiveOp
  <2>2. e \in Rows(op, t, role, d)' <=>
          e \in events' /\ Effective(e) /\ e.msg.op = op /\ e.msg.tick = t /\ Plays(e, role, d)
    BY DEF Rows, EffectiveOp, Effective, Plays
  <2>3. op # "MESSAGE"
    BY DEF LoggedOps
  <2> QED
    BY <1>1, <1>4, <2>1, <2>2, <2>3
<1>6. Rows(op, t, role, d)' = IF Counts(h, stages, op, t, role, d)
                              THEN Rows(op, t, role, d) \cup {row} ELSE Rows(op, t, role, d)
  BY <1>5
<1> QED
  BY <1>1, <1>6

LEMMA SumAppends ==
    ASSUME TypeInv, SizeInv, AppendAccepted \/ AppendRejected, NEW k \in Nat,
           NEW stages \in Stages, NEW op \in SumOps, NEW t, NEW role, NEW d
    PROVE  Sum(k + 1, stages, op, t, role, d)' = Sum(k, stages, op, t, role, d)
<1> DEFINE h == Head(queue)
           M == Rows(op, t, role, d)
<1>1. queue # <<>> /\ Return /\ h.job.msg \in Payloads
  BY RowLeft
<1>2. PICK row : /\ row \notin events /\ row.msg = h.job.msg
                 /\ M' = IF Counts(h, stages, op, t, role, d) THEN M \cup {row} ELSE M
  BY RowsAppend DEF LoggedOps, SumOps
<1>3. Items(k + 1, queue', stages, op, t, role, d) = Rest(k, stages, op, t, role, d)
  BY <1>1, ItemsLeft
<1>4. M \subseteq events /\ IsFiniteSet(M)
  <2>1. M \subseteq events
    BY DEF Rows, EffectiveOp
  <2> QED
    BY <2>1, FS_Subset DEF SizeInv
<1>5. SP!Moved(M') = SP!Moved(M) + Share(h, stages, op, t, role, d)
  <2>1. CASE Counts(h, stages, op, t, role, d)
    <3>1. row.msg.amount \in Amounts
      BY <1>1, <1>2, <2>1, PayloadFields DEF Counts, SumOps
    <3> HIDE DEF M
    <3> QED
      BY <1>2, <1>4, <2>1, <3>1, MovedWith DEF Share
  <2>2. CASE ~Counts(h, stages, op, t, role, d)
    BY <1>2, <1>4, <2>2, MovedIsNat DEF Share
  <2> QED
    BY <2>1, <2>2
<1>6. Sum(k + 1, stages, op, t, role, d)' =
         SP!Moved(M') + SP!Moved(Rest(k, stages, op, t, role, d))
  BY <1>3 DEF Sum, SP!Moved
<1>7. /\ SP!Moved(M) \in Nat /\ SP!Moved(Rest(k, stages, op, t, role, d)) \in Nat
      /\ Share(h, stages, op, t, role, d) \in Nat
      /\ Sum(k, stages, op, t, role, d) =
            SP!Moved(M) + SP!Moved(Rest(k, stages, op, t, role, d))
            + Share(h, stages, op, t, role, d)
  <2>1. queue # <<>>
    BY <1>1
  <2> QED
    BY <2>1, SumNow
<1> QED
  BY <1>5, <1>6, <1>7

-----------------------------------------------------------------------------
\* Which steps move anything.

\* The head goes on without coming to a stage that counts, or leaving one.
Idle(c) ==
    \/ c.job.msg.op \in {"MESSAGE", "CONFIG"}
    \/ \A stages \in Stages : Stage(c) \in stages <=> Stage(Head(queue)) \in stages

HeadIdles == \E c : AwaitAs(c) /\ GoesOn(Head(queue), c) /\ Idle(c)

Idles == queue # <<>> /\ UNCHANGED <<balances, events, recorded, tokenVars>> /\ HeadIdles

LEMMA ThrowIdles ==
    ASSUME TypeInv, queue # <<>>, Stage(Head(queue)) \notin Issued,
           NEW code \in Reasons, Throw(code)
    PROVE  HeadIdles
<1> DEFINE c == [Head(queue) EXCEPT !.at = "reject", !.reason = code]
<1>1. Head(queue) \in Continuation
  BY HeadFits
<1>2. c.job = Head(queue).job /\ c.at = "reject" /\ c.reason = code
  BY <1>1 DEF Continuation
<1>3. code # DevEuiTaken
  BY DEF Reasons, NoError, DevEuiTaken
<1>4. AwaitAs(c)
  BY DEF Throw
<1> HIDE DEF c
<1>5. Stage(c) = "reject"
  BY <1>2, <1>3 DEF Stage
<1>6. Idle(c)
  BY <1>5 DEF Idle, Stages, Issued, Settled
<1> QED
  BY <1>2, <1>4, <1>6 DEF HeadIdles, GoesOn

LEMMA AwaitIdles ==
    ASSUME TypeInv, queue # <<>>, Stage(Head(queue)) \notin Issued, Await("recipient")
    PROVE  HeadIdles
<1>1. PICK c : AwaitAs(c) /\ c.job = Head(queue).job /\ c.at = "recipient"
  BY AwaitGoes
<1>2. Idle(c)
  BY <1>1 DEF Idle, Stage, Stages, Issued, Settled
<1> QED
  BY <1>1, <1>2 DEF HeadIdles, GoesOn

LEMMA SaveIdles ==
    ASSUME TypeInv, queue # <<>>, NEW d, NEW device, SaveDevice(d, device),
           Head(queue).job.msg.op \in {"MESSAGE", "CONFIG"} \/ Head(queue).at = "save"
    PROVE  HeadIdles
<1>1. PICK c : AwaitAs(c) /\ c.job = Head(queue).job /\ Spends(c)
  BY SaveSpends
<1>2. Stage(c) = "append" /\ c.at \in {"append", "reject"}
  BY <1>1 DEF Spends, Stage
<1>3. Idle(c)
  BY <1>1, <1>2 DEF Idle, Stage, Stages, Issued, Settled
<1> QED
  BY <1>1, <1>2, <1>3 DEF HeadIdles, GoesOn

\* An uplink that writes the ledger: it comes from one await to the next.
Works(from, to) ==
    /\ queue # <<>> /\ Head(queue).at = from /\ UNCHANGED <<events, recorded>>
    /\ \E c : AwaitAs(c) /\ c.job = Head(queue).job /\ c.at = to

LEMMA EffectSteps ==
    ASSUME TypeInv, [Next]_vars
    PROVE  \/ UNCHANGED <<balances, events, recorded, tokenVars, queue>>
           \/ Arrive
           \/ LinkLorawanDevEui
           \/ AppendAccepted \/ AppendRejected
           \/ Idles
           \/ CreateToken /\ Works("token", "save")
           \/ SaveToken /\ Works("token", "credit")
           \/ DebitSender /\ Works("debit", "credit")
           \/ CreditOwner
<1> DEFINE h == Head(queue)
           d == h.job.deviceId
           p == h.job.msg
<1>1. CASE Wait
  <2>1. /\ queue # <<>> /\ AwaitAs(h) /\ h.at \in {"start", "reject"}
        /\ UNCHANGED <<balances, events, recorded, tokenVars>>
    BY <1>1, EmptySeq DEF Wait, AwaitAs
  <2>2. GoesOn(h, h) /\ Idle(h)
    BY <2>1 DEF GoesOn, Idle
  <2> QED
    BY <2>1, <2>2 DEF Idles, HeadIdles
<1>2. CASE Begin
  <2> DEFINE error == IF AuthError(devices[d], d, p) # NoError THEN AuthError(devices[d], d, p)
                      ELSE PayloadError(p)
             b == [h EXCEPT !.at = "token", !.token = tokenAt[p.tick]]
  <2>1. /\ queue # <<>> /\ h \in Continuation /\ d \in DeviceIds /\ p \in Payloads /\ h.at = "start"
        /\ p.op \in {"DEPLOY", "MINT", "TRANSFER", "MESSAGE", "CONFIG"}
    BY <1>2, HeadRuns, PayloadFields DEF Begin
  <2>2. UNCHANGED <<balances, events, recorded, tokenVars>>
    BY <1>2 DEF Begin
  <2>3. Stage(h) \notin Issued
    BY <2>1 DEF Stage, Issued
  <2>4. error \in Reasons
    BY <2>1, ErrorsAreReasons
  <2>5. \/ Throw(error) \/ Await("recipient") \/ AwaitAs(b)
        \/ \E device : SaveDevice(d, device) /\ p.op \in {"MESSAGE", "CONFIG"}
    BY <1>2, <2>1 DEF Begin
  <2>6. CASE AwaitAs(b)
    <3>1. b.job = h.job /\ b.at = "token" /\ b.token = tokenAt[p.tick]
      BY <2>1, LabelsSet
    <3> HIDE DEF b
    <3>2. GoesOn(h, b) /\ Idle(b)
      BY <2>3, <3>1 DEF GoesOn, Idle, Stage, Stages, Issued, Settled
    <3> QED
      BY <2>1, <2>2, <2>6, <3>2 DEF Idles, HeadIdles
  <2> HIDE DEF error, b
  <2>7. HeadIdles \/ AwaitAs(b)
    BY <2>1, <2>3, <2>4, <2>5, ThrowIdles, AwaitIdles, SaveIdles
  <2> QED
    BY <2>1, <2>2, <2>6, <2>7 DEF Idles
<1>3. CASE CheckRecipient
  <2> DEFINE b == [h EXCEPT !.at = "debit", !.funds = balances[p.tick][d]]
  <2>1. queue # <<>> /\ h \in Continuation /\ p.op \in {"TRANSFER", "MESSAGE"} /\ h.at = "recipient"
    BY <1>3, HeadRuns DEF CheckRecipient, Fits
  <2>2. UNCHANGED <<balances, events, recorded, tokenVars>>
    BY <1>3 DEF CheckRecipient
  <2>3. Stage(h) \notin Issued
    BY <2>1 DEF Stage, Issued
  <2>4. \/ Throw("recipient_not_found") \/ AwaitAs(b)
        \/ \E device : SaveDevice(d, device) /\ p.op \in {"MESSAGE", "CONFIG"}
    BY <1>3, <2>1 DEF CheckRecipient
  <2>5. CASE AwaitAs(b)
    <3>1. b.job = h.job /\ b.at = "debit" /\ b.funds = balances[p.tick][d]
      BY <2>1, LabelsSet
    <3> HIDE DEF b
    <3>2. GoesOn(h, b) /\ Idle(b)
      BY <2>3, <3>1 DEF GoesOn, Idle, Stage, Stages, Issued, Settled
    <3> QED
      BY <2>1, <2>2, <2>5, <3>2 DEF Idles, HeadIdles
  <2> HIDE DEF b
  <2>6. HeadIdles \/ AwaitAs(b)
    BY <2>1, <2>3, <2>4, ThrowIdles, SaveIdles DEF Reasons
  <2> QED
    BY <2>1, <2>2, <2>5, <2>6 DEF Idles
<1>4. CASE FindRecipient
  <2>1. /\ queue # <<>> /\ h.at = "token" /\ UNCHANGED <<balances, events, recorded, tokenVars>>
        /\ Throw("token_not_found") \/ Await("recipient")
    BY <1>4 DEF FindRecipient, Running
  <2>2. Stage(h) \notin Issued
    BY <2>1 DEF Stage, Issued
  <2>3. HeadIdles
    BY <2>1, <2>2, ThrowIdles, AwaitIdles DEF Reasons
  <2> QED
    BY <2>1, <2>3 DEF Idles
<1>5. CASE CreateToken
  <2>1. /\ queue # <<>> /\ h.at = "token" /\ UNCHANGED <<balances, events, recorded>>
        /\ Await("save") \/ (Throw("token_already_exists") /\ UNCHANGED tokenVars)
    BY <1>5 DEF CreateToken, Running
  <2>2. Stage(h) \notin Issued
    BY <2>1 DEF Stage, Issued
  <2>3. CASE Await("save")
    BY <1>5, <2>1, <2>3, AwaitGoes DEF Works
  <2>4. CASE Throw("token_already_exists") /\ UNCHANGED tokenVars
    <3>1. HeadIdles
      BY <2>1, <2>2, <2>4, ThrowIdles DEF Reasons
    <3> QED
      BY <2>1, <2>4, <3>1 DEF Idles
  <2> QED
    BY <2>1, <2>3, <2>4
<1>6. CASE SaveToken
  <2>1. /\ queue # <<>> /\ h.at = "token" /\ UNCHANGED <<balances, events, recorded>>
        /\ Await("credit") \/ (UNCHANGED tokenVars /\ \E code \in Reasons : Throw(code))
    BY <1>6, MintWrites DEF SaveToken
  <2>2. Stage(h) \notin Issued
    BY <2>1 DEF Stage, Issued
  <2>3. CASE Await("credit")
    BY <1>6, <2>1, <2>3, AwaitGoes DEF Works
  <2>4. CASE UNCHANGED tokenVars /\ \E code \in Reasons : Throw(code)
    <3>1. HeadIdles
      BY <2>1, <2>2, <2>4, ThrowIdles
    <3> QED
      BY <2>1, <2>4, <3>1 DEF Idles
  <2> QED
    BY <2>1, <2>3, <2>4
<1>7. CASE DebitSender
  <2>1. /\ queue # <<>> /\ h.at = "debit" /\ UNCHANGED <<events, recorded, tokenVars>>
        /\ Await("credit") \/ (UNCHANGED balances /\ Throw("insufficient_balance"))
    BY <1>7 DEF DebitSender, Running
  <2>2. Stage(h) \notin Issued
    BY <2>1 DEF Stage, Issued
  <2>3. CASE Await("credit")
    BY <1>7, <2>1, <2>3, AwaitGoes DEF Works
  <2>4. CASE UNCHANGED balances /\ Throw("insufficient_balance")
    <3>1. HeadIdles
      BY <2>1, <2>2, <2>4, ThrowIdles DEF Reasons
    <3> QED
      BY <2>1, <2>4, <3>1 DEF Idles
  <2> QED
    BY <2>1, <2>3, <2>4
<1>8. CASE SaveNonce
  <2>1. /\ queue # <<>> /\ h.at = "save" /\ UNCHANGED <<balances, events, recorded, tokenVars>>
        /\ \E device : SaveDevice(d, device)
    BY <1>8 DEF SaveNonce, Running
  <2>2. HeadIdles
    BY <2>1, SaveIdles
  <2> QED
    BY <2>1, <2>2 DEF Idles
<1>9. CASE RegisterDevice
  BY <1>9 DEF RegisterDevice, S!RegisterDevice
<1>10. CASE UNCHANGED vars
  BY <1>10 DEF vars
<1> QED
  BY <1>1, <1>2, <1>3, <1>4, <1>5, <1>6, <1>7, <1>8, <1>9, <1>10 DEF Next

\* Idling changes no share.
LEMMA IdleShares ==
    ASSUME TypeInv, queue # <<>>, NEW c, c.job = Head(queue).job, Idle(c),
           NEW stages \in Stages, NEW op \in LoggedOps, NEW t, NEW role, NEW d
    PROVE  Counts(c, stages, op, t, role, d) <=> Counts(Head(queue), stages, op, t, role, d)
BY DEF Idle, Counts, LoggedOps

-----------------------------------------------------------------------------
\* The deploys of a ticker: those on record, and those under way to it.

Deploys(t) == Rows("DEPLOY", t, "any", Null)
Deploying(k, t) == Items(k, queue, Settled, "DEPLOY", t, "any", Null)

NoDeploy(k, t) == Deploys(t) = {} /\ Deploying(k, t) = {}

OneDeploy(k, t) ==
    /\ \A x, y \in Deploys(t) : x = y
    /\ \A x, y \in Deploying(k, t) : x = y
    /\ Deploys(t) = {} \/ Deploying(k, t) = {}

\* A step after which the same uplinks have deployed each ticker.
DeploysKept(k, m) ==
    \A t \in Ticks :
        /\ NoDeploy(k, t) => NoDeploy(m, t)'
        /\ OneDeploy(m, t)' => OneDeploy(k, t)
        /\ \A x \in Deploys(t) \cup Deploying(k, t) :
              \E y \in Deploys(t)' \cup Deploying(m, t)' :
                 y.deviceId = x.deviceId /\ y.msg = x.msg

LEMMA DeploysStay ==
    ASSUME NEW k, NEW m, \A t \in Ticks : Deploys(t)' = Deploys(t),
           \A t \in Ticks : Deploying(m, t)' = Deploying(k, t)
    PROVE  DeploysKept(k, m)
BY DEF DeploysKept, NoDeploy, OneDeploy

LEMMA DeploysIfRowsKept ==
    ASSUME events' = events, NEW t
    PROVE  Deploys(t)' = Deploys(t)
BY DEF Deploys, Rows, EffectiveOp

LEMMA DeploysTurn ==
    ASSUME TypeInv, queue # <<>>, events' = events, NEW k \in Nat, NEW c, AwaitAs(c),
           c.job = Head(queue).job,
           \A t \in Ticks : Counts(c, Settled, "DEPLOY", t, "any", Null)
                              <=> Counts(Head(queue), Settled, "DEPLOY", t, "any", Null)
    PROVE  DeploysKept(k, k + 1)
<1> SUFFICES ASSUME NEW t \in Ticks
             PROVE  /\ NoDeploy(k, t) => NoDeploy(k + 1, t)'
                    /\ OneDeploy(k + 1, t)' => OneDeploy(k, t)
                    /\ \A x \in Deploys(t) \cup Deploying(k, t) :
                          \E y \in Deploys(t)' \cup Deploying(k + 1, t)' :
                             y.deviceId = x.deviceId /\ y.msg = x.msg
  BY DEF DeploysKept
<1> DEFINE R == Rest(k, Settled, "DEPLOY", t, "any", Null)
           a == Item(k, 1, Head(queue).job)
           b == Item(k + 1, Len(queue), c.job)
           n == Len(queue)
<1>1. Deploys(t)' = Deploys(t)
  BY DeploysIfRowsKept
<1>2. /\ Deploying(k, t) = R \cup One(k, 1, Head(queue), Settled, "DEPLOY", t, "any", Null)
      /\ \A x \in R : x.turn \in (k + 2)..(k + n)
  BY ItemsNow DEF Deploying
<1>3. Deploying(k + 1, t)' = R \cup One(k + 1, n, c, Settled, "DEPLOY", t, "any", Null)
  BY ItemsTurned DEF Deploying
<1>4. n \in Nat
  BY HeadPlaces
<1>5. b.turn = (k + 1) + n /\ b.deviceId = a.deviceId /\ b.msg = a.msg
  BY DEF Item
<1> HIDE DEF R, a, b, n
<1>6. b \notin R
  BY <1>2, <1>4, <1>5
<1>7. CASE ~Counts(Head(queue), Settled, "DEPLOY", t, "any", Null)
  <2>1. Deploying(k, t) = R /\ Deploying(k + 1, t)' = R
    BY <1>2, <1>3, <1>7 DEF One
  <2> QED
    BY <1>1, <2>1 DEF NoDeploy, OneDeploy
<1>8. CASE Counts(Head(queue), Settled, "DEPLOY", t, "any", Null)
  <2>1. Deploying(k, t) = R \cup {a} /\ Deploying(k + 1, t)' = R \cup {b}
    BY <1>2, <1>3, <1>8 DEF One, a, b, n
  <2>2. OneDeploy(k + 1, t)' => R = {} /\ Deploys(t) = {}
    BY <1>1, <1>6, <2>1 DEF OneDeploy
  <2>3. OneDeploy(k + 1, t)' => OneDeploy(k, t)
    BY <2>1, <2>2 DEF OneDeploy
  <2>4. ~NoDeploy(k, t)
    BY <2>1 DEF NoDeploy
  <2> QED
    BY <1>1, <1>5, <2>1, <2>3, <2>4
<1> QED
  BY <1>7, <1>8

LEMMA DeploysLeave ==
    ASSUME TypeInv, LinkLorawanDevEui, NEW k \in Nat
    PROVE  DeploysKept(k, k + 1)
<1>1. queue # <<>> /\ Return /\ Head(queue).job.kind = "link" /\ events' = events
  BY DEF LinkLorawanDevEui, Running
<1>2. ASSUME NEW t \in Ticks PROVE Deploying(k + 1, t)' = Deploying(k, t)
  <2>1. Items(k + 1, queue', Settled, "DEPLOY", t, "any", Null) = Rest(k, Settled, "DEPLOY", t, "any", Null)
    BY <1>1, ItemsLeft
  <2>2. One(k, 1, Head(queue), Settled, "DEPLOY", t, "any", Null) = {}
    BY <1>1 DEF One, Counts
  <2>3. queue # <<>>
    BY <1>1
  <2>4. Items(k, queue, Settled, "DEPLOY", t, "any", Null) =
           Rest(k, Settled, "DEPLOY", t, "any", Null)
           \cup One(k, 1, Head(queue), Settled, "DEPLOY", t, "any", Null)
    BY <2>3, ItemsNow
  <2> QED
    BY <2>1, <2>2, <2>4 DEF Deploying
<1> QED
  BY <1>1, <1>2, DeploysIfRowsKept, DeploysStay

LEMMA DeploysAppend ==
    ASSUME TypeInv, SizeInv, AppendAccepted \/ AppendRejected, NEW k \in Nat
    PROVE  DeploysKept(k, k + 1)
<1> SUFFICES ASSUME NEW t \in Ticks
             PROVE  /\ NoDeploy(k, t) => NoDeploy(k + 1, t)'
                    /\ OneDeploy(k + 1, t)' => OneDeploy(k, t)
                    /\ \A x \in Deploys(t) \cup Deploying(k, t) :
                          \E y \in Deploys(t)' \cup Deploying(k + 1, t)' :
                             y.deviceId = x.deviceId /\ y.msg = x.msg
  BY DEF DeploysKept
<1> DEFINE R == Rest(k, Settled, "DEPLOY", t, "any", Null)
           a == Item(k, 1, Head(queue).job)
<1>1. queue # <<>> /\ Return
  BY RowLeft
<1>2. Deploying(k, t) = R \cup One(k, 1, Head(queue), Settled, "DEPLOY", t, "any", Null)
  BY <1>1, ItemsNow DEF Deploying
<1>3. Deploying(k + 1, t)' = R
  BY <1>1, ItemsLeft DEF Deploying
<1>4. PICK row : /\ row \notin events /\ row.deviceId = a.deviceId /\ row.msg = a.msg
                 /\ Deploys(t)' = IF Counts(Head(queue), Settled, "DEPLOY", t, "any", Null)
                                  THEN Deploys(t) \cup {row} ELSE Deploys(t)
  BY RowsAppend DEF LoggedOps, Stages, Deploys, Item
<1>5. row \notin Deploys(t)
  BY <1>4 DEF Deploys, Rows, EffectiveOp
<1>6. CASE ~Counts(Head(queue), Settled, "DEPLOY", t, "any", Null)
  <2>1. Deploying(k, t) = R /\ Deploys(t)' = Deploys(t)
    BY <1>2, <1>4, <1>6 DEF One
  <2> HIDE DEF R
  <2> QED
    BY <1>3, <2>1 DEF NoDeploy, OneDeploy
<1>7. CASE Counts(Head(queue), Settled, "DEPLOY", t, "any", Null)
  <2>1. Deploying(k, t) = R \cup {a} /\ Deploys(t)' = Deploys(t) \cup {row}
    BY <1>2, <1>4, <1>7 DEF One
  <2> HIDE DEF R, a
  <2>2. OneDeploy(k + 1, t)' => R = {} /\ Deploys(t) = {}
    BY <1>3, <1>5, <2>1 DEF OneDeploy
  <2>3. OneDeploy(k + 1, t)' => OneDeploy(k, t)
    BY <2>1, <2>2 DEF OneDeploy
  <2>4. ~NoDeploy(k, t)
    BY <2>1 DEF NoDeploy
  <2> QED
    BY <1>3, <1>4, <2>1, <2>3, <2>4
<1> QED
  BY <1>6, <1>7

-----------------------------------------------------------------------------
\* The steps that neither write the ledger nor come from doing so.

Devices == DeviceIds \cup {Null}

\* No amount comes to a sum, or leaves it.
SumsKept(k, m) ==
    \A stages \in Stages, op \in SumOps, t \in Ticks, role \in Roles, d \in Devices :
        Sum(m, stages, op, t, role, d)' = Sum(k, stages, op, t, role, d)

Calm == \/ UNCHANGED <<balances, events, recorded, tokenVars, queue>>
        \/ Arrive
        \/ LinkLorawanDevEui
        \/ AppendAccepted \/ AppendRejected
        \/ Idles

LEMMA SumIdles ==
    ASSUME TypeInv, SizeInv, [Next]_vars, queue # <<>>, NEW c, AwaitAs(c), events' = events,
           NEW k \in Nat, NEW stages, NEW op \in SumOps, NEW t, NEW role, NEW d,
           Share(c, stages, op, t, role, d) = Share(Head(queue), stages, op, t, role, d)
    PROVE  Sum(k + 1, stages, op, t, role, d)' = Sum(k, stages, op, t, role, d)
<1>1. Share(c, stages, op, t, role, d) \in Nat
  BY SumTurns
<1>2. Sum(k + 1, stages, op, t, role, d)' =
         Sum(k, stages, op, t, role, d) - Share(Head(queue), stages, op, t, role, d)
         + Share(c, stages, op, t, role, d)
  BY SumTurns
<1>3. Sum(k, stages, op, t, role, d) \in Nat
  BY SumTyped
<1> QED
  BY <1>1, <1>2, <1>3

LEMMA SumsIdle ==
    ASSUME TypeInv, SizeInv, [Next]_vars, queue # <<>>, events' = events, NEW k \in Nat,
           NEW c, AwaitAs(c), c.job = Head(queue).job, Idle(c)
    PROVE  SumsKept(k, k + 1)
<1>1. \A stages \in Stages, op \in SumOps : \A t, role, d :
        Share(c, stages, op, t, role, d) = Share(Head(queue), stages, op, t, role, d)
  BY IdleShares DEF Share, SumOps, LoggedOps
<1> QED
  BY <1>1, SumIdles DEF SumsKept

LEMMA CalmKeeps ==
    ASSUME TypeInv, SizeInv, [Next]_vars, Calm, NEW k \in Nat
    PROVE  \E m \in {k, k + 1} : SumsKept(k, m) /\ DeploysKept(k, m)
<1>1. CASE UNCHANGED <<balances, events, recorded, tokenVars, queue>>
  <2>1. SumsKept(k, k)
    <3> SUFFICES ASSUME NEW stages \in Stages, NEW op \in SumOps, NEW t \in Ticks,
                        NEW role \in Roles, NEW d \in Devices
                 PROVE  Sum(k, stages, op, t, role, d)' = Sum(k, stages, op, t, role, d)
      BY DEF SumsKept
    <3>1. Rows(op, t, role, d)' = Rows(op, t, role, d)
      BY <1>1 DEF Rows, EffectiveOp
    <3>2. Items(k, queue', stages, op, t, role, d) = Items(k, queue, stages, op, t, role, d)
      BY <1>1
    <3> QED
      BY <3>1, <3>2 DEF Sum, SP!Moved
  <2>2. DeploysKept(k, k)
    <3>1. \A t \in Ticks : Deploying(k, t)' = Deploying(k, t)
      BY <1>1 DEF Deploying
    <3> QED
      BY <1>1, <3>1, DeploysIfRowsKept, DeploysStay
  <2> QED
    BY <2>1, <2>2
<1>2. CASE Arrive
  <2>1. SumsKept(k, k)
    BY <1>2, SumArrives DEF SumsKept
  <2>2. \A t \in Ticks : Deploying(k, t)' = Deploying(k, t)
    BY <1>2, ItemsArrive DEF Deploying, Stages
  <2>3. events' = events
    BY <1>2 DEF Arrive
  <2> QED
    BY <2>1, <2>2, <2>3, DeploysIfRowsKept, DeploysStay
<1>3. CASE LinkLorawanDevEui
  BY <1>3, SumLeaves, DeploysLeave DEF SumsKept
<1>4. CASE AppendAccepted \/ AppendRejected
  <2>1. SumsKept(k, k + 1)
    BY <1>4, SumAppends DEF SumsKept
  <2> QED
    BY <1>4, <2>1, DeploysAppend
<1>5. CASE Idles
  <2>1. queue # <<>> /\ events' = events
    BY <1>5 DEF Idles
  <2>2. PICK c : AwaitAs(c) /\ c.job = Head(queue).job /\ Idle(c)
    BY <1>5 DEF Idles, HeadIdles, GoesOn
  <2>3. SumsKept(k, k + 1)
    BY <2>1, <2>2, SumsIdle
  <2>4. \A t \in Ticks : Counts(c, Settled, "DEPLOY", t, "any", Null)
                           <=> Counts(Head(queue), Settled, "DEPLOY", t, "any", Null)
    BY <2>1, <2>2, IdleShares DEF Stages, LoggedOps
  <2> QED
    BY <2>1, <2>2, <2>3, <2>4, DeploysTurn
<1> QED
  BY <1>1, <1>2, <1>3, <1>4, <1>5 DEF Calm

-----------------------------------------------------------------------------
\* Balances.

\* A balance is what the effective rows and the uplinks on their way to one say.
Balanced(k) ==
    \A t \in Ticks, d \in DeviceIds :
        balances[t][d] = Sum(k, Settled, "MINT", t, "by", d)
                         + Sum(k, Settled, "TRANSFER", t, "to", d)
                         - Sum(k, Issued, "TRANSFER", t, "by", d)

\* What an uplink has come to write of d's balance so far.
Gain(c, t, d) ==
    Share(c, Settled, "MINT", t, "by", d) + Share(c, Settled, "TRANSFER", t, "to", d)
    - Share(c, Issued, "TRANSFER", t, "by", d)

LEMMA BalancedCalm ==
    ASSUME NEW k, NEW m, Balanced(k), SumsKept(k, m), balances' = balances
    PROVE  Balanced(m)'
<1> SUFFICES ASSUME NEW t \in Ticks, NEW d \in DeviceIds
             PROVE  balances'[t][d] = Sum(m, Settled, "MINT", t, "by", d)'
                                      + Sum(m, Settled, "TRANSFER", t, "to", d)'
                                      - Sum(m, Issued, "TRANSFER", t, "by", d)'
  BY DEF Balanced
<1>1. /\ Settled \in Stages /\ Issued \in Stages /\ "MINT" \in SumOps /\ "TRANSFER" \in SumOps
      /\ "by" \in Roles /\ "to" \in Roles /\ d \in Devices
  BY DEF Stages, SumOps, Roles, Devices
<1>2. /\ Sum(m, Settled, "MINT", t, "by", d)' = Sum(k, Settled, "MINT", t, "by", d)
      /\ Sum(m, Settled, "TRANSFER", t, "to", d)' = Sum(k, Settled, "TRANSFER", t, "to", d)
      /\ Sum(m, Issued, "TRANSFER", t, "by", d)' = Sum(k, Issued, "TRANSFER", t, "by", d)
  BY <1>1 DEF SumsKept
<1> QED
  BY <1>2 DEF Balanced

LEMMA Settling ==
    ASSUME NEW A \in Nat, NEW B \in Nat, NEW C \in Nat, NEW a \in Nat, NEW b \in Nat,
           NEW e \in Nat, NEW x \in Nat, NEW y \in Nat, NEW z \in Nat
    PROVE  (A + B - C) + (a + b - e) - (x + y - z) = (A - x + a) + (B - y + b) - (C - z + e)
OBVIOUS

LEMMA BalancedTurn ==
    ASSUME TypeInv, SizeInv, [Next]_vars, queue # <<>>, NEW c, AwaitAs(c), events' = events,
           NEW k \in Nat, Balanced(k),
           \A t \in Ticks, d \in DeviceIds :
              balances'[t][d] = balances[t][d] + Gain(c, t, d) - Gain(Head(queue), t, d)
    PROVE  Balanced(k + 1)'
<1> SUFFICES ASSUME NEW t \in Ticks, NEW d \in DeviceIds
             PROVE  balances'[t][d] = Sum(k + 1, Settled, "MINT", t, "by", d)'
                                      + Sum(k + 1, Settled, "TRANSFER", t, "to", d)'
                                      - Sum(k + 1, Issued, "TRANSFER", t, "by", d)'
  BY DEF Balanced
<1> DEFINE A == Sum(k, Settled, "MINT", t, "by", d)
           B == Sum(k, Settled, "TRANSFER", t, "to", d)
           C == Sum(k, Issued, "TRANSFER", t, "by", d)
           a == Share(c, Settled, "MINT", t, "by", d)
           b == Share(c, Settled, "TRANSFER", t, "to", d)
           e == Share(c, Issued, "TRANSFER", t, "by", d)
           x == Share(Head(queue), Settled, "MINT", t, "by", d)
           y == Share(Head(queue), Settled, "TRANSFER", t, "to", d)
           z == Share(Head(queue), Issued, "TRANSFER", t, "by", d)
<1>1. "MINT" \in SumOps /\ "TRANSFER" \in SumOps
  BY DEF SumOps
<1>2. A \in Nat /\ B \in Nat /\ C \in Nat
  BY SumTyped
<1>3. x \in Nat /\ y \in Nat /\ z \in Nat
  BY <1>1, SumNow
<1>4. a \in Nat /\ b \in Nat /\ e \in Nat
  BY <1>1, SumTurns
<1>5. Sum(k + 1, Settled, "MINT", t, "by", d)' = A - x + a
  BY <1>1, SumTurns
<1>6. Sum(k + 1, Settled, "TRANSFER", t, "to", d)' = B - y + b
  BY <1>1, SumTurns
<1>7. Sum(k + 1, Issued, "TRANSFER", t, "by", d)' = C - z + e
  BY <1>1, SumTurns
<1>8. balances[t][d] = A + B - C
  BY DEF Balanced
<1>9. balances'[t][d] = balances[t][d] + (a + b - e) - (x + y - z)
  BY DEF Gain
<1> HIDE DEF A, B, C, a, b, e, x, y, z
<1>10. (A + B - C) + (a + b - e) - (x + y - z) = (A - x + a) + (B - y + b) - (C - z + e)
  BY <1>2, <1>3, <1>4, Settling
<1> QED
  BY <1>5, <1>6, <1>7, <1>8, <1>9, <1>10

LEMMA GainOfDebit ==
    ASSUME TypeInv, DebitSender, Works("debit", "credit")
    PROVE  \E c : /\ AwaitAs(c)
                  /\ \A t \in Ticks, d \in DeviceIds :
                        balances'[t][d] = balances[t][d] + Gain(c, t, d) - Gain(Head(queue), t, d)
<1> DEFINE h == Head(queue)
           p == h.job.msg
<1>1. PICK c : AwaitAs(c) /\ c.job = h.job /\ c.at = "credit"
  BY DEF Works
<1>2. /\ queue # <<>> /\ h.at = "debit" /\ p.op = "TRANSFER" /\ p.amount \in Nat
      /\ p.tick \in Ticks /\ h.job.deviceId \in DeviceIds /\ h.job.kind = "ingest"
  BY DebitWrites DEF DebitSender, Running
<1>3. /\ balances'[p.tick][h.job.deviceId] = balances[p.tick][h.job.deviceId] - p.amount
      /\ \A t \in Ticks, x \in DeviceIds :
            t # p.tick \/ x # h.job.deviceId => balances'[t][x] = balances[t][x]
  <2>1. ~\E code : Throw(code)
    <3> SUFFICES ASSUME NEW code, Throw(code) PROVE FALSE
      OBVIOUS
    <3>1. PICK b : AwaitAs(b) /\ b.at = "reject"
      BY <1>2, ThrowGoes
    <3>2. queue'[Len(queue)] = b /\ queue'[Len(queue)] = c
      BY <1>1, <1>2, <3>1, HeadPlaces
    <3> QED
      BY <1>1, <3>1, <3>2
  <2> QED
    BY <2>1, DebitWrites
<1>4. ASSUME NEW t \in Ticks, NEW d \in DeviceIds
      PROVE  balances'[t][d] = balances[t][d] + Gain(c, t, d) - Gain(h, t, d)
  <2>1. balances[t][d] \in Int
    BY DEF TypeInv, TablesTyped
  <2>2. Gain(h, t, d) = 0
    BY <1>2 DEF Gain, Share, Counts, Stage, Issued, Settled
  <2>3. Gain(c, t, d) = IF p.tick = t /\ h.job.deviceId = d THEN 0 - p.amount ELSE 0
    BY <1>1, <1>2 DEF Gain, Share, Counts, Stage, Issued, Settled, Plays
  <2> QED
    BY <1>2, <1>3, <2>1, <2>2, <2>3
<1> QED
  BY <1>1, <1>4

LEMMA GainOfCredit ==
    ASSUME TypeInv, CreditOwner
    PROVE  \E c : /\ AwaitAs(c) /\ c.job = Head(queue).job
                  /\ \A t \in Ticks, d \in DeviceIds :
                        balances'[t][d] = balances[t][d] + Gain(c, t, d) - Gain(Head(queue), t, d)
<1> DEFINE h == Head(queue)
           p == h.job.msg
           owner == IF p.op = "MINT" THEN h.job.deviceId ELSE p.recipient
<1>1. /\ queue # <<>> /\ h.at = "credit" /\ h.job.kind = "ingest"
      /\ p.op \in {"MINT", "TRANSFER"} /\ p.amount \in Nat
      /\ balances'[p.tick][owner] = balances[p.tick][owner] + p.amount
      /\ \A t \in Ticks, d \in DeviceIds :
            t # p.tick \/ d # owner => balances'[t][d] = balances[t][d]
      /\ Await("save")
  BY CreditWrites
<1>2. PICK c : AwaitAs(c) /\ c.job = h.job /\ c.at = "save"
  BY <1>1, AwaitGoes
<1>3. ASSUME NEW t \in Ticks, NEW d \in DeviceIds
      PROVE  balances'[t][d] = balances[t][d] + Gain(c, t, d) - Gain(h, t, d)
  <2> DEFINE out == IF p.op = "TRANSFER" /\ p.tick = t /\ h.job.deviceId = d THEN p.amount ELSE 0
  <2>1. balances[t][d] \in Int /\ out \in Nat
    BY <1>1 DEF TypeInv, TablesTyped
  <2>2. /\ Share(h, Settled, "MINT", t, "by", d) = 0
        /\ Share(h, Settled, "TRANSFER", t, "to", d) = 0
        /\ Share(h, Issued, "TRANSFER", t, "by", d) = out
    BY <1>1 DEF Share, Counts, Stage, Issued, Settled, Plays
  <2>3. /\ Share(c, Settled, "MINT", t, "by", d) =
              IF p.op = "MINT" /\ p.tick = t /\ d = owner THEN p.amount ELSE 0
        /\ Share(c, Settled, "TRANSFER", t, "to", d) =
              IF p.op = "TRANSFER" /\ p.tick = t /\ d = owner THEN p.amount ELSE 0
        /\ Share(c, Issued, "TRANSFER", t, "by", d) = out
    BY <1>1, <1>2 DEF Share, Counts, Stage, Issued, Settled, Plays
  <2> HIDE DEF out, owner
  <2>4. Gain(h, t, d) = 0 + 0 - out
    BY <2>2 DEF Gain
  <2>5. Gain(c, t, d) = (IF p.tick = t /\ d = owner THEN p.amount ELSE 0) - out
    <3>1. CASE p.op = "MINT"
      BY <1>1, <2>1, <2>3, <3>1 DEF Gain
    <3>2. CASE p.op = "TRANSFER"
      BY <1>1, <2>1, <2>3, <3>2 DEF Gain
    <3> QED
      BY <1>1, <3>1, <3>2
  <2>6. CASE p.tick = t /\ d = owner
    <3>1. balances'[t][d] = balances[t][d] + p.amount
      BY <1>1, <2>6
    <3> QED
      BY <1>1, <2>1, <2>4, <2>5, <2>6, <3>1
  <2>7. CASE ~(p.tick = t /\ d = owner)
    <3>1. balances'[t][d] = balances[t][d]
      BY <1>1, <2>7
    <3> QED
      BY <1>1, <2>1, <2>4, <2>5, <2>7, <3>1
  <2> QED
    BY <2>6, <2>7
<1> QED
  BY <1>2, <1>3

\* Writing a token, a request has come to no balance.
LEMMA GainOfToken ==
    ASSUME TypeInv, \/ CreateToken /\ Works("token", "save")
                    \/ SaveToken /\ Works("token", "credit")
    PROVE  \E c : /\ AwaitAs(c)
                  /\ \A t \in Ticks, d \in DeviceIds :
                        balances'[t][d] = balances[t][d] + Gain(c, t, d) - Gain(Head(queue), t, d)
<1> DEFINE h == Head(queue)
           p == h.job.msg
<1>1. PICK c : /\ AwaitAs(c) /\ c.job = h.job
               /\ \/ p.op = "DEPLOY"
                  \/ p.op = "MINT" /\ c.at = "credit"
  BY DEF Works, CreateToken, SaveToken, Running
<1>2. h.at = "token" /\ balances' = balances
  BY DEF CreateToken, SaveToken, Running
<1>3. ASSUME NEW t \in Ticks, NEW d \in DeviceIds
      PROVE  balances'[t][d] = balances[t][d] + Gain(c, t, d) - Gain(h, t, d)
  <2>1. balances[t][d] \in Int
    BY DEF TypeInv, TablesTyped
  <2>2. Gain(h, t, d) = 0
    BY <1>2 DEF Gain, Share, Counts, Stage, Issued, Settled
  <2>3. Gain(c, t, d) = 0
    BY <1>1 DEF Gain, Share, Counts, Stage, Issued, Settled
  <2> QED
    BY <1>2, <2>1, <2>2, <2>3
<1> QED
  BY <1>1, <1>3

LEMMA BalancedStep ==
    ASSUME TypeInv, SizeInv, [Next]_vars, ~Calm, NEW k \in Nat, Balanced(k)
    PROVE  Balanced(k + 1)'
<1>1. \/ CreateToken /\ Works("token", "save")
      \/ SaveToken /\ Works("token", "credit")
      \/ DebitSender /\ Works("debit", "credit")
      \/ CreditOwner
  BY EffectSteps DEF Calm
<1>2. queue # <<>> /\ events' = events
  BY <1>1 DEF Works, CreditOwner, Running
<1>3. PICK c : /\ AwaitAs(c)
               /\ \A t \in Ticks, d \in DeviceIds :
                     balances'[t][d] = balances[t][d] + Gain(c, t, d) - Gain(Head(queue), t, d)
  BY <1>1, GainOfDebit, GainOfCredit, GainOfToken
<1> QED
  BY <1>2, <1>3, BalancedTurn

-----------------------------------------------------------------------------
\* Tokens and what has been minted of them.

Minted(k, t) == Sum(k, Issued, "MINT", t, "any", Null)

\* Who can still write the object o as the token of t: the map leads to it, or a
\* handler has read it there.
Refs(t, o) ==
    \/ tokenAt[t] = o
    \/ \E i \in DOMAIN queue :
          queue[i].at = "token" /\ queue[i].job.msg.tick = t /\ queue[i].token = o

HasTerms(k, t, o) ==
    \E x \in Deploys(t) \cup Deploying(k, t) :
        NewToken(x.deviceId, x.msg) = [objects[o] EXCEPT !.totalSupply = 0]

\* An object within reach is one that was deployed for its ticker, and a part of
\* what was minted went to it: all of it, if it has no rival.
Backed(k, t, o) ==
    /\ HasTerms(k, t, o)
    /\ objects[o].totalSupply <= Minted(k, t)
    /\ OneDeploy(k, t) => o = tokenAt[t] /\ objects[o].totalSupply = Minted(k, t)
    /\ \A u \in Ticks : Refs(u, o) => u = t

TokensBacked(k) ==
    \A t \in Ticks :
        /\ tokenAt[t] = 0 => NoDeploy(k, t) /\ Minted(k, t) = 0
        /\ \A o \in 1..Len(objects) : Refs(t, o) => Backed(k, t, o)

\* A handler reads the map; it learns nothing else.
LEMMA RefsStep ==
    ASSUME TypeInv, [Next]_vars, NEW t \in Ticks, NEW o \in Nat, o # 0, Refs(t, o)'
    PROVE  tokenAt'[t] = o \/ Refs(t, o)
<1> SUFFICES ASSUME NEW i \in DOMAIN queue', queue'[i].at = "token",
                    queue'[i].job.msg.tick = t, queue'[i].token = o
             PROVE  Refs(t, o)
  BY DEF Refs
<1>1. PICK k \in {0, 1} : Carried(k)
  BY Carries
<1>2. CASE i + k \in DOMAIN queue /\ queue'[i] = queue[i + k]
  BY <1>2 DEF Refs
<1>3. CASE GoesOn(Head(queue), queue'[i])
  BY <1>3 DEF Refs, GoesOn
<1> QED
  BY <1>1, <1>2, <1>3 DEF Carried

LEMMA BackedIfKept ==
    ASSUME TypeInv, [Next]_vars, UNCHANGED tokenVars, NEW k, NEW m, TokensBacked(k),
           DeploysKept(k, m), \A t \in Ticks : Minted(m, t)' = Minted(k, t)
    PROVE  TokensBacked(m)'
<1>1. objects' = objects /\ tokenAt' = tokenAt /\ Len(objects) \in Nat
  BY LenProperties DEF tokenVars, TypeInv, TablesTyped
<1>2. ASSUME NEW t \in Ticks, tokenAt[t] = 0
      PROVE  NoDeploy(m, t)' /\ Minted(m, t)' = 0
  BY <1>2 DEF TokensBacked, DeploysKept
<1>3. ASSUME NEW t \in Ticks, NEW o \in 1..Len(objects), Refs(t, o)'
      PROVE  Backed(m, t, o)'
  <2>1. \A u \in Ticks : Refs(u, o)' => Refs(u, o)
    <3>1. o \in Nat /\ o # 0
      BY <1>1
    <3> QED
      BY <1>1, <3>1, RefsStep DEF Refs
  <2>2. Backed(k, t, o)
    BY <1>3, <2>1 DEF TokensBacked
  <2>3. HasTerms(m, t, o)'
    <3>1. PICK x \in Deploys(t) \cup Deploying(k, t) :
            NewToken(x.deviceId, x.msg) = [objects[o] EXCEPT !.totalSupply = 0]
      BY <2>2 DEF Backed, HasTerms
    <3>2. PICK y \in Deploys(t)' \cup Deploying(m, t)' : y.deviceId = x.deviceId /\ y.msg = x.msg
      BY <3>1 DEF DeploysKept
    <3>3. NewToken(y.deviceId, y.msg) = [objects'[o] EXCEPT !.totalSupply = 0]
      BY <1>1, <3>1, <3>2
    <3> QED
      BY <3>2, <3>3 DEF HasTerms, NewToken
  <2>4. OneDeploy(m, t)' => OneDeploy(k, t)
    BY DEF DeploysKept
  <2> QED
    BY <1>1, <2>1, <2>2, <2>3, <2>4 DEF Backed
<1> QED
  BY <1>1, <1>2, <1>3 DEF TokensBacked

\* What the uplink at the head mints.
LEMMA MintedTurns ==
    ASSUME TypeInv, SizeInv, [Next]_vars, queue # <<>>, NEW c, AwaitAs(c), events' = events,
           NEW k \in Nat, NEW t
    PROVE  /\ Minted(k, t) \in Nat
           /\ Share(Head(queue), Issued, "MINT", t, "any", Null) \in Nat
           /\ Share(c, Issued, "MINT", t, "any", Null) \in Nat
           /\ Minted(k + 1, t)' = Minted(k, t) - Share(Head(queue), Issued, "MINT", t, "any", Null)
                                  + Share(c, Issued, "MINT", t, "any", Null)
<1>1. "MINT" \in SumOps
  BY DEF SumOps
<1>2. Minted(k, t) \in Nat
  BY SumTyped DEF Minted
<1>3. Share(Head(queue), Issued, "MINT", t, "any", Null) \in Nat
  BY <1>1, SumNow
<1>4. Share(c, Issued, "MINT", t, "any", Null) \in Nat
  BY <1>1, SumTurns
<1>5. Sum(k + 1, Issued, "MINT", t, "any", Null)' =
         Sum(k, Issued, "MINT", t, "any", Null)
         - Share(Head(queue), Issued, "MINT", t, "any", Null)
         + Share(c, Issued, "MINT", t, "any", Null)
  BY <1>1, SumTurns
<1> QED
  BY <1>2, <1>3, <1>4, <1>5 DEF Minted

\* A debit or a credit is of no supply.
LEMMA BackedAfterTransfer ==
    ASSUME TypeInv, SizeInv, [Next]_vars, NEW k \in Nat, TokensBacked(k),
           \/ DebitSender /\ Works("debit", "credit")
           \/ CreditOwner
    PROVE  TokensBacked(k + 1)'
<1> DEFINE h == Head(queue)
<1>1. queue # <<>> /\ events' = events /\ UNCHANGED tokenVars
  BY DEF DebitSender, CreditOwner, Running
<1>2. PICK c : /\ AwaitAs(c) /\ c.job = h.job
               /\ \/ h.at = "debit" /\ c.at = "credit" /\ h.job.msg.op = "TRANSFER"
                  \/ h.at = "credit" /\ c.at = "save" /\ h.job.msg.op \in {"MINT", "TRANSFER"}
  <2>1. CASE CreditOwner
    BY <2>1, CreditWrites, AwaitGoes
  <2>2. CASE DebitSender /\ Works("debit", "credit")
    BY <2>2, DebitWrites DEF Works
  <2> QED
    BY <2>1, <2>2
<1>3. DeploysKept(k, k + 1)
  <2>1. \A t \in Ticks : Counts(c, Settled, "DEPLOY", t, "any", Null)
                           <=> Counts(h, Settled, "DEPLOY", t, "any", Null)
    BY <1>2 DEF Counts
  <2> QED
    BY <1>1, <1>2, <2>1, DeploysTurn
<1>4. ASSUME NEW t \in Ticks PROVE Minted(k + 1, t)' = Minted(k, t)
  <2>1. Share(c, Issued, "MINT", t, "any", Null) = Share(h, Issued, "MINT", t, "any", Null)
    BY <1>2 DEF Share, Counts, Stage, Issued
  <2>2. /\ Minted(k, t) \in Nat /\ Share(c, Issued, "MINT", t, "any", Null) \in Nat
        /\ Minted(k + 1, t)' = Minted(k, t) - Share(h, Issued, "MINT", t, "any", Null)
                               + Share(c, Issued, "MINT", t, "any", Null)
    BY <1>1, <1>2, MintedTurns
  <2> QED
    BY <2>1, <2>2
<1> QED
  BY <1>1, <1>3, <1>4, BackedIfKept

LEMMA BackedAfterMint ==
    ASSUME TypeInv, SizeInv, [Next]_vars, NEW k \in Nat, TokensBacked(k),
           SaveToken, Works("token", "credit")
    PROVE  TokensBacked(k + 1)'
<1> DEFINE h == Head(queue)
           p == h.job.msg
           n == h.token
<1>1. /\ queue # <<>> /\ h = queue[1] /\ 1 \in DOMAIN queue /\ h.at = "token"
      /\ h.job.kind = "ingest" /\ p.op = "MINT" /\ p.tick \in Ticks /\ p.amount \in Nat
  BY MintWrites
<1>2. events' = events
  BY DEF SaveToken
<1>3. PICK c : AwaitAs(c) /\ c.job = h.job /\ c.at = "credit"
  BY DEF Works
<1>4. /\ n \in 1..Len(objects) /\ objects[n] \in SoundToken
      /\ objects'[n].totalSupply = objects[n].totalSupply + p.amount
      /\ [objects'[n] EXCEPT !.totalSupply = 0] = [objects[n] EXCEPT !.totalSupply = 0]
      /\ \A o \in 1..Len(objects) : o # n => objects'[o] = objects[o]
      /\ Len(objects') = Len(objects)
      /\ tokenAt' = [tokenAt EXCEPT ![p.tick] = n]
  <2>1. ~\E code : Throw(code)
    <3> SUFFICES ASSUME NEW code, Throw(code) PROVE FALSE
      OBVIOUS
    <3>1. PICK b : AwaitAs(b) /\ b.at = "reject"
      BY <1>1, ThrowGoes
    <3>2. queue'[Len(queue)] = b /\ queue'[Len(queue)] = c
      BY <1>1, <1>3, <3>1, HeadPlaces
    <3> QED
      BY <1>3, <3>1, <3>2
  <2> QED
    BY <2>1, MintWrites
<1>5. Len(objects) \in Nat /\ tokenAt \in [Ticks -> 0..Len(objects)]
  BY LenProperties DEF TypeInv, TablesTyped
<1>6. \A o \in 1..Len(objects) : objects[o].totalSupply \in Nat
  <2>1. \A o \in 1..Len(objects) : objects[o] \in SoundToken
    BY ElementOfSeq DEF TypeInv, TablesTyped
  <2> QED
    BY <2>1 DEF SoundToken, Token, Amounts
<1>7. DeploysKept(k, k + 1)
  <2>1. \A t \in Ticks : Counts(c, Settled, "DEPLOY", t, "any", Null)
                           <=> Counts(h, Settled, "DEPLOY", t, "any", Null)
    BY <1>1, <1>3 DEF Counts
  <2> QED
    BY <1>1, <1>2, <1>3, <2>1, DeploysTurn
<1>8. ASSUME NEW t \in Ticks
      PROVE  /\ Minted(k, t) \in Nat
             /\ Minted(k + 1, t)' = Minted(k, t) + (IF t = p.tick THEN p.amount ELSE 0)
  <2>1. /\ Share(h, Issued, "MINT", t, "any", Null) = 0
        /\ Share(c, Issued, "MINT", t, "any", Null) = IF t = p.tick THEN p.amount ELSE 0
    BY <1>1, <1>3 DEF Share, Counts, Stage, Issued, Plays
  <2>2. /\ Minted(k, t) \in Nat
        /\ Minted(k + 1, t)' = Minted(k, t) - Share(h, Issued, "MINT", t, "any", Null)
                               + Share(c, Issued, "MINT", t, "any", Null)
    BY <1>1, <1>2, <1>3, MintedTurns
  <2> QED
    BY <1>1, <2>1, <2>2
<1>9. Refs(p.tick, n)
  BY <1>1 DEF Refs
<1>10. ASSUME NEW t \in Ticks, NEW o \in 1..Len(objects), Refs(t, o)'
       PROVE  Refs(t, o)
  <2>1. o \in Nat /\ o # 0
    BY <1>5
  <2>2. tokenAt'[t] = o \/ Refs(t, o)
    BY <1>10, <2>1, RefsStep
  <2> QED
    BY <1>1, <1>4, <1>5, <1>9, <2>2 DEF Refs
<1>11. ASSUME NEW t \in Ticks, tokenAt'[t] = 0
       PROVE  NoDeploy(k + 1, t)' /\ Minted(k + 1, t)' = 0
  <2>1. t # p.tick /\ tokenAt[t] = 0
    BY <1>1, <1>4, <1>5, <1>11
  <2>2. NoDeploy(k, t) /\ Minted(k, t) = 0
    BY <2>1 DEF TokensBacked
  <2> QED
    BY <1>7, <1>8, <2>1, <2>2 DEF DeploysKept
<1>12. ASSUME NEW t \in Ticks, NEW o \in 1..Len(objects), Refs(t, o)'
       PROVE  Backed(k + 1, t, o)'
  <2>1. Backed(k, t, o)
    BY <1>10, <1>12 DEF TokensBacked
  <2>2. o = n => t = p.tick
    BY <1>1, <1>9, <2>1 DEF Backed
  <2>3. HasTerms(k + 1, t, o)'
    <3>1. PICK x \in Deploys(t) \cup Deploying(k, t) :
            NewToken(x.deviceId, x.msg) = [objects[o] EXCEPT !.totalSupply = 0]
      BY <2>1 DEF Backed, HasTerms
    <3>2. PICK y \in Deploys(t)' \cup Deploying(k + 1, t)' :
            y.deviceId = x.deviceId /\ y.msg = x.msg
      BY <1>7, <3>1 DEF DeploysKept
    <3>3. [objects'[o] EXCEPT !.totalSupply = 0] = [objects[o] EXCEPT !.totalSupply = 0]
      BY <1>4
    <3>4. NewToken(y.deviceId, y.msg) = [objects'[o] EXCEPT !.totalSupply = 0]
      BY <3>1, <3>2, <3>3
    <3> QED
      BY <3>2, <3>4 DEF HasTerms, NewToken
  <2>4. objects'[o].totalSupply = objects[o].totalSupply + (IF o = n THEN p.amount ELSE 0)
    BY <1>1, <1>4, <1>6
  <2>5. objects'[o].totalSupply <= Minted(k + 1, t)'
    <3>1. /\ objects[o].totalSupply \in Nat /\ Minted(k, t) \in Nat /\ p.amount \in Nat
          /\ objects[o].totalSupply <= Minted(k, t)
      BY <1>1, <1>6, <1>8, <2>1 DEF Backed
    <3>2. Minted(k + 1, t)' = Minted(k, t) + (IF t = p.tick THEN p.amount ELSE 0)
      BY <1>8
    <3> QED
      BY <2>2, <2>4, <3>1, <3>2
  <2>6. ASSUME OneDeploy(k + 1, t)'
        PROVE  o = tokenAt'[t] /\ objects'[o].totalSupply = Minted(k + 1, t)'
    <3>1. OneDeploy(k, t)
      BY <1>7, <2>6 DEF DeploysKept
    <3>2. o = tokenAt[t] /\ objects[o].totalSupply = Minted(k, t)
      BY <2>1, <3>1 DEF Backed
    <3>3. CASE t = p.tick
      <4>1. n = tokenAt[t]
        BY <1>4, <1>9, <3>1, <3>3 DEF TokensBacked, Backed
      <4> QED
        BY <1>4, <1>5, <1>8, <2>4, <3>2, <3>3, <4>1
    <3>4. CASE t # p.tick
      BY <1>1, <1>4, <1>5, <1>6, <1>8, <2>2, <2>4, <3>2, <3>4
    <3> QED
      BY <3>3, <3>4
  <2>7. \A u \in Ticks : Refs(u, o)' => u = t
    BY <1>10, <2>1 DEF Backed
  <2> QED
    BY <2>3, <2>5, <2>6, <2>7 DEF Backed
<1> QED
  BY <1>4, <1>11, <1>12 DEF TokensBacked

\* A token is created where the handler saw none, and none had been deployed if it
\* is the only one.
LEMMA BackedAfterCreate ==
    ASSUME TypeInv, SizeInv, [Next]_vars, NEW k \in Nat, TokensBacked(k),
           CreateToken, Works("token", "save")
    PROVE  TokensBacked(k + 1)'
<1> DEFINE h == Head(queue)
           p == h.job.msg
           new == NewToken(h.job.deviceId, p)
<1>a. /\ queue # <<>> /\ h = queue[1] /\ 1 \in DOMAIN queue /\ h.at = "token"
      /\ h.job.kind = "ingest" /\ p.op = "DEPLOY" /\ p.tick \in Ticks /\ Len(objects) \in Nat
  BY CreateWrites, LenProperties DEF TypeInv, TablesTyped
<1>b. PICK s \in Ticks, n \in Nat : s = p.tick /\ n = Len(objects) + 1
  BY <1>a
<1>1. /\ queue # <<>> /\ h = queue[1] /\ 1 \in DOMAIN queue /\ h.at = "token"
      /\ h.job.kind = "ingest" /\ p.op = "DEPLOY" /\ s = p.tick /\ s \in Ticks
      /\ n = Len(objects) + 1
  BY <1>a, <1>b
<1>2. events' = events /\ Len(objects) \in Nat /\ tokenAt \in [Ticks -> 0..Len(objects)]
  BY LenProperties DEF CreateToken, TypeInv, TablesTyped
<1>3. PICK c : AwaitAs(c) /\ c.job = h.job /\ c.at = "save"
  BY DEF Works
<1>4. /\ Len(objects') = n /\ objects'[n] = new
      /\ \A o \in 1..Len(objects) : objects'[o] = objects[o]
      /\ tokenAt' = [tokenAt EXCEPT ![s] = n]
  <2>1. ~\E code : Throw(code)
    <3> SUFFICES ASSUME NEW code, Throw(code) PROVE FALSE
      OBVIOUS
    <3>1. PICK b : AwaitAs(b) /\ b.at = "reject"
      BY <1>1, ThrowGoes
    <3>2. queue'[Len(queue)] = b /\ queue'[Len(queue)] = c
      BY <1>1, <1>3, <3>1, HeadPlaces
    <3> QED
      BY <1>3, <3>1, <3>2
  <2> QED
    BY <1>1, <2>1, CreateWrites
<1>5. new = [new EXCEPT !.totalSupply = 0] /\ new.totalSupply = 0
  BY DEF NewToken
<1> HIDE DEF new
<1>6. \A t \in Ticks : Minted(k, t) \in Nat /\ Minted(k + 1, t)' = Minted(k, t)
  <2> SUFFICES ASSUME NEW t \in Ticks
               PROVE  Minted(k, t) \in Nat /\ Minted(k + 1, t)' = Minted(k, t)
    OBVIOUS
  <2>1. /\ Share(h, Issued, "MINT", t, "any", Null) = 0
        /\ Share(c, Issued, "MINT", t, "any", Null) = 0
    BY <1>1, <1>3 DEF Share, Counts
  <2>2. /\ Minted(k, t) \in Nat
        /\ Minted(k + 1, t)' = Minted(k, t) - Share(h, Issued, "MINT", t, "any", Null)
                               + Share(c, Issued, "MINT", t, "any", Null)
    BY <1>1, <1>2, <1>3, MintedTurns
  <2> QED
    BY <2>1, <2>2
<1>7. \A t \in Ticks : Deploys(t)' = Deploys(t)
  BY <1>2, DeploysIfRowsKept
<1> DEFINE a == Item(k + 1, Len(queue), c.job)
<1>8. /\ a.deviceId = h.job.deviceId /\ a.msg = p /\ a \notin Deploying(k, s)
      /\ Deploying(k + 1, s)' = Deploying(k, s) \cup {a}
      /\ \A t \in Ticks : t # s => Deploying(k + 1, t)' = Deploying(k, t)
  <2>1. a.deviceId = h.job.deviceId /\ a.msg = p /\ a.turn = (k + 1) + Len(queue)
    BY <1>3 DEF Item
  <2>2. Len(queue) \in Nat
    BY <1>1, <1>3, HeadPlaces
  <2>3. ASSUME NEW t \in Ticks
        PROVE  /\ Deploying(k, t) = Rest(k, Settled, "DEPLOY", t, "any", Null)
               /\ \A x \in Deploying(k, t) : x.turn \in (k + 2)..(k + Len(queue))
               /\ Deploying(k + 1, t)' = Deploying(k, t)
                                         \cup (IF t = s THEN {a} ELSE {})
    <3>1. One(k, 1, h, Settled, "DEPLOY", t, "any", Null) = {}
      BY <1>1 DEF One, Counts, Stage, Settled
    <3>2. One(k + 1, Len(queue), c, Settled, "DEPLOY", t, "any", Null) = IF t = s THEN {a} ELSE {}
      BY <1>1, <1>3 DEF One, Counts, Stage, Settled, Plays
    <3>3. queue # <<>>
      BY <1>1
    <3>4. /\ Items(k, queue, Settled, "DEPLOY", t, "any", Null) =
                Rest(k, Settled, "DEPLOY", t, "any", Null)
                \cup One(k, 1, h, Settled, "DEPLOY", t, "any", Null)
          /\ \A x \in Rest(k, Settled, "DEPLOY", t, "any", Null) :
                x.turn \in (k + 2)..(k + Len(queue))
      BY <3>3, ItemsNow
    <3>5. Items(k + 1, queue', Settled, "DEPLOY", t, "any", Null) =
             Rest(k, Settled, "DEPLOY", t, "any", Null)
             \cup One(k + 1, Len(queue), c, Settled, "DEPLOY", t, "any", Null)
      BY <1>3, <3>3, ItemsTurned
    <3> HIDE DEF a
    <3> QED
      BY <3>1, <3>2, <3>4, <3>5 DEF Deploying
  <2> HIDE DEF a
  <2>4. a \notin Deploying(k, s)
    BY <1>1, <2>1, <2>2, <2>3
  <2> QED
    BY <1>1, <2>1, <2>3, <2>4
<1> HIDE DEF a
<1>9. OneDeploy(k + 1, s)' => NoDeploy(k, s)
  BY <1>1, <1>7, <1>8 DEF OneDeploy, NoDeploy
<1>10. ASSUME NEW t \in Ticks, t # s, OneDeploy(k + 1, t)'
       PROVE  OneDeploy(k, t)
  BY <1>7, <1>8, <1>10 DEF OneDeploy
<1>11. ASSUME NEW t \in Ticks, tokenAt'[t] = 0
       PROVE  NoDeploy(k + 1, t)' /\ Minted(k + 1, t)' = 0
  <2>1. t # s /\ tokenAt[t] = 0
    BY <1>1, <1>2, <1>4, <1>11
  <2>2. NoDeploy(k, t) /\ Minted(k, t) = 0
    BY <2>1 DEF TokensBacked
  <2> QED
    BY <1>6, <1>7, <1>8, <2>1, <2>2 DEF NoDeploy
\* Nobody has read an object before it is there.
<1>12. \A t \in Ticks : ~Refs(t, n)
  <2>1. \A i \in DOMAIN queue : queue[i].token <= Len(objects) /\ queue[i].token \in Nat
    BY DEF TypeInv, QueueTyped, Fits, Continuation
  <2> QED
    BY <1>1, <1>2, <2>1 DEF Refs
<1>13. ASSUME NEW t \in Ticks, NEW o \in 1..n, Refs(t, o)'
       PROVE  \/ o = n /\ t = s
              \/ o \in 1..Len(objects) /\ Refs(t, o)
  <2>1. o \in Nat /\ o # 0
    BY <1>2
  <2>2. tokenAt'[t] = o \/ Refs(t, o)
    BY <1>13, <2>1, RefsStep
  <2>3. CASE Refs(t, o)
    <3>1. o # n
      BY <1>12, <2>3
    <3> QED
      BY <1>1, <1>2, <2>3, <3>1
  <2>4. CASE tokenAt'[t] = o /\ ~Refs(t, o)
    BY <1>1, <1>2, <1>4, <2>4 DEF Refs
  <2> QED
    BY <2>2, <2>3, <2>4
\* Who refers to an old object of the ticker has a deploy behind it.
<1>14. NoDeploy(k, s) => \A o \in 1..Len(objects) : ~Refs(s, o)
  BY <1>1 DEF TokensBacked, Backed, HasTerms, NoDeploy
<1>15. NoDeploy(k, s) => Minted(k, s) = 0
  <2>1. tokenAt[s] \in 0..Len(objects)
    BY <1>1, <1>2
  <2>2. tokenAt[s] # 0 => Refs(s, tokenAt[s]) /\ tokenAt[s] \in 1..Len(objects)
    BY <1>2, <2>1 DEF Refs
  <2>3. NoDeploy(k, s) => tokenAt[s] = 0
    BY <1>14, <2>2
  <2> QED
    BY <1>1, <2>3 DEF TokensBacked
<1>16. Backed(k + 1, s, n)'
  <2>1. HasTerms(k + 1, s, n)'
    <3>1. a \in Deploying(k + 1, s)'
      BY <1>8
    <3>2. NewToken(a.deviceId, a.msg) = [objects'[n] EXCEPT !.totalSupply = 0]
      BY <1>4, <1>5, <1>8 DEF new
    <3> QED
      BY <3>1, <3>2 DEF HasTerms, NewToken
  <2>2. objects'[n].totalSupply = 0
    BY <1>4, <1>5
  <2>3. objects'[n].totalSupply <= Minted(k + 1, s)'
    BY <1>1, <1>6, <2>2
  <2>4. OneDeploy(k + 1, s)' => n = tokenAt'[s] /\ objects'[n].totalSupply = Minted(k + 1, s)'
    BY <1>1, <1>2, <1>4, <1>6, <1>9, <1>15, <2>2
  <2>5. \A u \in Ticks : Refs(u, n)' => u = s
    <3>1. n \in 1..n /\ n \notin 1..Len(objects)
      BY <1>1, <1>2
    <3> QED
      BY <1>13, <3>1
  <2> QED
    BY <2>1, <2>3, <2>4, <2>5 DEF Backed
<1>17. ASSUME NEW t \in Ticks, NEW o \in 1..Len(objects), Refs(t, o)
       PROVE  Backed(k + 1, t, o)'
  <2>1. Backed(k, t, o)
    BY <1>17 DEF TokensBacked
  <2>2. objects'[o] = objects[o]
    BY <1>4
  <2>3. HasTerms(k + 1, t, o)'
    <3>1. PICK x \in Deploys(t) \cup Deploying(k, t) :
            NewToken(x.deviceId, x.msg) = [objects[o] EXCEPT !.totalSupply = 0]
      BY <2>1 DEF Backed, HasTerms
    <3>2. x \in Deploys(t)' \cup Deploying(k + 1, t)'
      BY <1>7, <1>8, <3>1
    <3>3. NewToken(x.deviceId, x.msg) = [objects'[o] EXCEPT !.totalSupply = 0]
      BY <2>2, <3>1
    <3> QED
      BY <3>2, <3>3 DEF HasTerms, NewToken
  <2>4. objects'[o].totalSupply <= Minted(k + 1, t)'
    BY <1>6, <2>1, <2>2 DEF Backed
  <2>5. ASSUME OneDeploy(k + 1, t)'
        PROVE  o = tokenAt'[t] /\ objects'[o].totalSupply = Minted(k + 1, t)'
    <3>1. t # s
      BY <1>9, <1>14, <1>17, <2>5
    <3>2. OneDeploy(k, t)
      BY <1>10, <2>5, <3>1
    <3> QED
      BY <1>2, <1>4, <1>6, <2>1, <2>2, <3>1, <3>2 DEF Backed
  <2>6. \A u \in Ticks : Refs(u, o)' => u = t
    <3>1. o \in 1..n /\ o # n
      BY <1>1, <1>2
    <3> QED
      BY <1>13, <2>1, <3>1 DEF Backed
  <2> QED
    BY <2>3, <2>4, <2>5, <2>6 DEF Backed
<1>18. ASSUME NEW t \in Ticks, NEW o \in 1..n, Refs(t, o)'
       PROVE  Backed(k + 1, t, o)'
  BY <1>13, <1>16, <1>17, <1>18
<1> QED
  BY <1>4, <1>11, <1>18 DEF TokensBacked

-----------------------------------------------------------------------------

EffectsInv == \E k \in Nat : Balanced(k) /\ TokensBacked(k)

LEMMA EffectsInit == Init => EffectsInv
<1> SUFFICES ASSUME Init PROVE EffectsInv
  OBVIOUS
<1>1. /\ events = {} /\ queue = <<>> /\ objects = <<>> /\ tokenAt = [t \in Ticks |-> 0]
      /\ \A t \in Ticks, d \in DeviceIds : balances[t][d] = 0
  BY DEF Init, S!StoreInit, S!LedgerInit, S!TableInit
<1>2. DOMAIN queue = {} /\ Len(objects) = 0
  BY <1>1, EmptySeq
<1>3. \A stages, op, t, role, d :
         Rows(op, t, role, d) = {} /\ Items(0, queue, stages, op, t, role, d) = {}
  BY <1>1, <1>2 DEF Rows, EffectiveOp, Items
<1>4. SP!Moved({}) = 0
  BY StoreConstants, SP!MovedOfNone DEF SP!Moved
<1>5. \A stages, op, t, role, d : Sum(0, stages, op, t, role, d) = 0
  BY <1>3, <1>4 DEF Sum
<1>6. Balanced(0)
  BY <1>1, <1>5 DEF Balanced
<1>7. TokensBacked(0)
  <2>1. \A t : NoDeploy(0, t) /\ Minted(0, t) = 0
    BY <1>3, <1>5 DEF NoDeploy, Minted, Deploys, Deploying
  <2> QED
    BY <1>2, <2>1 DEF TokensBacked
<1> QED
  BY <1>6, <1>7 DEF EffectsInv

LEMMA EffectsStep ==
    ASSUME TypeInv, SizeInv, [Next]_vars, EffectsInv
    PROVE  EffectsInv'
<1>1. PICK k \in Nat : Balanced(k) /\ TokensBacked(k)
  BY DEF EffectsInv
<1>2. CASE Calm
  <2>1. PICK m \in {k, k + 1} : SumsKept(k, m) /\ DeploysKept(k, m)
    BY <1>2, CalmKeeps
  <2>2. balances' = balances /\ UNCHANGED tokenVars
    BY <1>2 DEF Calm, Arrive, LinkLorawanDevEui, AppendAccepted, AppendRejected, Idles
  <2>3. \A t \in Ticks : Minted(m, t)' = Minted(k, t)
    BY <2>1 DEF SumsKept, Minted, Stages, SumOps, Roles, Devices
  <2>4. Balanced(m)'
    BY <1>1, <2>1, <2>2, BalancedCalm
  <2>5. TokensBacked(m)'
    BY <1>1, <2>1, <2>2, <2>3, BackedIfKept
  <2> QED
    BY <2>4, <2>5 DEF EffectsInv
<1>3. CASE ~Calm
  <2>1. Balanced(k + 1)'
    BY <1>1, <1>3, BalancedStep
  <2>2. \/ CreateToken /\ Works("token", "save")
        \/ SaveToken /\ Works("token", "credit")
        \/ DebitSender /\ Works("debit", "credit")
        \/ CreditOwner
    BY <1>3, EffectSteps DEF Calm
  <2>3. TokensBacked(k + 1)'
    BY <1>1, <2>2, BackedAfterCreate, BackedAfterMint, BackedAfterTransfer
  <2>4. k + 1 \in Nat
    OBVIOUS
  <2> QED
    BY <2>1, <2>3, <2>4 DEF EffectsInv
<1> QED
  BY <1>2, <1>3

\* LedgerMatchesEffects: however the requests of a macrotask take turns, whichever
\* they are and however many, none of their updates is lost and none is made twice
\* (memory-store.js, indexer-service.js): once they are done the balances, the
\* tokens and their supplies are what the effective rows say.
THEOREM MemoryLedgerMatchesEffects == Spec => []LedgerMatchesEffects
<1>1. TypeInv /\ SizeInv /\ EffectsInv => LedgerMatchesEffects
  <2> SUFFICES ASSUME TypeInv, SizeInv, EffectsInv, queue = <<>>, NEW t \in Ticks
               PROVE  LET deploys == EffectiveOp("DEPLOY", t)
                          minted == S!Moved(EffectiveOp("MINT", t))
                      IN /\ tokens[t] = Null <=> deploys = {}
                         /\ tokens[t] # Null =>
                              /\ \E e \in deploys :
                                    NewToken(e.deviceId, e.msg) = [tokens[t] EXCEPT !.totalSupply = 0]
                              /\ tokens[t].totalSupply <= minted
                              /\ Cardinality(deploys) = 1 => tokens[t].totalSupply = minted
                         /\ \A d \in DeviceIds :
                               balances[t][d] =
                                   S!Moved({e \in EffectiveOp("MINT", t) : e.deviceId = d})
                                 + S!Moved({e \in EffectiveOp("TRANSFER", t) : e.msg.recipient = d})
                                 - S!Moved({e \in EffectiveOp("TRANSFER", t) : e.deviceId = d})
    BY DEF LedgerMatchesEffects, AtRest
  <2> DEFINE o == tokenAt[t]
  <2>1. PICK k \in Nat : Balanced(k) /\ TokensBacked(k)
    BY DEF EffectsInv
  <2>2. \A stages, op, role, d : Items(k, queue, stages, op, t, role, d) = {}
    BY EmptySeq DEF Items
  <2>3. ASSUME NEW stages, NEW op, NEW role, NEW d
        PROVE  /\ Sum(k, stages, op, t, role, d) = S!Moved(Rows(op, t, role, d))
               /\ S!Moved(Rows(op, t, role, d)) \in Nat
    <3>1. Rows(op, t, role, d) \subseteq events
      BY DEF Rows, EffectiveOp
    <3>2. /\ SP!Moved(Rows(op, t, role, d)) \in Nat
          /\ SP!Moved(Rows(op, t, role, d)) = S!Moved(Rows(op, t, role, d))
      BY <3>1, FS_Subset, MovedIsNat DEF SizeInv
    <3>3. SP!Moved({}) = 0
      BY StoreConstants, SP!MovedOfNone DEF SP!Moved
    <3>4. Items(k, queue, stages, op, t, role, d) = {}
      BY <2>2
    <3>5. Sum(k, stages, op, t, role, d) = SP!Moved(Rows(op, t, role, d)) + 0
      BY <3>3, <3>4 DEF Sum
    <3> QED
      BY <3>2, <3>5
  <2>4. \A op, d : /\ Rows(op, t, "any", d) = EffectiveOp(op, t)
                   /\ Rows(op, t, "by", d) = {e \in EffectiveOp(op, t) : e.deviceId = d}
                   /\ Rows(op, t, "to", d) = {e \in EffectiveOp(op, t) : e.msg.recipient = d}
    BY DEF Rows, Plays
  <2>5. Minted(k, t) = S!Moved(EffectiveOp("MINT", t)) /\ Minted(k, t) \in Nat
    BY <2>3, <2>4 DEF Minted
  <2>6. Deploys(t) = EffectiveOp("DEPLOY", t) /\ Deploying(k, t) = {}
    BY <2>2, <2>4 DEF Deploys, Deploying
  <2>7. o \in 0..Len(objects) /\ Len(objects) \in Nat
    BY LenProperties DEF TypeInv, TablesTyped
  <2>8. o # 0 => o \in 1..Len(objects) /\ Backed(k, t, o)
    BY <2>1, <2>7 DEF TokensBacked, Refs
  <2>9. o = 0 => EffectiveOp("DEPLOY", t) = {}
    BY <2>1, <2>6 DEF TokensBacked, NoDeploy
  <2>10. /\ tokens[t] = Null <=> o = 0
         /\ o # 0 => tokens[t] = objects[o]
    <3>1. o # 0 => objects[o] \in SoundToken
      BY <2>7, ElementOfSeq DEF TypeInv, TablesTyped
    <3>2. Null \notin SoundToken
      BY ProtocolAssumption DEF SoundToken
    <3> QED
      BY <3>1, <3>2 DEF tokens
  <2>11. o # 0 => \E e \in EffectiveOp("DEPLOY", t) :
                     NewToken(e.deviceId, e.msg) = [objects[o] EXCEPT !.totalSupply = 0]
    BY <2>6, <2>8 DEF Backed, HasTerms
  <2>12. o # 0 => objects[o].totalSupply <= S!Moved(EffectiveOp("MINT", t))
    BY <2>5, <2>8 DEF Backed
  <2>13. o # 0 /\ Cardinality(EffectiveOp("DEPLOY", t)) = 1 =>
            objects[o].totalSupply = S!Moved(EffectiveOp("MINT", t))
    <3> SUFFICES ASSUME o # 0, Cardinality(EffectiveOp("DEPLOY", t)) = 1
                 PROVE  objects[o].totalSupply = S!Moved(EffectiveOp("MINT", t))
      OBVIOUS
    <3>1. IsFiniteSet(EffectiveOp("DEPLOY", t))
      <4>1. EffectiveOp("DEPLOY", t) \subseteq events
        BY DEF EffectiveOp
      <4> QED
        BY <4>1, FS_Subset DEF SizeInv
    <3>2. \E x : EffectiveOp("DEPLOY", t) = {x}
      BY <3>1, FS_Singleton
    <3>3. OneDeploy(k, t)
      BY <2>6, <3>2 DEF OneDeploy
    <3> QED
      BY <2>5, <2>8, <3>3 DEF Backed
  <2>14. ASSUME NEW d \in DeviceIds
         PROVE  balances[t][d] = S!Moved({e \in EffectiveOp("MINT", t) : e.deviceId = d})
                   + S!Moved({e \in EffectiveOp("TRANSFER", t) : e.msg.recipient = d})
                   - S!Moved({e \in EffectiveOp("TRANSFER", t) : e.deviceId = d})
    <3>1. balances[t][d] = Sum(k, Settled, "MINT", t, "by", d)
                           + Sum(k, Settled, "TRANSFER", t, "to", d)
                           - Sum(k, Issued, "TRANSFER", t, "by", d)
      BY <2>1 DEF Balanced
    <3>2. /\ Sum(k, Settled, "MINT", t, "by", d) = S!Moved(Rows("MINT", t, "by", d))
          /\ Sum(k, Settled, "TRANSFER", t, "to", d) = S!Moved(Rows("TRANSFER", t, "to", d))
          /\ Sum(k, Issued, "TRANSFER", t, "by", d) = S!Moved(Rows("TRANSFER", t, "by", d))
      BY <2>3
    <3> QED
      BY <2>4, <3>1, <3>2
  <2> HIDE DEF o
  <2> QED
    BY <2>9, <2>10, <2>11, <2>12, <2>13, <2>14
<1>2. TypeInv /\ SizeInv /\ EffectsInv /\ [Next]_vars => EffectsInv'
  BY EffectsStep
<1> QED
  BY <1>1, <1>2, EffectsInit, TypeInvAlways, SizeInvAlways, PTL DEF Spec

-----------------------------------------------------------------------------
\* How far requests get.

\* A handler's awaits, in the order in which it comes to them.
Rank(label) ==
    CASE label = "start" -> 0
      [] label = "token" -> 1
      [] label = "recipient" -> 2
      [] label = "debit" -> 3
      [] label = "credit" -> 4
      [] label = "save" -> 5
      [] label \in {"append", "reject"} -> 6

\* The request at the head answers, or comes to a later await.
HeadAdvances ==
    /\ queue # <<>>
    /\ Return \/ \E c : /\ AwaitAs(c) /\ c.job = Head(queue).job
                        /\ Rank(Head(queue).at) < Rank(c.at)

RunsDown == [][queue' = queue \/ Arrive \/ Wait \/ HeadAdvances]_vars

LEMMA AwaitAdvances ==
    ASSUME TypeInv, queue # <<>>, NEW label, Await(label), Rank(Head(queue).at) < Rank(label)
    PROVE  HeadAdvances
BY AwaitGoes DEF HeadAdvances

LEMMA ThrowAdvances ==
    ASSUME TypeInv, queue # <<>>, NEW code, Throw(code), Rank(Head(queue).at) < 6
    PROVE  HeadAdvances
<1>1. PICK c : AwaitAs(c) /\ c.job = Head(queue).job /\ c.at = "reject"
  BY ThrowGoes
<1>2. Rank(c.at) = 6
  BY <1>1 DEF Rank
<1> QED
  BY <1>1, <1>2 DEF HeadAdvances

LEMMA SaveAdvances ==
    ASSUME TypeInv, queue # <<>>, NEW d, NEW device, SaveDevice(d, device), Rank(Head(queue).at) < 6
    PROVE  HeadAdvances
<1>1. Await("append") \/ Throw("lorawan_dev_eui_already_registered")
  BY DEF SaveDevice
<1>2. Rank("append") = 6
  BY DEF Rank
<1> QED
  BY <1>1, <1>2, AwaitAdvances, ThrowAdvances

\* No handler goes back to an await it has passed: a turn of the head brings its
\* answer nearer, unless it waits for what is not of the service.
THEOREM MemoryRunsDown == Spec => RunsDown
<1>1. TypeInv /\ [Next]_vars => [queue' = queue \/ Arrive \/ Wait \/ HeadAdvances]_vars
  <2> SUFFICES ASSUME TypeInv, Next PROVE queue' = queue \/ Arrive \/ Wait \/ HeadAdvances
    OBVIOUS
  <2> DEFINE h == Head(queue)
             p == h.job.msg
  <2>1. /\ Rank("start") = 0 /\ Rank("token") = 1 /\ Rank("recipient") = 2 /\ Rank("debit") = 3
        /\ Rank("credit") = 4 /\ Rank("save") = 5
    BY DEF Rank
  <2>2. CASE Begin
    <3> DEFINE b == [h EXCEPT !.at = "token", !.token = tokenAt[p.tick]]
    <3>1. /\ queue # <<>> /\ h.at = "start" /\ h \in Continuation
          /\ p.op \in {"DEPLOY", "MINT", "TRANSFER", "MESSAGE", "CONFIG"}
      BY <2>2, HeadRuns, PayloadFields DEF Begin
    <3>2. b.job = h.job /\ b.at = "token"
      BY <3>1, LabelsSet
    <3>3. \/ Await("recipient") \/ AwaitAs(b) \/ \E code : Throw(code)
          \/ \E d, device : SaveDevice(d, device)
      BY <2>2, <3>1 DEF Begin
    <3> HIDE DEF b
    <3>4. CASE AwaitAs(b)
      BY <2>1, <3>1, <3>2, <3>4 DEF HeadAdvances
    <3> QED
      BY <2>1, <3>1, <3>3, <3>4, AwaitAdvances, ThrowAdvances, SaveAdvances
  <2>3. CASE CheckRecipient
    <3> DEFINE b == [h EXCEPT !.at = "debit", !.funds = balances[p.tick][h.job.deviceId]]
    <3>1. /\ queue # <<>> /\ h.at = "recipient" /\ h \in Continuation
          /\ p.op \in {"TRANSFER", "MESSAGE"}
      BY <2>3, HeadRuns DEF CheckRecipient, Fits
    <3>2. b.job = h.job /\ b.at = "debit"
      BY <3>1, LabelsSet
    <3>3. AwaitAs(b) \/ (\E code : Throw(code)) \/ \E d, device : SaveDevice(d, device)
      BY <2>3, <3>1 DEF CheckRecipient
    <3> HIDE DEF b
    <3>4. CASE AwaitAs(b)
      BY <2>1, <3>1, <3>2, <3>4 DEF HeadAdvances
    <3> QED
      BY <2>1, <3>1, <3>3, <3>4, ThrowAdvances, SaveAdvances
  <2>4. CASE CreateToken \/ SaveToken \/ FindRecipient
    <3>1. /\ queue # <<>> /\ h.at = "token"
          /\ \/ Await("save") \/ Await("credit") \/ Await("recipient") \/ \E code : Throw(code)
      BY <2>4 DEF CreateToken, SaveToken, FindRecipient, Running
    <3> QED
      BY <2>1, <3>1, AwaitAdvances, ThrowAdvances
  <2>5. CASE DebitSender
    <3>1. queue # <<>> /\ h.at = "debit" /\ (Await("credit") \/ \E code : Throw(code))
      BY <2>5 DEF DebitSender, Running
    <3> QED
      BY <2>1, <3>1, AwaitAdvances, ThrowAdvances
  <2>6. CASE CreditOwner
    <3>1. queue # <<>> /\ h.at = "credit" /\ Await("save")
      BY <2>6 DEF CreditOwner, Running
    <3> QED
      BY <2>1, <3>1, AwaitAdvances
  <2>7. CASE SaveNonce
    <3>1. queue # <<>> /\ h.at = "save" /\ \E d, device : SaveDevice(d, device)
      BY <2>7 DEF SaveNonce, Running
    <3> QED
      BY <2>1, <3>1, SaveAdvances
  <2>8. CASE AppendAccepted \/ AppendRejected \/ LinkLorawanDevEui
    BY <2>8 DEF AppendAccepted, AppendRejected, LinkLorawanDevEui, Running, HeadAdvances
  <2>9. CASE RegisterDevice
    BY <2>9 DEF RegisterDevice
  <2> QED
    BY <2>2, <2>3, <2>4, <2>5, <2>6, <2>7, <2>8, <2>9 DEF Next
<1> QED
  BY <1>1, TypeInvAlways, PTL DEF Spec, RunsDown
=============================================================================
