---------------------------- MODULE StoreProofs ----------------------------
(***************************************************************************)
(* The tables, whichever store keeps them: conservation of token supply,   *)
(* and that a change of the ledger together with its row in the event log  *)
(* keeps the two in agreement, for any number of devices and tickers and   *)
(* any range of amounts.                                                   *)
(***************************************************************************)
EXTENDS Store, TLAPS, FiniteSetTheorems

-----------------------------------------------------------------------------
\* Sums of balance functions.

Balances == [DeviceIds -> Amounts]

\* A balance function has finitely many units.
LEMMA UnitsFinite ==
    ASSUME NEW f
    PROVE  IsFiniteSet(Units(f)) /\ Total(f) \in Nat
<1>1. IsFiniteSet(1..MaxAmount)
  BY FS_Interval, ProtocolAssumption
<1>2. IsFiniteSet(DeviceIds \X (1..MaxAmount))
  BY <1>1, FS_Product, ProtocolAssumption
<1>3. IsFiniteSet(Units(f))
  BY <1>2, FS_Subset DEF Units
<1> QED
  BY <1>3, FS_CardinalityType DEF Total

\* Nobody owns anything: the sum is zero.
LEMMA TotalOfZeros == Total([d \in DeviceIds |-> 0]) = 0
<1>1. Units([d \in DeviceIds |-> 0]) = {}
  BY DEF Units
<1> QED
  BY <1>1, FS_EmptySet DEF Total

\* The consecutive units of one device, those numbered m+1 to m+a.
UnitsAfter(d, m, a) == {d} \X (m+1 .. m+a)

\* They are a many.
LEMMA UnitRange ==
    ASSUME NEW d, NEW m \in Nat, NEW a \in Nat
    PROVE  /\ IsFiniteSet(UnitsAfter(d, m, a))
           /\ Cardinality(UnitsAfter(d, m, a)) = a
<1>1. IsFiniteSet({d}) /\ Cardinality({d}) = 1
  BY FS_Singleton
<1>2. IsFiniteSet(m+1 .. m+a) /\ Cardinality(m+1 .. m+a) = a
  <2>1. m+1 \in Int /\ m+a \in Int
    OBVIOUS
  <2>2. (IF m+1 > m+a THEN 0 ELSE (m+a) - (m+1) + 1) = a
    OBVIOUS
  <2> QED
    BY <2>1, <2>2, FS_Interval
<1> DEFINE R == m+1 .. m+a
<1>3. IsFiniteSet({d} \X R) /\ Cardinality({d} \X R) = Cardinality({d}) * Cardinality(R)
  <2> HIDE DEF R
  <2> QED
    BY <1>1, <1>2, FS_Product DEF R
<1>4. 1 * a = a
  OBVIOUS
<1> QED
  BY <1>1, <1>2, <1>3, <1>4 DEF UnitsAfter

\* Crediting a device adds the amount to the sum.
LEMMA TotalOfCredit ==
    ASSUME NEW f \in Balances, NEW d \in DeviceIds, NEW a \in Nat,
           f[d] + a <= MaxAmount
    PROVE  /\ Credit(f, d, a) \in Balances
           /\ Total(Credit(f, d, a)) = Total(f) + a
<1> DEFINE g == Credit(f, d, a)
           N == UnitsAfter(d, f[d], a)
<1>1. f[d] \in Nat /\ MaxAmount \in Nat
  BY ProtocolAssumption DEF Balances, Amounts
<1>2. g \in Balances
  BY <1>1 DEF Balances, Amounts, Credit
<1>3. Units(g) = Units(f) \cup N
  <2>1. ASSUME NEW u \in DeviceIds \X (1..MaxAmount)
        PROVE  u \in Units(g) <=> u \in Units(f) \/ u \in N
    <3>1. u[1] \in DeviceIds /\ u[2] \in 1..MaxAmount /\ u = <<u[1], u[2]>>
      OBVIOUS
    <3>2. CASE u[1] = d
      <4>1. g[u[1]] = f[d] + a
        BY <3>2 DEF Balances, Credit
      <4>2. u \in N <=> u[2] \in f[d]+1 .. f[d]+a
        BY <3>1, <3>2 DEF UnitsAfter
      <4> QED
        BY <4>1, <4>2, <3>1, <3>2, <1>1 DEF Units
    <3>3. CASE u[1] # d
      <4>1. g[u[1]] = f[u[1]]
        BY <3>1, <3>3 DEF Balances, Credit
      <4>2. u \notin N
        BY <3>3 DEF UnitsAfter
      <4> QED
        BY <4>1, <4>2 DEF Units
    <3> QED
      BY <3>2, <3>3
  <2>2. N \subseteq DeviceIds \X (1..MaxAmount)
    BY <1>1 DEF UnitsAfter
  <2> QED
    BY <2>1, <2>2 DEF Units
<1>4. Units(f) \cap N = {}
  BY <1>1 DEF Units, UnitsAfter
<1>5. Cardinality(Units(f) \cap N) = 0
  BY <1>4, FS_EmptySet
<1>6. IsFiniteSet(N) /\ Cardinality(N) = a
  BY <1>1, UnitRange
<1>7. IsFiniteSet(Units(f)) /\ Cardinality(Units(f)) \in Nat
  BY UnitsFinite DEF Total
<1>8. Cardinality(Units(f) \cup N) = Cardinality(Units(f)) + a
  <2>1. Cardinality(Units(f) \cup N) =
          Cardinality(Units(f)) + Cardinality(N) - Cardinality(Units(f) \cap N)
    BY <1>6, <1>7, FS_Union
  <2> QED
    BY <2>1, <1>5, <1>6, <1>7
<1> QED
  BY <1>2, <1>3, <1>8 DEF Total

\* Debiting a device that has the amount takes it from the sum.
LEMMA TotalOfDebit ==
    ASSUME NEW f \in Balances, NEW d \in DeviceIds, NEW a \in Nat, a <= f[d]
    PROVE  /\ Debit(f, d, a) \in Balances
           /\ Total(Debit(f, d, a)) = Total(f) - a
<1> DEFINE g == Debit(f, d, a)
<1>1. f[d] \in Nat /\ f[d] <= MaxAmount
  BY ProtocolAssumption DEF Balances, Amounts
<1>2. g \in Balances /\ g[d] + a = f[d]
  BY <1>1, ProtocolAssumption DEF Balances, Amounts, Debit
<1>3. Credit(g, d, a) = f
  BY <1>1, <1>2 DEF Balances, Credit, Debit
<1>4. Total(f) = Total(g) + a
  BY <1>1, <1>2, <1>3, TotalOfCredit
<1>5. Total(g) \in Nat
  BY UnitsFinite
<1> QED
  BY <1>2, <1>4, <1>5

\* Nobody owns more than the sum.
LEMMA HoldingWithinTotal ==
    ASSUME NEW f \in Balances, NEW d \in DeviceIds
    PROVE  f[d] <= Total(f)
<1> DEFINE N == UnitsAfter(d, 0, f[d])
<1>1. f[d] \in Nat /\ f[d] <= MaxAmount
  BY ProtocolAssumption DEF Balances, Amounts
<1>2. IsFiniteSet(N) /\ Cardinality(N) = f[d]
  BY <1>1, UnitRange
<1>3. N \subseteq Units(f)
  BY <1>1, ProtocolAssumption DEF Units, UnitsAfter
<1> QED
  BY <1>2, <1>3, UnitsFinite, FS_Subset DEF Total

-----------------------------------------------------------------------------
\* The inductive invariant.

LedgerInv == LedgerTypeOK /\ SupplyBacked /\ SupplyCapped

\* No token, no units: the invariant holds at the start.
LEMMA LedgerInvInit == LedgerInit => LedgerInv
<1> SUFFICES ASSUME LedgerInit PROVE LedgerInv
  OBVIOUS
<1>1. LedgerTypeOK
  BY ProtocolAssumption DEF LedgerInit, LedgerTypeOK, Amounts
<1>2. SupplyBacked
  BY TotalOfZeros DEF LedgerInit, SupplyBacked
<1>3. SupplyCapped
  BY DEF LedgerInit, SupplyCapped
<1> QED
  BY <1>1, <1>2, <1>3 DEF LedgerInv

\* What the invariant says of one ticker.
LEMMA OneTicker ==
    ASSUME LedgerInv, NEW t \in Ticks
    PROVE  /\ balances[t] \in Balances
           /\ Total(balances[t]) \in Nat
           /\ tokens[t] # Null =>
                /\ tokens[t] \in Token
                /\ tokens[t].totalSupply \in Nat
                /\ tokens[t].maxSupply \in Nat
                /\ tokens[t].maxSupply <= MaxAmount
                /\ Total(balances[t]) = tokens[t].totalSupply
                /\ tokens[t].totalSupply <= tokens[t].maxSupply
           /\ tokens[t] = Null => Total(balances[t]) = 0
<1>1. balances[t] \in Balances
  BY DEF LedgerInv, LedgerTypeOK, Balances
<1>2. Total(balances[t]) \in Nat
  BY UnitsFinite
<1>3. ASSUME tokens[t] # Null
      PROVE  /\ tokens[t] \in Token
             /\ tokens[t].totalSupply \in Nat
             /\ tokens[t].maxSupply \in Nat
             /\ tokens[t].maxSupply <= MaxAmount
  BY <1>3, ProtocolAssumption DEF LedgerInv, LedgerTypeOK, Token, Amounts
<1> QED
  BY <1>1, <1>2, <1>3 DEF LedgerInv, SupplyBacked, SupplyCapped

\* A deploy adds a token without supply where there was none.
LEMMA DeployKeepsInv ==
    ASSUME LedgerInv, NEW d \in DeviceIds, NEW t \in Ticks,
           NEW maxSupply \in Amounts, NEW limitPerMint \in Amounts,
           Deploy(d, t, maxSupply, limitPerMint)
    PROVE  LedgerInv'
<1> DEFINE new == [createdByDeviceId |-> d, maxSupply |-> maxSupply,
                   limitPerMint |-> limitPerMint, totalSupply |-> 0]
<1>1. new \in Token /\ new # Null
  BY ProtocolAssumption DEF Token, Amounts
<1>2. /\ tokens' = [tokens EXCEPT ![t] = new]
      /\ balances' = balances
      /\ tokens[t] = Null /\ 0 < limitPerMint /\ limitPerMint <= maxSupply
  BY DEF Deploy
<1>3. tokens \in [Ticks -> Token \cup {Null}]
  BY DEF LedgerInv, LedgerTypeOK
<1>4. LedgerTypeOK'
  BY <1>1, <1>2, <1>3 DEF LedgerInv, LedgerTypeOK
<1>5. \A s \in Ticks : tokens'[s] = IF s = t THEN new ELSE tokens[s]
  BY <1>2, <1>3
<1>6. SupplyBacked'
  BY <1>1, <1>2, <1>5 DEF LedgerInv, SupplyBacked
<1>7. SupplyCapped'
  BY <1>1, <1>2, <1>5, ProtocolAssumption DEF LedgerInv, SupplyCapped, Amounts
<1> QED
  BY <1>4, <1>6, <1>7 DEF LedgerInv

\* A mint adds the same amount to the supply and to one balance, and the cap
\* keeps that balance within its type.
LEMMA MintKeepsInv ==
    ASSUME LedgerInv, NEW d \in DeviceIds, NEW t \in Ticks,
           NEW amount \in Amounts, Mint(d, t, amount)
    PROVE  LedgerInv'
<1> DEFINE new == [tokens[t] EXCEPT !.totalSupply = @ + amount]
           f == balances[t]
<1>1. /\ tokens[t] # Null
      /\ tokens' = [tokens EXCEPT ![t] = new]
      /\ balances' = [balances EXCEPT ![t] = Credit(f, d, amount)]
      /\ tokens[t].totalSupply + amount <= tokens[t].maxSupply
  BY DEF Mint
<1>2. amount \in Nat
  BY ProtocolAssumption DEF Amounts
<1>3. f[d] <= Total(f) /\ f[d] \in Nat
  BY OneTicker, HoldingWithinTotal, ProtocolAssumption DEF Balances, Amounts
<1>4. f[d] + amount <= MaxAmount
  BY <1>1, <1>2, <1>3, OneTicker, ProtocolAssumption
<1>5. /\ Credit(f, d, amount) \in Balances
      /\ Total(Credit(f, d, amount)) = Total(f) + amount
  BY <1>2, <1>4, OneTicker, TotalOfCredit
<1>6. /\ new \in Token /\ new # Null
      /\ new.totalSupply = tokens[t].totalSupply + amount
      /\ new.maxSupply = tokens[t].maxSupply
      /\ new.limitPerMint = tokens[t].limitPerMint
  BY <1>1, <1>2, OneTicker, ProtocolAssumption DEF Token, Amounts
<1>7. /\ tokens \in [Ticks -> Token \cup {Null}]
      /\ balances \in [Ticks -> Balances]
  BY DEF LedgerInv, LedgerTypeOK, Balances
<1>8. \A s \in Ticks : /\ tokens'[s] = IF s = t THEN new ELSE tokens[s]
                       /\ balances'[s] = IF s = t THEN Credit(f, d, amount) ELSE balances[s]
  BY <1>1, <1>7
<1>9. LedgerTypeOK'
  BY <1>1, <1>5, <1>6, <1>7 DEF LedgerTypeOK, Balances
<1>10. SupplyBacked'
  <2> SUFFICES ASSUME NEW s \in Ticks
               PROVE  Total(balances'[s]) =
                        IF tokens'[s] = Null THEN 0 ELSE tokens'[s].totalSupply
    BY DEF SupplyBacked
  <2>1. CASE s = t
    BY <2>1, <1>1, <1>5, <1>6, <1>8, OneTicker
  <2>2. CASE s # t
    BY <2>2, <1>8 DEF LedgerInv, SupplyBacked
  <2> QED
    BY <2>1, <2>2
<1>11. SupplyCapped'
  BY <1>1, <1>6, <1>8 DEF LedgerInv, SupplyCapped
<1> QED
  BY <1>9, <1>10, <1>11 DEF LedgerInv

\* A transfer moves units inside one sum.
LEMMA TransferKeepsInv ==
    ASSUME LedgerInv, NEW d \in DeviceIds, NEW recipient \in DeviceIds,
           NEW t \in Ticks, NEW amount \in Amounts,
           Transfer(d, recipient, t, amount)
    PROVE  LedgerInv'
<1> DEFINE f == balances[t]
           g == Debit(f, d, amount)
           h == Credit(g, recipient, amount)
<1>1. /\ tokens[t] # Null /\ tokens' = tokens
      /\ balances' = [balances EXCEPT ![t] = h]
      /\ amount <= f[d]
  BY DEF Transfer
<1>2. amount \in Nat /\ MaxAmount \in Nat
  BY ProtocolAssumption DEF Amounts
<1>3. f \in Balances /\ Total(f) \in Nat /\ Total(f) <= MaxAmount
  BY <1>1, <1>2, OneTicker
<1>4. g \in Balances /\ Total(g) = Total(f) - amount
  BY <1>1, <1>2, <1>3, TotalOfDebit
<1>5. g[recipient] <= Total(g) /\ g[recipient] \in Nat
  BY <1>4, HoldingWithinTotal, ProtocolAssumption DEF Balances, Amounts
<1>6. g[recipient] + amount <= MaxAmount
  BY <1>2, <1>3, <1>4, <1>5
<1>7. h \in Balances /\ Total(h) = Total(g) + amount
  BY <1>2, <1>4, <1>6, TotalOfCredit
<1>8. Total(h) = Total(f)
  BY <1>2, <1>3, <1>4, <1>7
<1>9. balances \in [Ticks -> Balances]
  BY DEF LedgerInv, LedgerTypeOK, Balances
<1>10. LedgerTypeOK'
  BY <1>1, <1>7, <1>9 DEF LedgerInv, LedgerTypeOK, Balances
<1>11. SupplyBacked'
  <2> HIDE DEF h
  <2> QED
    BY <1>1, <1>8, <1>9 DEF LedgerInv, SupplyBacked
<1>12. SupplyCapped'
  BY <1>1 DEF LedgerInv, SupplyCapped
<1> QED
  BY <1>10, <1>11, <1>12 DEF LedgerInv

\* Every step of the ledger keeps the invariant.
LEMMA LedgerInvStep == LedgerInv /\ [LedgerNext]_ledgerVars => LedgerInv'
<1> SUFFICES ASSUME LedgerInv, [LedgerNext]_ledgerVars PROVE LedgerInv'
  OBVIOUS
<1>1. CASE LedgerNext
  BY <1>1, DeployKeepsInv, MintKeepsInv, TransferKeepsInv DEF LedgerNext
<1>2. CASE UNCHANGED ledgerVars
  BY <1>2 DEF ledgerVars, LedgerInv, LedgerTypeOK, SupplyBacked, SupplyCapped
<1> QED
  BY <1>1, <1>2

-----------------------------------------------------------------------------
\* Payloads.

\* The fields a payload has, by operation.
LEMMA PayloadFields ==
    ASSUME NEW p \in Payloads
    PROVE  /\ p.op \in {"DEPLOY", "MINT", "TRANSFER", "MESSAGE", "CONFIG"}
           /\ p.nonce \in Nat /\ p.nonce \in Nonces
           /\ p.op = "DEPLOY" => /\ p.tick \in Ticks
                                 /\ p.maxSupply \in Amounts /\ p.maxSupply \in Nat
                                 /\ p.limitPerMint \in Amounts /\ p.limitPerMint \in Nat
           /\ p.op = "MINT" => p.tick \in Ticks /\ p.amount \in Amounts /\ p.amount \in Nat
           /\ p.op = "TRANSFER" => /\ p.tick \in Ticks /\ p.recipient \in DeviceIds
                                   /\ p.amount \in Amounts /\ p.amount \in Nat
           /\ p.op = "CONFIG" => p.enabled \in BOOLEAN /\ p.interval \in Intervals
<1>1. CASE p \in DeployPayload
  BY <1>1, ProtocolAssumption DEF DeployPayload, Amounts, Nonces
<1>2. CASE p \in MintPayload
  BY <1>2, ProtocolAssumption DEF MintPayload, Amounts, Nonces
<1>3. CASE p \in TransferPayload
  BY <1>3, ProtocolAssumption DEF TransferPayload, Amounts, Nonces
<1>4. CASE p \in MessagePayload
  BY <1>4, ProtocolAssumption DEF MessagePayload, Nonces
<1>5. CASE p \in ConfigPayload
  BY <1>5, ProtocolAssumption DEF ConfigPayload, Nonces
<1> QED
  BY <1>1, <1>2, <1>3, <1>4, <1>5, ProtocolAssumption

-----------------------------------------------------------------------------

\* Whatever implements the ledger keeps, forever: amounts in range, the sum of
\* each token's balances equal to its supply, and the supply within the cap.
THEOREM LedgerConserves == LedgerSpec => [](LedgerTypeOK /\ SupplyBacked /\ SupplyCapped)
<1> QED
  BY LedgerInvInit, LedgerInvStep, PTL DEF LedgerSpec, LedgerInv

\* One step of the ledger leaves the terms of every token deployed before it.
LEMMA StepKeepsTerms ==
    ASSUME LedgerInv, [LedgerNext]_ledgerVars, NEW t \in Ticks, tokens[t] # Null
    PROVE  /\ tokens'[t] # Null
           /\ tokens'[t].createdByDeviceId = tokens[t].createdByDeviceId
           /\ tokens'[t].maxSupply = tokens[t].maxSupply
           /\ tokens'[t].limitPerMint = tokens[t].limitPerMint
           /\ tokens'[t].totalSupply >= tokens[t].totalSupply
           /\ tokens'[t].totalSupply - tokens[t].totalSupply <= tokens[t].limitPerMint
<1>1. /\ tokens \in [Ticks -> Token \cup {Null}]
      /\ tokens[t] \in Token /\ tokens[t].totalSupply \in Nat /\ tokens[t].limitPerMint \in Nat
  BY ProtocolAssumption DEF LedgerInv, LedgerTypeOK, Token, Amounts
<1>2. ASSUME NEW d \in DeviceIds, NEW s \in Ticks,
             NEW maxSupply \in Amounts, NEW limitPerMint \in Amounts,
             Deploy(d, s, maxSupply, limitPerMint)
      PROVE  tokens'[t] = tokens[t]
  BY <1>1, <1>2 DEF Deploy
<1>3. ASSUME NEW d \in DeviceIds, NEW s \in Ticks, NEW amount \in Amounts, Mint(d, s, amount)
      PROVE  \/ tokens'[t] = tokens[t]
             \/ /\ tokens'[t] = [tokens[t] EXCEPT !.totalSupply = @ + amount]
                /\ amount \in Nat /\ amount <= tokens[t].limitPerMint
                /\ tokens[t].totalSupply + amount <= tokens[t].maxSupply
  BY <1>1, <1>3, ProtocolAssumption DEF Mint, Amounts
<1>4. tokens'[t] = tokens[t] \/ \E amount \in Nat :
         /\ tokens'[t] = [tokens[t] EXCEPT !.totalSupply = @ + amount]
         /\ amount <= tokens[t].limitPerMint
         /\ tokens[t].totalSupply + amount <= tokens[t].maxSupply
  BY <1>2, <1>3 DEF LedgerNext, Transfer, ledgerVars
<1>5. ASSUME NEW amount \in Nat,
             tokens'[t] = [tokens[t] EXCEPT !.totalSupply = @ + amount],
             tokens[t].totalSupply + amount <= tokens[t].maxSupply
      PROVE  /\ tokens'[t] # Null
             /\ tokens'[t].createdByDeviceId = tokens[t].createdByDeviceId
             /\ tokens'[t].maxSupply = tokens[t].maxSupply
             /\ tokens'[t].limitPerMint = tokens[t].limitPerMint
             /\ tokens'[t].totalSupply = tokens[t].totalSupply + amount
  <2>1. /\ tokens'[t].createdByDeviceId = tokens[t].createdByDeviceId
        /\ tokens'[t].maxSupply = tokens[t].maxSupply
        /\ tokens'[t].limitPerMint = tokens[t].limitPerMint
        /\ tokens'[t].totalSupply = tokens[t].totalSupply + amount
    BY <1>1, <1>5 DEF Token
  <2>2. tokens'[t] \in Token
    BY <1>1, <1>5, ProtocolAssumption DEF Token, Amounts
  <2> QED
    BY <2>1, <2>2, ProtocolAssumption
<1>6. CASE tokens'[t] = tokens[t]
  BY <1>1, <1>6
<1>7. CASE tokens'[t] # tokens[t]
  <2>1. PICK amount \in Nat :
          /\ tokens'[t] = [tokens[t] EXCEPT !.totalSupply = @ + amount]
          /\ amount <= tokens[t].limitPerMint
          /\ tokens[t].totalSupply + amount <= tokens[t].maxSupply
    BY <1>4, <1>7
  <2> QED
    BY <1>1, <1>5, <2>1
<1> QED
  BY <1>6, <1>7

\* Whatever implements the ledger never changes the terms of a deployed token.
THEOREM LedgerTermsAreFinal == LedgerSpec => TermsAreFinal
<1>1. LedgerInv /\ [LedgerNext]_ledgerVars =>
        [\A t \in Ticks : tokens[t] # Null =>
           /\ tokens'[t] # Null
           /\ tokens'[t].createdByDeviceId = tokens[t].createdByDeviceId
           /\ tokens'[t].maxSupply = tokens[t].maxSupply
           /\ tokens'[t].limitPerMint = tokens[t].limitPerMint
           /\ tokens'[t].totalSupply >= tokens[t].totalSupply
           /\ tokens'[t].totalSupply - tokens[t].totalSupply <= tokens[t].limitPerMint]_ledgerVars
  BY StepKeepsTerms
<1> QED
  BY <1>1, LedgerInvInit, LedgerInvStep, PTL DEF LedgerSpec, TermsAreFinal

-----------------------------------------------------------------------------
\* The event log: what is appended and what is lost.

\* Recording an event: the log gains at most the new row, and may lose others.
LEMMA AppendEventAdds ==
    ASSUME NEW status, NEW reason, NEW d, NEW p, AppendEvent(status, reason, d, p)
    PROVE  /\ recorded' = recorded + 1 /\ recorded < MaxEvents
           /\ events' \subseteq events \cup {Event(recorded + 1, status, reason, d, p)}
BY DEF AppendEvent, Prunings

\* Pruning takes messages only: any other new row is in the log.
LEMMA AppendEventKeeps ==
    ASSUME NEW status, NEW reason, NEW d, NEW p, AppendEvent(status, reason, d, p),
           p.op # "MESSAGE"
    PROVE  Event(recorded + 1, status, reason, d, p) \in events'
BY DEF AppendEvent, Prunings, Event

\* And any other old row stays there.
LEMMA AppendEventLoses ==
    ASSUME NEW status, NEW reason, NEW d, NEW p, AppendEvent(status, reason, d, p),
           NEW e \in events, e.msg.op # "MESSAGE"
    PROVE  e \in events'
BY DEF AppendEvent, Prunings

\* The new row, and the old ones seen from the new count, have their types.
LogTyped == recorded \in 0..MaxEvents /\ events \subseteq EventRow

LEMMA AppendEventTyped ==
    ASSUME LogTyped, NEW status \in {"accepted", "rejected"},
           NEW reason \in Reasons \cup StoreErrors, NEW d \in DeviceIds, NEW p \in Payloads,
           AppendEvent(status, reason, d, p)
    PROVE  LogTyped'
<1> DEFINE row == Event(recorded + 1, status, reason, d, p)
<1>1. /\ recorded' = recorded + 1 /\ recorded < MaxEvents
      /\ events' \subseteq events \cup {row}
  BY AppendEventAdds
<1>2. recorded \in Nat /\ MaxEvents \in Nat
  BY StoreAssumption DEF LogTyped
<1>3. row \in EventRow'
  BY <1>1, <1>2 DEF Event, EventRow
<1>4. EventRow \subseteq EventRow'
  BY <1>1, <1>2 DEF EventRow
<1> QED
  BY <1>1, <1>2, <1>3, <1>4 DEF LogTyped

\* A rejection on record is not an acceptance, whatever its reason.
LEMMA RejectedKeepsOrder ==
    ASSUME AcceptedNoncesIncrease, NEW error, NEW d, NEW p,
           AppendEvent("rejected", error, d, p), devices' = devices
    PROVE  AcceptedNoncesIncrease'
<1>1. \A c \in DeviceIds : Accepted(c)' \subseteq Accepted(c)
  BY AppendEventAdds DEF Accepted, Event
<1> QED
  BY <1>1 DEF AcceptedNoncesIncrease

\* An accepted payload's row comes after all others and its nonce exceeds
\* theirs: it is fresh, and lastNonce is behind none of them.
LEMMA AcceptedKeepsOrder ==
    ASSUME devices \in [DeviceIds -> Device \cup {Null}], LogTyped, AcceptedNoncesIncrease,
           NEW d \in DeviceIds, NEW p \in Payloads, FreshNonce(devices[d], p.nonce),
           AppendEvent("accepted", NoError, d, p),
           NEW device \in Device, device.lastNonce = p.nonce,
           devices' = [devices EXCEPT ![d] = device]
    PROVE  AcceptedNoncesIncrease'
<1> DEFINE new == Event(recorded + 1, "accepted", NoError, d, p)
<1>1. events' \subseteq events \cup {new}
  BY AppendEventAdds
<1>2. recorded \in Nat /\ MaxEvents \in Nat
  BY StoreAssumption DEF LogTyped
<1>3. /\ new.at = recorded + 1 /\ new.status = "accepted"
      /\ new.deviceId = d /\ new.msg = p
  BY DEF Event
<1>4. ASSUME NEW c \in DeviceIds, c # d PROVE Accepted(c)' \subseteq Accepted(c)
  BY <1>1, <1>3, <1>4 DEF Accepted
<1>5. Accepted(d)' \subseteq Accepted(d) \cup {new}
  BY <1>1 DEF Accepted
<1>6. \A e \in Accepted(d) : e.at \in Nat /\ e.at <= recorded /\ e.msg \in Payloads
  BY <1>2 DEF LogTyped, EventRow, Accepted
<1>7. p.nonce \in Nat /\ p.nonce # Null
  BY PayloadFields, ProtocolAssumption
<1>8. ASSUME NEW e \in Accepted(d) PROVE e.msg.nonce \in Nat /\ e.msg.nonce < p.nonce
  <2>1. e.msg.nonce \in Nat
    BY <1>6, PayloadFields
  <2>2. /\ devices[d] # Null /\ devices[d].lastNonce # Null
        /\ e.msg.nonce <= devices[d].lastNonce
    BY DEF AcceptedNoncesIncrease
  <2>3. devices[d].lastNonce \in Nat
    BY <2>2, ProtocolAssumption DEF Device, Nonces
  <2>4. p.nonce > devices[d].lastNonce
    BY <2>2 DEF FreshNonce
  <2> QED
    BY <2>1, <2>2, <2>3, <2>4, <1>7
<1>9. devices'[d] = device /\ device # Null
  BY ProtocolAssumption
<1> SUFFICES ASSUME NEW c \in DeviceIds, NEW e \in Accepted(c)'
             PROVE  /\ devices'[c] # Null /\ devices'[c].lastNonce # Null
                    /\ e.msg.nonce <= devices'[c].lastNonce
                    /\ \A f \in Accepted(c)' : e.at < f.at => e.msg.nonce < f.msg.nonce
  BY DEF AcceptedNoncesIncrease
<1>10. CASE c # d
  <2>1. devices'[c] = devices[c] /\ Accepted(c)' \subseteq Accepted(c)
    BY <1>10, <1>4
  <2> QED
    BY <2>1 DEF AcceptedNoncesIncrease
<1>11. CASE c = d /\ e \in Accepted(d)
  <2>1. ASSUME NEW f \in Accepted(d)', e.at < f.at PROVE e.msg.nonce < f.msg.nonce
    <3>1. CASE f = new
      BY <3>1, <1>11, <1>3, <1>8
    <3>2. CASE f \in Accepted(d)
      BY <3>2, <2>1, <1>11 DEF AcceptedNoncesIncrease
    <3> QED
      BY <3>1, <3>2, <1>5
  <2> QED
    BY <1>11, <2>1, <1>7, <1>8, <1>9
<1>12. CASE c = d /\ e = new
  <2>1. ASSUME NEW f \in Accepted(d)', e.at < f.at PROVE FALSE
    BY <2>1, <1>12, <1>2, <1>3, <1>5, <1>6
  <2> QED
    BY <1>12, <2>1, <1>3, <1>7, <1>9
<1> QED
  BY <1>10, <1>11, <1>12, <1>5

\* Rows are told apart by their place.
RowsApart == \A e, f \in events : e.at = f.at => e = f

LEMMA RowsApartStep ==
    ASSUME LogTyped, RowsApart, NEW status, NEW error, NEW d, NEW p,
           AppendEvent(status, error, d, p)
    PROVE  RowsApart'
<1> DEFINE new == Event(recorded + 1, status, error, d, p)
<1>1. events' \subseteq events \cup {new}
  BY AppendEventAdds
<1>2. new.at = recorded + 1
  BY DEF Event
<1> HIDE DEF new
<1>3. \A e \in events : e.at \in Nat /\ e.at <= recorded
  BY StoreAssumption DEF LogTyped, EventRow
<1>4. recorded \in Nat
  BY StoreAssumption DEF LogTyped
<1>5. \A e \in events : e.at # new.at
  BY <1>2, <1>3, <1>4
<1> QED
  BY <1>1, <1>5 DEF RowsApart

\* What is accepted twice has twice the same nonce.
LEMMA IncreasingIsOnce ==
    ASSUME LogTyped, RowsApart, AcceptedNoncesIncrease PROVE PayloadAppliedOnce
<1> SUFFICES ASSUME NEW e \in events, NEW f \in events,
                    e.status = "accepted", f.status = "accepted",
                    e.deviceId = f.deviceId, e.msg = f.msg
             PROVE  e = f
  BY DEF PayloadAppliedOnce
<1>1. /\ e.deviceId \in DeviceIds /\ e.msg \in Payloads
      /\ e.at \in Int /\ f.at \in Int
  BY DEF LogTyped, EventRow
<1>2. e \in Accepted(e.deviceId) /\ f \in Accepted(e.deviceId)
  BY DEF Accepted
<1>3. /\ e.at < f.at => e.msg.nonce < f.msg.nonce
      /\ f.at < e.at => f.msg.nonce < e.msg.nonce
  BY <1>1, <1>2 DEF AcceptedNoncesIncrease
<1>4. e.msg.nonce \in Nat
  BY <1>1, PayloadFields
<1>5. e.at = f.at
  BY <1>1, <1>3, <1>4
<1> QED
  BY <1>5 DEF RowsApart

\* The rows of the log, as far as the ledger is concerned.
RowsLogged ==
    /\ recorded \in Nat
    /\ IsFiniteSet(events)
    /\ \A e \in events : /\ e.at \in 1..recorded
                          /\ e.deviceId \in DeviceIds /\ e.msg \in Payloads

LEMMA RowsLoggedStep ==
    ASSUME RowsLogged, NEW status, NEW reason, NEW d \in DeviceIds, NEW p \in Payloads,
           AppendEvent(status, reason, d, p)
    PROVE  RowsLogged'
<1> DEFINE row == Event(recorded + 1, status, reason, d, p)
<1>1. /\ recorded' = recorded + 1 /\ recorded \in Nat
      /\ events' \subseteq events \cup {row}
  BY AppendEventAdds DEF RowsLogged
<1>2. row.at = recorded + 1 /\ row.deviceId = d /\ row.msg = p
  BY DEF Event
<1> HIDE DEF row
<1>3. IsFiniteSet(events \cup {row})
  BY FS_AddElement DEF RowsLogged
<1>4. IsFiniteSet(events')
  BY <1>1, <1>3, FS_Subset
<1>5. \A e \in events' : /\ e.at \in 1..(recorded + 1)
                         /\ e.deviceId \in DeviceIds /\ e.msg \in Payloads
  BY <1>1, <1>2 DEF RowsLogged
<1> QED
  BY <1>1, <1>4, <1>5 DEF RowsLogged

LoggedOps == {"DEPLOY", "MINT", "TRANSFER"}

\* What an append does to the accepted rows of one operation and ticker.
LEMMA AcceptedOpAppend ==
    ASSUME RowsLogged, NEW status, NEW reason, NEW d, NEW p,
           AppendEvent(status, reason, d, p), NEW op \in LoggedOps, NEW t
    PROVE  LET row == Event(recorded + 1, status, reason, d, p)
           IN /\ row \notin events
              /\ AcceptedOp(op, t)' =
                    IF status = "accepted" /\ p.op = op /\ p.tick = t
                    THEN AcceptedOp(op, t) \cup {row} ELSE AcceptedOp(op, t)
<1> DEFINE row == Event(recorded + 1, status, reason, d, p)
<1>1. row.at = recorded + 1 /\ row.status = status /\ row.msg = p
  BY DEF Event
<1>2. events' \subseteq events \cup {row}
  BY AppendEventAdds
<1>3. p.op = op => row \in events'
  BY AppendEventKeeps DEF LoggedOps
<1>4. \A e \in AcceptedOp(op, t) : e \in events'
  BY AppendEventLoses DEF AcceptedOp, LoggedOps
<1> HIDE DEF row
<1>5. row \notin events
  BY <1>1 DEF RowsLogged
<1>6. ASSUME NEW e
      PROVE  e \in AcceptedOp(op, t)' <=>
               \/ e \in AcceptedOp(op, t)
               \/ e = row /\ status = "accepted" /\ p.op = op /\ p.tick = t
  BY <1>1, <1>2, <1>3, <1>4 DEF AcceptedOp
<1>7. AcceptedOp(op, t)' = IF status = "accepted" /\ p.op = op /\ p.tick = t
                           THEN AcceptedOp(op, t) \cup {row} ELSE AcceptedOp(op, t)
  BY <1>6
<1> QED
  BY <1>5, <1>7 DEF row

-----------------------------------------------------------------------------
\* Sums over rows.

\* Finitely many rows move finitely many units, and none move none.
LEMMA MovedIsNat ==
    ASSUME NEW R, IsFiniteSet(R)
    PROVE  /\ IsFiniteSet({u \in R \X (1..MaxAmount) : u[2] <= u[1].msg.amount})
           /\ Moved(R) \in Nat
<1> DEFINE I == 1..MaxAmount
           U == {u \in R \X I : u[2] <= u[1].msg.amount}
<1>1. IsFiniteSet(I)
  BY FS_Interval, ProtocolAssumption
<1> HIDE DEF I
<1>2. IsFiniteSet(R \X I)
  BY <1>1, FS_Product
<1>3. IsFiniteSet(U)
  BY <1>2, FS_Subset
<1> QED
  BY <1>3, FS_CardinalityType DEF Moved, I

LEMMA MovedOfNone == Moved({}) = 0
<1>1. {u \in {} \X (1..MaxAmount) : u[2] <= u[1].msg.amount} = {}
  OBVIOUS
<1> QED
  BY <1>1, FS_EmptySet DEF Moved

\* A row more moves its amount more.
LEMMA MovedOfNew ==
    ASSUME NEW R, IsFiniteSet(R), NEW e, e \notin R, e.msg.amount \in Amounts
    PROVE  Moved(R \cup {e}) = Moved(R) + e.msg.amount
<1> DEFINE a == e.msg.amount
           U == {u \in R \X (1..MaxAmount) : u[2] <= u[1].msg.amount}
           V == {u \in (R \cup {e}) \X (1..MaxAmount) : u[2] <= u[1].msg.amount}
           N == UnitsAfter(e, 0, a)
<1>1. a \in Nat /\ a <= MaxAmount /\ MaxAmount \in Nat
  BY ProtocolAssumption DEF Amounts
<1>2. IsFiniteSet(N) /\ Cardinality(N) = a
  BY <1>1, UnitRange
<1>3. IsFiniteSet(U) /\ Cardinality(U) \in Nat
  BY MovedIsNat DEF Moved
<1>4. N = {u \in {e} \X (1..MaxAmount) : u[2] <= u[1].msg.amount}
  <2>1. 0 + 1 = 1 /\ 0 + a = a
    BY <1>1
  <2>2. N = {e} \X (1..a)
    BY <2>1 DEF UnitsAfter
  <2> QED
    BY <1>1, <2>2
<1>5. V = U \cup N
  BY <1>4
<1>6. U \cap N = {}
  BY <1>4
<1>7. Cardinality(U \cap N) = 0
  BY <1>6, FS_EmptySet
<1> HIDE DEF U, V, N
<1>8. Cardinality(U \cup N) = Cardinality(U) + a
  <2>1. Cardinality(U \cup N) = Cardinality(U) + Cardinality(N) - Cardinality(U \cap N)
    BY <1>2, <1>3, FS_Union
  <2> QED
    BY <2>1, <1>1, <1>2, <1>3, <1>7
<1> QED
  BY <1>5, <1>8 DEF Moved, U, V

-----------------------------------------------------------------------------
\* The ledger and the log move together.

\* Nobody mints or transfers what was not deployed.
NothingUndeployed ==
    \A t \in Ticks : tokens[t] = Null => \A op \in LoggedOps : AcceptedOp(op, t) = {}

LogLedgerInv == RowsLogged /\ NothingUndeployed /\ LedgerMatchesLog

\* What the log says device d should own of t.
LoggedBalance(t, d) ==
      Moved({e \in AcceptedOp("MINT", t) : e.deviceId = d})
    + Moved({e \in AcceptedOp("TRANSFER", t) : e.msg.recipient = d})
    - Moved({e \in AcceptedOp("TRANSFER", t) : e.deviceId = d})

\* What the log says of the token t.
LoggedToken(t) ==
    IF tokens[t] = Null THEN \A op \in LoggedOps : AcceptedOp(op, t) = {}
    ELSE /\ \A e \in AcceptedOp("DEPLOY", t) :
               NewToken(e.deviceId, e.msg) = [tokens[t] EXCEPT !.totalSupply = 0]
         /\ Cardinality(AcceptedOp("DEPLOY", t)) = 1
         /\ tokens[t].totalSupply = Moved(AcceptedOp("MINT", t))

\* The invariant, ticker by ticker.
LEMMA LogLedgerInvIs ==
    LogLedgerInv <=>
        /\ RowsLogged
        /\ \A t \in Ticks : /\ LoggedToken(t)
                            /\ \A d \in DeviceIds : balances[t][d] = LoggedBalance(t, d)
BY DEF LogLedgerInv, NothingUndeployed, LedgerMatchesLog, LoggedToken, LoggedBalance, LoggedOps

LEMMA LogLedgerInvNext ==
    ASSUME RowsLogged',
           \A t \in Ticks : /\ LoggedToken(t)'
                           /\ \A d \in DeviceIds : balances'[t][d] = LoggedBalance(t, d)'
    PROVE  LogLedgerInv'
BY DEF LogLedgerInv, NothingUndeployed, LedgerMatchesLog, LoggedToken, LoggedBalance, LoggedOps

\* Any selection of the accepted rows is finite, and its amounts are in range.
LEMMA SelectionsFinite ==
    ASSUME RowsLogged, NEW op, NEW t, NEW R \in SUBSET AcceptedOp(op, t)
    PROVE  IsFiniteSet(R) /\ Moved(R) \in Nat
<1>1. IsFiniteSet(R)
  BY FS_Subset DEF AcceptedOp, RowsLogged
<1> QED
  BY <1>1, MovedIsNat

\* A ticker that no accepted row was added to keeps what the log says of it.
LEMMA TickerUnmoved ==
    ASSUME NEW t \in Ticks, LoggedToken(t),
           \A d \in DeviceIds : balances[t][d] = LoggedBalance(t, d),
           tokens'[t] = tokens[t], balances'[t] = balances[t],
           \A op \in LoggedOps : AcceptedOp(op, t)' = AcceptedOp(op, t)
    PROVE  LoggedToken(t)' /\ \A d \in DeviceIds : balances'[t][d] = LoggedBalance(t, d)'
<1>1. /\ AcceptedOp("DEPLOY", t)' = AcceptedOp("DEPLOY", t)
      /\ AcceptedOp("MINT", t)' = AcceptedOp("MINT", t)
      /\ AcceptedOp("TRANSFER", t)' = AcceptedOp("TRANSFER", t)
  BY DEF LoggedOps
<1>2. LoggedToken(t)'
  BY <1>1 DEF LoggedToken, LoggedOps
<1>3. \A d \in DeviceIds : LoggedBalance(t, d)' = LoggedBalance(t, d)
  BY <1>1 DEF LoggedBalance
<1> QED
  BY <1>2, <1>3

\* Nothing is on record and nobody owns anything.
LEMMA LogLedgerInvInit ==
    LedgerInit /\ events = {} /\ recorded = 0 => LogLedgerInv
<1> SUFFICES ASSUME LedgerInit, events = {}, recorded = 0 PROVE LogLedgerInv
  OBVIOUS
<1>1. RowsLogged
  BY FS_EmptySet DEF RowsLogged
<1>2. \A op, t : AcceptedOp(op, t) = {}
  BY DEF AcceptedOp
<1>3. \A t \in Ticks, d \in DeviceIds : balances[t][d] = LoggedBalance(t, d)
  <2> SUFFICES ASSUME NEW t \in Ticks, NEW d \in DeviceIds
               PROVE  balances[t][d] = LoggedBalance(t, d)
    OBVIOUS
  <2>1. /\ {e \in AcceptedOp("MINT", t) : e.deviceId = d} = {}
        /\ {e \in AcceptedOp("TRANSFER", t) : e.msg.recipient = d} = {}
        /\ {e \in AcceptedOp("TRANSFER", t) : e.deviceId = d} = {}
    BY <1>2
  <2>2. LoggedBalance(t, d) = 0 + 0 - 0
    BY <2>1, MovedOfNone DEF LoggedBalance
  <2> QED
    BY <2>2 DEF LedgerInit
<1>4. \A t \in Ticks : LoggedToken(t)
  BY <1>2 DEF LoggedToken, LedgerInit
<1> QED
  BY <1>1, <1>3, <1>4, LogLedgerInvIs

\* A step that moves neither keeps the agreement.
LEMMA NothingMoves ==
    ASSUME LogLedgerInv, UNCHANGED <<tokens, balances, events, recorded>>
    PROVE  LogLedgerInv'
BY DEF LogLedgerInv, RowsLogged, NothingUndeployed, LedgerMatchesLog, AcceptedOp

\* A rejection on record, or an operation that is not about tokens, keeps it.
LEMMA OtherRowKeeps ==
    ASSUME LogLedgerInv, NEW status, NEW reason, NEW d \in DeviceIds, NEW p \in Payloads,
           AppendEvent(status, reason, d, p),
           status # "accepted" \/ p.op \notin LoggedOps,
           UNCHANGED <<tokens, balances>>
    PROVE  LogLedgerInv'
<1>1. RowsLogged /\ RowsLogged'
  BY RowsLoggedStep DEF LogLedgerInv
<1>2. \A op \in LoggedOps, t \in Ticks : AcceptedOp(op, t)' = AcceptedOp(op, t)
  BY <1>1, AcceptedOpAppend
<1>3. \A t \in Ticks : LoggedToken(t)' /\ \A x \in DeviceIds : balances'[t][x] = LoggedBalance(t, x)'
  BY <1>2, TickerUnmoved, LogLedgerInvIs
<1> QED
  BY <1>1, <1>3, LogLedgerInvNext

\* A deploy, with its row.
LEMMA DeployLogged ==
    ASSUME LedgerInv, LogLedgerInv, NEW d \in DeviceIds, NEW p \in Payloads, p.op = "DEPLOY",
           Deploy(d, p.tick, p.maxSupply, p.limitPerMint),
           NEW reason, AppendEvent("accepted", reason, d, p)
    PROVE  LogLedgerInv'
<1> DEFINE row == Event(recorded + 1, "accepted", reason, d, p)
           s == p.tick
<1>1. RowsLogged /\ RowsLogged'
  BY RowsLoggedStep DEF LogLedgerInv
<1>2. /\ s \in Ticks /\ tokens[s] = Null /\ balances' = balances
      /\ tokens' = [tokens EXCEPT ![s] = NewToken(d, p)]
      /\ tokens \in [Ticks -> Token \cup {Null}]
  BY PayloadFields DEF Deploy, NewToken, LedgerInv, LedgerTypeOK
<1>3. NewToken(d, p) \in Token /\ NewToken(d, p) # Null
  BY PayloadFields, ProtocolAssumption DEF NewToken, Token, Amounts
<1>4. row.deviceId = d /\ row.msg = p
  BY DEF Event
<1>5. ASSUME NEW op \in LoggedOps, NEW t \in Ticks
      PROVE  AcceptedOp(op, t)' = IF op = "DEPLOY" /\ t = s THEN AcceptedOp(op, t) \cup {row}
                                  ELSE AcceptedOp(op, t)
  BY <1>1, AcceptedOpAppend
<1> HIDE DEF row
<1>6. ASSUME NEW t \in Ticks
      PROVE  LoggedToken(t)' /\ \A x \in DeviceIds : balances'[t][x] = LoggedBalance(t, x)'
  <2>1. LoggedToken(t) /\ \A x \in DeviceIds : balances[t][x] = LoggedBalance(t, x)
    BY LogLedgerInvIs
  <2>2. CASE t # s
    BY <1>2, <1>5, <2>1, <2>2, TickerUnmoved
  <2>3. CASE t = s
    <3>1. /\ AcceptedOp("DEPLOY", t)' = {row}
          /\ AcceptedOp("MINT", t)' = {} /\ AcceptedOp("MINT", t) = {}
          /\ AcceptedOp("TRANSFER", t)' = AcceptedOp("TRANSFER", t)
      BY <1>2, <1>5, <2>1, <2>3 DEF LoggedToken, LoggedOps
    <3>2. tokens'[t] = NewToken(d, p)
      BY <1>2, <2>3
    <3>3. [NewToken(d, p) EXCEPT !.totalSupply = 0] = NewToken(d, p) /\ NewToken(d, p).totalSupply = 0
      BY DEF NewToken
    <3>4. Cardinality({row}) = 1
      BY FS_Singleton
    <3>5. LoggedToken(t)'
      BY <1>3, <1>4, <3>1, <3>2, <3>3, <3>4, MovedOfNone DEF LoggedToken
    <3>6. \A x \in DeviceIds : LoggedBalance(t, x)' = LoggedBalance(t, x)
      BY <3>1 DEF LoggedBalance
    <3> QED
      BY <1>2, <2>1, <3>5, <3>6
  <2> QED
    BY <2>2, <2>3
<1> QED
  BY <1>1, <1>6, LogLedgerInvNext

\* One row more in a selection of accepted rows, or not.
LEMMA SelectionGrows ==
    ASSUME RowsLogged, NEW op, NEW t, NEW R \in SUBSET AcceptedOp(op, t),
           NEW row, row \notin events, row.msg.amount \in Amounts
    PROVE  Moved(R \cup {row}) = Moved(R) + row.msg.amount
<1>1. IsFiniteSet(R) /\ row \notin R
  BY SelectionsFinite DEF AcceptedOp
<1> QED
  BY <1>1, MovedOfNew

\* A mint, with its row.
LEMMA MintLogged ==
    ASSUME LedgerInv, LogLedgerInv, NEW d \in DeviceIds, NEW p \in Payloads, p.op = "MINT",
           Mint(d, p.tick, p.amount), NEW reason, AppendEvent("accepted", reason, d, p)
    PROVE  LogLedgerInv'
<1> DEFINE row == Event(recorded + 1, "accepted", reason, d, p)
           s == p.tick
           new == [tokens[s] EXCEPT !.totalSupply = @ + p.amount]
<1>1. RowsLogged /\ RowsLogged'
  BY RowsLoggedStep DEF LogLedgerInv
<1>2. /\ s \in Ticks /\ p.amount \in Amounts /\ p.amount \in Nat
      /\ tokens[s] \in Token /\ tokens[s] # Null /\ balances[s] \in Balances
      /\ tokens[s].totalSupply \in Nat
  BY PayloadFields, OneTicker DEF Mint
<1>3. /\ tokens' = [tokens EXCEPT ![s] = new]
      /\ balances' = [balances EXCEPT ![s] = Credit(@, d, p.amount)]
      /\ tokens \in [Ticks -> Token \cup {Null}] /\ balances \in [Ticks -> Balances]
      /\ tokens[s].totalSupply + p.amount <= tokens[s].maxSupply
  BY DEF Mint, LedgerInv, LedgerTypeOK, Balances
<1>4. /\ new # Null /\ new.totalSupply = tokens[s].totalSupply + p.amount
      /\ [new EXCEPT !.totalSupply = 0] = [tokens[s] EXCEPT !.totalSupply = 0]
  <2>1. new.totalSupply = tokens[s].totalSupply + p.amount
    BY <1>2 DEF Token
  <2>2. new \in Token
    BY <1>2, <1>3, ProtocolAssumption DEF Token, Amounts
  <2>3. [new EXCEPT !.totalSupply = 0] = [tokens[s] EXCEPT !.totalSupply = 0]
    BY <1>2 DEF Token
  <2> QED
    BY <2>1, <2>2, <2>3, ProtocolAssumption
<1>5. row.deviceId = d /\ row.msg = p /\ row \notin events
  BY <1>1 DEF Event, RowsLogged
<1>6. ASSUME NEW op \in LoggedOps, NEW t \in Ticks
      PROVE  AcceptedOp(op, t)' = IF op = "MINT" /\ t = s THEN AcceptedOp(op, t) \cup {row}
                                  ELSE AcceptedOp(op, t)
  BY <1>1, AcceptedOpAppend
<1> HIDE DEF row, new
<1>7. ASSUME NEW t \in Ticks
      PROVE  LoggedToken(t)' /\ \A x \in DeviceIds : balances'[t][x] = LoggedBalance(t, x)'
  <2>1. LoggedToken(t) /\ \A x \in DeviceIds : balances[t][x] = LoggedBalance(t, x)
    BY LogLedgerInvIs
  <2>2. CASE t # s
    BY <1>3, <1>6, <2>1, <2>2, TickerUnmoved
  <2>3. CASE t = s
    <3> DEFINE A == AcceptedOp("MINT", t)
               By(x) == {e \in A : e.deviceId = x}
    <3>1. /\ AcceptedOp("DEPLOY", t)' = AcceptedOp("DEPLOY", t)
          /\ AcceptedOp("MINT", t)' = A \cup {row}
          /\ AcceptedOp("TRANSFER", t)' = AcceptedOp("TRANSFER", t)
      BY <1>6, <2>3 DEF LoggedOps
    <3>2. tokens'[t] = new /\ balances'[t] = Credit(balances[s], d, p.amount)
      BY <1>2, <1>3, <2>3
    <3>3. Moved(A \cup {row}) = Moved(A) + p.amount
      BY <1>1, <1>2, <1>5, SelectionGrows
    <3>4. LoggedToken(t)'
      BY <1>2, <1>4, <2>1, <2>3, <3>1, <3>2, <3>3, ZenonT(40) DEF LoggedToken
    <3>5. ASSUME NEW x \in DeviceIds PROVE balances'[t][x] = LoggedBalance(t, x)'
      <4> DEFINE R == {e \in AcceptedOp("TRANSFER", t) : e.msg.recipient = x}
                 S == {e \in AcceptedOp("TRANSFER", t) : e.deviceId = x}
                 Now == {e \in A \cup {row} : e.deviceId = x}
      <4>1. Moved(By(x)) \in Nat /\ Moved(R) \in Nat /\ Moved(S) \in Nat
        BY <1>1, SelectionsFinite
      <4>2. balances[t][x] = Moved(By(x)) + Moved(R) - Moved(S)
        BY <2>1 DEF LoggedBalance
      <4>3. LoggedBalance(t, x)' = Moved(Now) + Moved(R) - Moved(S)
        BY <3>1 DEF LoggedBalance
      <4>4. CASE x = d
        <5>1. Now = By(x) \cup {row}
          BY <1>5, <4>4
        <5>2. Moved(By(x) \cup {row}) = Moved(By(x)) + p.amount
          BY <1>1, <1>2, <1>5, SelectionGrows
        <5>3. balances'[t][x] = balances[t][x] + p.amount
          BY <1>2, <2>3, <3>2, <4>4 DEF Credit, Balances
        <5> HIDE DEF By, R, S, Now
        <5> QED
          BY <1>2, <4>1, <4>2, <4>3, <5>1, <5>2, <5>3
      <4>5. CASE x # d
        <5>1. Now = By(x)
          BY <1>5, <4>5
        <5>2. balances'[t][x] = balances[t][x]
          BY <1>2, <2>3, <3>2, <4>5 DEF Credit, Balances
        <5> QED
          BY <4>2, <4>3, <5>1, <5>2
      <4> QED
        BY <4>4, <4>5
    <3> QED
      BY <3>4, <3>5
  <2> QED
    BY <2>2, <2>3
<1> QED
  BY <1>1, <1>7, LogLedgerInvNext

\* A transfer, with its row: sent by the one, received by the other, who may
\* be the same.
LEMMA TransferLogged ==
    ASSUME LedgerInv, LogLedgerInv, NEW d \in DeviceIds, NEW p \in Payloads, p.op = "TRANSFER",
           Transfer(d, p.recipient, p.tick, p.amount),
           NEW reason, AppendEvent("accepted", reason, d, p)
    PROVE  LogLedgerInv'
<1> DEFINE row == Event(recorded + 1, "accepted", reason, d, p)
           s == p.tick
           f == balances[s]
           g == Credit(Debit(f, d, p.amount), p.recipient, p.amount)
<1>1. RowsLogged /\ RowsLogged'
  BY RowsLoggedStep DEF LogLedgerInv
<1>2. /\ s \in Ticks /\ p.amount \in Amounts /\ p.amount \in Nat /\ p.recipient \in DeviceIds
      /\ tokens[s] # Null /\ f \in Balances
      /\ \A x \in DeviceIds : f[x] \in Nat
  BY PayloadFields, OneTicker, ProtocolAssumption DEF Transfer, Balances, Amounts
<1>3. /\ tokens' = tokens /\ balances' = [balances EXCEPT ![s] = g]
      /\ balances \in [Ticks -> Balances]
  BY DEF Transfer, LedgerInv, LedgerTypeOK, Balances
<1>4. \A x \in DeviceIds : g[x] = f[x] - (IF x = d THEN p.amount ELSE 0)
                                      + (IF x = p.recipient THEN p.amount ELSE 0)
  BY <1>2 DEF Credit, Debit, Balances
<1>5. row.deviceId = d /\ row.msg = p /\ row \notin events
  BY <1>1 DEF Event, RowsLogged
<1>6. ASSUME NEW op \in LoggedOps, NEW t \in Ticks
      PROVE  AcceptedOp(op, t)' = IF op = "TRANSFER" /\ t = s THEN AcceptedOp(op, t) \cup {row}
                                  ELSE AcceptedOp(op, t)
  BY <1>1, AcceptedOpAppend
<1> HIDE DEF row, g
<1>7. ASSUME NEW t \in Ticks
      PROVE  LoggedToken(t)' /\ \A x \in DeviceIds : balances'[t][x] = LoggedBalance(t, x)'
  <2>1. LoggedToken(t) /\ \A x \in DeviceIds : balances[t][x] = LoggedBalance(t, x)
    BY LogLedgerInvIs
  <2>2. CASE t # s
    BY <1>3, <1>6, <2>1, <2>2, TickerUnmoved
  <2>3. CASE t = s
    <3> DEFINE A == AcceptedOp("TRANSFER", t)
    <3>1. /\ AcceptedOp("DEPLOY", t)' = AcceptedOp("DEPLOY", t)
          /\ AcceptedOp("MINT", t)' = AcceptedOp("MINT", t)
          /\ AcceptedOp("TRANSFER", t)' = A \cup {row}
      BY <1>6, <2>3 DEF LoggedOps
    <3>2. LoggedToken(t)'
      BY <1>2, <1>3, <2>1, <2>3, <3>1 DEF LoggedToken
    <3>3. ASSUME NEW x \in DeviceIds PROVE balances'[t][x] = LoggedBalance(t, x)'
      <4> DEFINE M == {e \in AcceptedOp("MINT", t) : e.deviceId = x}
                 R == {e \in A : e.msg.recipient = x}
                 S == {e \in A : e.deviceId = x}
                 RNow == {e \in A \cup {row} : e.msg.recipient = x}
                 SNow == {e \in A \cup {row} : e.deviceId = x}
      <4>1. Moved(M) \in Nat /\ Moved(R) \in Nat /\ Moved(S) \in Nat
        BY <1>1, SelectionsFinite
      <4>2. f[x] = Moved(M) + Moved(R) - Moved(S)
        BY <2>1, <2>3 DEF LoggedBalance
      <4>3. LoggedBalance(t, x)' = Moved(M) + Moved(RNow) - Moved(SNow)
        BY <3>1 DEF LoggedBalance
      <4>4. Moved(RNow) = Moved(R) + (IF x = p.recipient THEN p.amount ELSE 0)
        <5>1. RNow = IF x = p.recipient THEN R \cup {row} ELSE R
          BY <1>5
        <5>2. Moved(R \cup {row}) = Moved(R) + p.amount
          BY <1>1, <1>2, <1>5, SelectionGrows
        <5> HIDE DEF R, RNow
        <5> QED
          BY <4>1, <5>1, <5>2
      <4>5. Moved(SNow) = Moved(S) + (IF x = d THEN p.amount ELSE 0)
        <5>1. SNow = IF x = d THEN S \cup {row} ELSE S
          BY <1>5
        <5>2. Moved(S \cup {row}) = Moved(S) + p.amount
          BY <1>1, <1>2, <1>5, SelectionGrows
        <5> HIDE DEF S, SNow
        <5> QED
          BY <4>1, <5>1, <5>2
      <4>6. balances'[t][x] = f[x] - (IF x = d THEN p.amount ELSE 0)
                                   + (IF x = p.recipient THEN p.amount ELSE 0)
        BY <1>2, <1>3, <1>4, <2>3
      <4> HIDE DEF M, R, S, RNow, SNow
      <4> QED
        BY <1>2, <4>1, <4>2, <4>3, <4>4, <4>5, <4>6
    <3> QED
      BY <3>2, <3>3
  <2> QED
    BY <2>2, <2>3
<1> QED
  BY <1>1, <1>7, LogLedgerInvNext

-----------------------------------------------------------------------------
\* The settings of a device are those of its last CONFIG.

ConfigsOf(d) == {e \in Accepted(d) : e.msg.op = "CONFIG"}

LatestConfig(d, e) == \A f \in ConfigsOf(d) : f.at <= e.at

SettingsAre(d, e) ==
    /\ devices[d].autoMintEnabled = e.msg.enabled
    /\ devices[d].autoMintIntervalSeconds = IF e.msg.enabled THEN e.msg.interval ELSE Null

\* What ConfigIsLatest says of one device; and nothing is on record for one
\* that is not registered.
SettingsFollow(d) ==
    /\ devices[d] = Null => ConfigsOf(d) = {}
    /\ devices[d] # Null /\ devices[d].devEui = Null =>
          /\ ConfigsOf(d) = {} => ~devices[d].autoMintEnabled
          /\ \A e \in ConfigsOf(d) : LatestConfig(d, e) => SettingsAre(d, e)

ConfigInv == \A d \in DeviceIds : SettingsFollow(d)

LEMMA ConfigInvImplies == ConfigInv => ConfigIsLatest
BY DEF ConfigInv, SettingsFollow, LatestConfig, SettingsAre, ConfigsOf, ConfigIsLatest

\* What an append does to the CONFIG rows of a device.
LEMMA ConfigsAppend ==
    ASSUME NEW status, NEW reason, NEW d, NEW p, AppendEvent(status, reason, d, p), NEW c
    PROVE  ConfigsOf(c)' = IF status = "accepted" /\ p.op = "CONFIG" /\ d = c
                           THEN ConfigsOf(c) \cup {Event(recorded + 1, status, reason, d, p)}
                           ELSE ConfigsOf(c)
<1> DEFINE row == Event(recorded + 1, status, reason, d, p)
<1>1. row.status = status /\ row.msg = p /\ row.deviceId = d
  BY DEF Event
<1>2. events' \subseteq events \cup {row}
  BY AppendEventAdds
<1>3. p.op = "CONFIG" => row \in events'
  BY AppendEventKeeps
<1>4. \A e \in ConfigsOf(c) : e \in events'
  BY AppendEventLoses DEF ConfigsOf, Accepted
<1> HIDE DEF row
<1>5. ASSUME NEW e
      PROVE  e \in ConfigsOf(c)' <=>
               \/ e \in ConfigsOf(c)
               \/ e = row /\ status = "accepted" /\ p.op = "CONFIG" /\ d = c
  BY <1>1, <1>2, <1>3, <1>4 DEF ConfigsOf, Accepted
<1>6. ConfigsOf(c)' = IF status = "accepted" /\ p.op = "CONFIG" /\ d = c
                      THEN ConfigsOf(c) \cup {row} ELSE ConfigsOf(c)
  BY <1>5
<1> QED
  BY <1>6 DEF row

\* Who leaves the settings and the CONFIG rows of a device alone, or links it,
\* keeps them together.
LEMMA SettingsKept ==
    ASSUME NEW d, SettingsFollow(d), ConfigsOf(d)' = ConfigsOf(d),
           devices'[d] = Null => devices[d] = Null,
           devices'[d] # Null /\ devices'[d].devEui = Null =>
              /\ devices[d] # Null /\ devices[d].devEui = Null
              /\ devices'[d].autoMintEnabled = devices[d].autoMintEnabled
              /\ devices'[d].autoMintIntervalSeconds = devices[d].autoMintIntervalSeconds
    PROVE  SettingsFollow(d)'
BY DEF SettingsFollow, LatestConfig, SettingsAre

\* A new device has no settings.
LEMMA SettingsOfNew ==
    ASSUME NEW d, SettingsFollow(d), ConfigsOf(d)' = ConfigsOf(d),
           devices[d] = Null, NEW devEui, devices'[d] = NewDevice(devEui), NewDevice(devEui) # Null
    PROVE  SettingsFollow(d)'
<1>1. ConfigsOf(d)' = {} /\ devices'[d] # Null
  BY DEF SettingsFollow
<1>2. ~devices'[d].autoMintEnabled
  BY DEF NewDevice
<1> QED
  BY <1>1, <1>2 DEF SettingsFollow

\* The row of an accepted CONFIG comes after all others.
LEMMA SettingsSaved ==
    ASSUME LogTyped, NEW d \in DeviceIds, NEW p \in Payloads, p.op = "CONFIG",
           NEW reason, AppendEvent("accepted", reason, d, p),
           NEW device \in Device, devices'[d] = ApplyConfig(device, p)
    PROVE  SettingsFollow(d)'
<1>1. PICK row : row = Event(recorded + 1, "accepted", reason, d, p)
  OBVIOUS
<1>2. ConfigsOf(d)' = ConfigsOf(d) \cup {row}
  BY <1>1, ConfigsAppend
<1>3. row.at = recorded + 1 /\ row.msg = p
  BY <1>1 DEF Event
<1>4. \A e \in ConfigsOf(d) : e.at <= recorded /\ e.at \in Nat
  BY StoreAssumption DEF ConfigsOf, Accepted, LogTyped, EventRow
<1>5. recorded \in Nat
  BY StoreAssumption DEF LogTyped
<1>6. ASSUME NEW e \in ConfigsOf(d)', LatestConfig(d, e)' PROVE e = row
  BY <1>2, <1>3, <1>4, <1>5, <1>6 DEF LatestConfig
<1>7. p.enabled \in BOOLEAN /\ p.interval \in Intervals
  BY PayloadFields
<1>8. ApplyConfig(device, p) \in Device /\ ApplyConfig(device, p) # Null
  <2>1. ApplyConfig(device, p) \in Device
    BY <1>7, PayloadFields DEF ApplyConfig, Device
  <2> QED
    BY <2>1, ProtocolAssumption
<1>9. ApplyConfig(device, p).autoMintEnabled = p.enabled
  BY Zenon DEF ApplyConfig, Device
<1>10. ApplyConfig(device, p).autoMintIntervalSeconds = IF p.enabled THEN p.interval ELSE Null
  BY DEF ApplyConfig, Device
<1>11. SettingsAre(d, row)'
  BY <1>3, <1>9, <1>10 DEF SettingsAre
<1> QED
  BY <1>2, <1>6, <1>8, <1>11 DEF SettingsFollow
=============================================================================
