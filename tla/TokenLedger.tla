---------------------------- MODULE TokenLedger ----------------------------
(***************************************************************************)
(* What the indexer promises about tokens, whatever store it runs on and   *)
(* however its requests interleave: a ticker is deployed at most once,     *)
(* minting respects the per-mint limit and the maximum supply, a transfer  *)
(* moves what the sender owns.  Devices, nonces and events are not part of *)
(* the promise.                                                            *)
(***************************************************************************)
EXTENDS Protocol

VARIABLES
    tokens,     \* tokens[t]: the token deployed under ticker t, or Null
    balances    \* balances[t][d]: what device d owns of ticker t

ledgerVars == <<tokens, balances>>

LedgerTypeOK ==
    /\ tokens \in [Ticks -> Token \cup {Null}]
    /\ balances \in [Ticks -> [DeviceIds -> Amounts]]

LedgerInit ==
    /\ tokens = [t \in Ticks |-> Null]
    /\ balances = [t \in Ticks |-> [d \in DeviceIds |-> 0]]

-----------------------------------------------------------------------------

Deploy(d, t, maxSupply, limitPerMint) ==
    /\ tokens[t] = Null
    /\ 0 < limitPerMint /\ limitPerMint <= maxSupply
    /\ tokens' = [tokens EXCEPT ![t] =
                    [createdByDeviceId |-> d, maxSupply |-> maxSupply,
                     limitPerMint |-> limitPerMint, totalSupply |-> 0]]
    /\ UNCHANGED balances

Mint(d, t, amount) ==
    /\ tokens[t] # Null
    /\ 0 < amount /\ amount <= tokens[t].limitPerMint
    /\ tokens[t].totalSupply + amount <= tokens[t].maxSupply
    /\ tokens' = [tokens EXCEPT ![t].totalSupply = @ + amount]
    /\ balances' = [balances EXCEPT ![t] = Credit(@, d, amount)]

Transfer(d, recipient, t, amount) ==
    /\ tokens[t] # Null
    /\ 0 < amount /\ amount <= balances[t][d]
    /\ balances' = [balances EXCEPT ![t] =
                      Credit(Debit(@, d, amount), recipient, amount)]
    /\ UNCHANGED tokens

LedgerNext ==
    \E d \in DeviceIds, t \in Ticks :
        \/ \E maxSupply, limitPerMint \in Amounts :
               Deploy(d, t, maxSupply, limitPerMint)
        \/ \E amount \in Amounts : Mint(d, t, amount)
        \/ \E amount \in Amounts, recipient \in DeviceIds :
               Transfer(d, recipient, t, amount)

LedgerSpec == LedgerInit /\ [][LedgerNext]_ledgerVars

-----------------------------------------------------------------------------

\* Every unit that was minted is owned by exactly one device: the sum of a
\* token's balances is its totalSupply, and a ticker nobody deployed has no
\* balances.  (handleMint and handleTransfer write the two tables separately.)
SupplyBacked ==
    \A t \in Ticks :
        Total(balances[t]) = IF tokens[t] = Null THEN 0 ELSE tokens[t].totalSupply

\* No history of mints takes a token past the maximum its deployer declared,
\* and no deployed token has terms handleDeploy would have refused.
SupplyCapped ==
    \A t \in Ticks : tokens[t] # Null =>
        /\ tokens[t].totalSupply <= tokens[t].maxSupply
        /\ 0 < tokens[t].limitPerMint
        /\ tokens[t].limitPerMint <= tokens[t].maxSupply

\* The terms of a deployed token never change again and its supply grows by at
\* most the per-mint limit at a time: no later deploy, mint or transfer
\* replaces the row.
TermsAreFinal ==
    [][\A t \in Ticks : tokens[t] # Null =>
         /\ tokens'[t] # Null
         /\ tokens'[t].createdByDeviceId = tokens[t].createdByDeviceId
         /\ tokens'[t].maxSupply = tokens[t].maxSupply
         /\ tokens'[t].limitPerMint = tokens[t].limitPerMint
         /\ tokens'[t].totalSupply >= tokens[t].totalSupply
         /\ tokens'[t].totalSupply - tokens[t].totalSupply <= tokens[t].limitPerMint]_ledgerVars
=============================================================================
