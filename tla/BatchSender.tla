---------------------------- MODULE BatchSender -----------------------------
(***************************************************************************)
(* smart-contracts/scripts/l2-scalability.js: two relays register and then *)
(* submit for their halves of the devices, in parallel, each with          *)
(* batchSubmit: the transactions of a batch are sent one after the other,  *)
(* a failed send is tried once more and then dropped, and the receipts are *)
(* awaited one after the other, a failed one swallowed.                    *)
(*                                                                         *)
(* Relays interleave at every await.  Sends are refused, accepted, or      *)
(* accepted with their answer lost.  The contracts are what DIDRegistry    *)
(* and MetaTxRelay make of these calls: a second registration reverts, so  *)
(* does a submission for an unknown device or one submitted before.        *)
(***************************************************************************)
EXTENDS Naturals, Sequences, SequencesExt, FiniteSets

CONSTANTS
  Relay,
  PER,    \* devices of each relay (250 in the code)
  BATCH,  \* (20 in the code)
  MaxFaults  \* bound on refusals without reason, lost answers, lost receipts

Devices == Relay \X (1 .. PER)

VARIABLES
  phase,     \* 1 registerDID, 2 submitTransaction, 3 when it has reported
  pc,        \* of the coroutine of each relay
  next,      \* its argSets are sent up to here
  sent,      \* of its batch: places in pool
  receipts,  \* all receipts it returns, in this phase
  confirmed, \* the devices of allTxR at the report
  pool,      \* transactions of each relay the network accepted
  status,    \* of those that are mined
  registered, stored, \* on chain; stored as the sequence of transactions
  faults

relayVars == <<pc, next, sent, receipts>>
chainVars == <<pool, status, registered, stored>>
vars == <<phase, relayVars, confirmed, chainVars, faults>>

Init ==
  /\ phase = 1
  /\ pc = [r \in Relay |-> "send"] /\ next = [r \in Relay |-> 0]
  /\ sent = [r \in Relay |-> <<>>] /\ receipts = [r \in Relay |-> <<>>]
  /\ confirmed = {}
  /\ pool = [r \in Relay |-> <<>>] /\ status = [r \in Relay |-> <<>>]
  /\ registered = {} /\ stored = <<>> /\ faults = 0

Fault == faults < MaxFaults /\ faults' = faults + 1

-----------------------------------------------------------------------------
\* The chain.

Accepts(tx) ==
  IF tx.method = 1 THEN tx.device \notin registered
  ELSE tx.device \in registered /\ ~Contains(stored, tx.device)

\* The transactions of a relay are mined in the order of their nonces.
mine(r) ==
  /\ Len(status[r]) < Len(pool[r])
  /\ LET tx == pool[r][Len(status[r]) + 1] IN
       /\ status' = [status EXCEPT ![r] = Append(@, Accepts(tx))]
       /\ registered' = IF Accepts(tx) /\ tx.method = 1
                        THEN registered \cup {tx.device} ELSE registered
       /\ stored' = IF Accepts(tx) /\ tx.method = 2
                    THEN Append(stored, tx.device) ELSE stored
  /\ UNCHANGED <<phase, relayVars, confirmed, pool, faults>>

-----------------------------------------------------------------------------
\* batchSubmit.

Transaction(r) == [method |-> phase, device |-> <<r, next[r] + 1>>]

EndOfBatch(r) == (next[r] + 1) % BATCH = 0 \/ next[r] + 1 = PER

\* After one more device: the end of the batch, or the next one.
Advance(r) ==
  /\ next' = [next EXCEPT ![r] = @ + 1]
  /\ pc' = [pc EXCEPT ![r] = IF EndOfBatch(r) THEN "wait" ELSE "send"]

\* The first failure is followed by one more attempt, the second is swallowed.
Failed(r) ==
  \/ pc[r] = "send" /\ pc' = [pc EXCEPT ![r] = "retry"] /\ UNCHANGED next
  \/ pc[r] = "retry" /\ Advance(r)

\* A node refuses what reverts in the state it knows or expects.
Reverts(r) == ~Accepts(Transaction(r)) \/ Contains(pool[r], Transaction(r))

send(r) ==
  /\ phase \in {1, 2} /\ pc[r] \in {"send", "retry"}
  /\ \/ /\ pool' = [pool EXCEPT ![r] = Append(@, Transaction(r))]
        /\ \/ /\ sent' = [sent EXCEPT ![r] = Append(@, Len(pool[r]) + 1)]
              /\ Advance(r) /\ UNCHANGED faults
           \/ Failed(r) /\ Fault /\ UNCHANGED sent
     \/ /\ Failed(r)
        /\ IF Reverts(r) THEN UNCHANGED faults ELSE Fault
        /\ UNCHANGED <<pool, sent>>
  /\ UNCHANGED <<phase, receipts, confirmed, status, registered, stored>>

Mined(r, p) == p <= Len(status[r])

\* A mutated form of HasReceipt: a reverted transaction has one, too.
AnyReceipt(r, p) == Mined(r, p)

\* wait() throws for a transaction that reverted.
HasReceipt(r, p) == Mined(r, p) /\ status[r][p]

\* The receipt of the first transaction awaited; an error is swallowed.
wait(r) ==
  /\ phase \in {1, 2} /\ pc[r] = "wait" /\ sent[r] # <<>>
  /\ sent' = [sent EXCEPT ![r] = Tail(@)]
  /\ \/ /\ HasReceipt(r, Head(sent[r]))
        /\ receipts' = [receipts EXCEPT ![r] = Append(@, Head(sent[r]))]
        /\ UNCHANGED faults
     \/ /\ Mined(r, Head(sent[r])) /\ ~HasReceipt(r, Head(sent[r]))
        /\ UNCHANGED <<receipts, faults>>
     \/ Fault /\ UNCHANGED receipts
  /\ UNCHANGED <<phase, pc, next, confirmed, chainVars>>

endBatch(r) ==
  /\ phase \in {1, 2} /\ pc[r] = "wait" /\ sent[r] = <<>>
  /\ pc' = [pc EXCEPT ![r] = IF next[r] < PER THEN "send" ELSE "returned"]
  /\ UNCHANGED <<phase, next, sent, receipts, confirmed, chainVars, faults>>

-----------------------------------------------------------------------------

AllReturned == \A r \in Relay : pc[r] = "returned"

DevicesOf(rs) ==
  UNION {{pool[r][rs[r][i]].device : i \in DOMAIN rs[r]} : r \in Relay}

\* Phase 2 begins, or the script reports.
nextPhase ==
  /\ phase \in {1, 2} /\ AllReturned
  /\ phase' = phase + 1
  /\ pc' = [r \in Relay |-> "send"] /\ next' = [r \in Relay |-> 0]
  /\ sent' = [r \in Relay |-> <<>>] /\ receipts' = [r \in Relay |-> <<>>]
  /\ confirmed' = IF phase = 2 THEN DevicesOf(receipts) ELSE confirmed
  /\ UNCHANGED <<chainVars, faults>>

coroutine(r) == send(r) \/ wait(r) \/ endBatch(r)

Next == nextPhase \/ \E r \in Relay : coroutine(r) \/ mine(r)

\* The event loop resumes every coroutine.
Spec == Init /\ [][Next]_vars /\ WF_vars(nextPhase)
        /\ \A r \in Relay : WF_vars(coroutine(r)) /\ WF_vars(mine(r))

-----------------------------------------------------------------------------

\* What is reported as confirmed is on the chain: the report may count too
\* little, never too much, though sends are repeated and receipts lost.
ConfirmedIsStored ==
  /\ \A d \in confirmed : Contains(stored, d)
  /\ phase = 2 => \A r \in Relay : \A i \in DOMAIN receipts[r] :
       Contains(stored, pool[r][receipts[r][i]].device)

\* Each refusal, lost answer or lost receipt costs the report at most one
\* device: without one, all are confirmed.
FaultsBoundLoss == phase = 3 => Cardinality(Devices \ confirmed) <= faults

=============================================================================
