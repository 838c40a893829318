------------------------------ MODULE RelayPath -----------------------------
(***************************************************************************)
(* relay_system/runner.py, ComparisonRunner.run_relay_path: devices sign   *)
(* readings, the gateway verifies them, and verified readings are          *)
(* submitted in batches, to a Hardhat node through HardhatBackend or, when *)
(* none answers, to the SimulatedBlockchain of a RelayNode.                *)
(*                                                                         *)
(* The path is one thread.  Each reading is a step; a submission to        *)
(* Hardhat is sent, mined by the node and answered in separate steps, and  *)
(* an exception of the backend can leave the path after each of them.  The *)
(* node is a process of its own (module HardhatCalls).  A reading is named *)
(* by its number, device by device.                                        *)
(***************************************************************************)
EXTENDS Naturals, Sequences

CONSTANTS
  DeviceCounts, TransactionCounts, BatchSizes,  \* arguments of ComparisonRunner
  MaxOutages                                    \* see HardhatCalls

VARIABLES
  device_count, transactions_per_device, batch_size,
  backend,          \* name of the backend in use
  registered,       \* devices with a DID registered on a Hardhat backend
  node, outages, code, bc, flight,     \* see HardhatCalls
  relayed_count, failed_count, batch,  \* see Gateway
  tx_order, transactions, block_number, submitted_count,  \* see RelayNode
  pc,
  read,             \* readings made so far
  pending_items,
  sent,             \* items of the batch in submission already submitted
  total_transactions, failed_verifications,
  all_latencies     \* the readings a latency was recorded for

calls == INSTANCE HardhatCalls
gateway == INSTANCE Gateway
relay == INSTANCE RelayNode

gatewayVars == <<relayed_count, failed_count, batch>>
nodeVars == <<tx_order, transactions, block_number, submitted_count>>
configVars == <<device_count, transactions_per_device, batch_size>>
chainVars == <<backend, registered>>
callVars == <<node, outages, code, bc, flight>>
totalVars == <<total_transactions, failed_verifications, all_latencies>>
loopVars == <<read, pending_items, sent>>
vars == <<configVars, chainVars, callVars, gatewayVars, nodeVars, pc, loopVars,
          totalVars>>

ReadingCount == device_count * transactions_per_device

Init ==
  /\ device_count \in DeviceCounts
  /\ transactions_per_device \in TransactionCounts
  /\ batch_size \in BatchSizes
  /\ backend = "none" /\ registered = 0 /\ calls!Init
  /\ gateway!Init /\ relay!Init
  /\ pc = "create" /\ read = 0 /\ pending_items = <<>> /\ sent = 0
  /\ total_transactions = 0 /\ failed_verifications = 0 /\ all_latencies = <<>>

-----------------------------------------------------------------------------

\* _create_blockchain: Hardhat if it answers, else (or if it is not asked for)
\* the simulation, where there is nothing to deploy or to register.
createBlockchain ==
  /\ pc = "create"
  /\ \/ node = "up" /\ backend' = "hardhat" /\ pc' = "deploy"
     \/ backend' = "simulated" /\ pc' = "collect"
  /\ UNCHANGED <<configVars, registered, callVars, gatewayVars, nodeVars, loopVars,
                 totalVars>>

\* _setup_real_backend, and where the path goes on; or it raises.
setupBackend(after) ==
  /\ pc = "deploy"
  /\ \/ calls!deploy_contracts /\ pc' = after
     \/ pc' = "raised" /\ UNCHANGED callVars
  /\ UNCHANGED <<configVars, chainVars, gatewayVars, nodeVars, loopVars, totalVars>>

MoreDevices == registered < device_count

\* _register_device_dids, one device per step.
registerDevice ==
  /\ pc = "register"
  /\ \/ /\ MoreDevices /\ node = "up"
        /\ registered' = registered + 1
        /\ UNCHANGED pc
     \/ /\ ~MoreDevices
        /\ pc' = "collect"
        /\ UNCHANGED registered
     \/ /\ MoreDevices
        /\ pc' = "raised"
        /\ UNCHANGED registered
  /\ UNCHANGED <<configVars, backend, callVars, gatewayVars, nodeVars, loopVars,
                 totalVars>>

Full(items) == Len(items) >= batch_size

\* One reading: generated, signed, verified by the gateway, kept when verified.
readDevice(verified) ==
  /\ pc = "collect" /\ read < ReadingCount
  /\ read' = read + 1
  /\ gateway!relay_data(read + 1, verified)
  /\ IF verified
     THEN /\ pending_items' = Append(pending_items, read + 1)
          /\ pc' = IF Full(pending_items') THEN "submit" ELSE "collect"
          /\ UNCHANGED failed_verifications
     ELSE /\ failed_verifications' = failed_verifications + 1
          /\ UNCHANGED <<pending_items, pc>>
  /\ UNCHANGED <<configVars, chainVars, callVars, nodeVars, sent,
                 total_transactions, all_latencies>>

\* A mutated form of AfterLoop: the rest is forgotten.
ForgetRest(items) == "done"

\* The loop has ended: the rest is flushed.
AfterLoop(items) == IF items = <<>> THEN "done" ELSE "flush"

endOfReadings ==
  /\ pc = "collect" /\ read = ReadingCount
  /\ pc' = AfterLoop(pending_items)
  /\ UNCHANGED <<configVars, chainVars, callVars, gatewayVars, nodeVars, loopVars,
                 totalVars>>

\* The loop of _submit_batch.
Submitting == pc \in {"submit", "flush"} /\ sent < Len(pending_items)

CurrentItem == pending_items[sent + 1]

\* One turn of it on Hardhat: the submission is sent, and answered.
sendItem ==
  /\ Submitting /\ backend = "hardhat"
  /\ calls!send
  /\ UNCHANGED <<configVars, chainVars, gatewayVars, nodeVars, pc, loopVars, totalVars>>

answerItem ==
  /\ Submitting /\ backend = "hardhat"
  /\ calls!answer
  /\ sent' = sent + 1
  /\ UNCHANGED <<configVars, chainVars, gatewayVars, nodeVars, pc, read,
                 pending_items, totalVars>>

\* submit_meta_transaction raises, whatever became of the submission: it was not
\* sent, or its receipt does not come.
failItem ==
  /\ Submitting /\ backend = "hardhat"
  /\ pc' = "raised"
  /\ UNCHANGED <<configVars, chainVars, callVars, gatewayVars, nodeVars, loopVars,
                 totalVars>>

\* One turn of it on the simulation.
simulateItem ==
  /\ Submitting /\ backend = "simulated"
  /\ relay!submit_verified_transaction(CurrentItem)
  /\ sent' = sent + 1
  /\ UNCHANGED <<configVars, chainVars, callVars, gatewayVars, pc, read,
                 pending_items, totalVars>>

NextBatch == pending_items' = <<>>

AfterBatch(state) == IF state = "submit" THEN "collect" ELSE "done"

\* _submit_batch has returned: the totals, and a new batch.
batchDone ==
  /\ pc \in {"submit", "flush"} /\ sent = Len(pending_items)
  /\ total_transactions' = total_transactions + Len(pending_items)
  /\ all_latencies' = all_latencies \o pending_items
  /\ sent' = 0
  /\ NextBatch
  /\ pc' = AfterBatch(pc)
  /\ UNCHANGED <<configVars, chainVars, callVars, gatewayVars, nodeVars, read,
                 failed_verifications>>

-----------------------------------------------------------------------------

\* The node, also after the path has returned or raised.
environment ==
  /\ calls!stop \/ calls!start \/ calls!mine(CurrentItem)
  /\ UNCHANGED <<configVars, chainVars, gatewayVars, nodeVars, pc, loopVars, totalVars>>

run ==
  \/ createBlockchain \/ setupBackend("register") \/ registerDevice
  \/ \E verified \in BOOLEAN : readDevice(verified)
  \/ endOfReadings \/ sendItem \/ answerItem \/ failItem \/ simulateItem
  \/ batchDone

Next == environment \/ run

\* The path is a thread that runs until it returns or raises; the node may stay
\* up or down for ever.
Spec == Init /\ [][Next]_vars /\ WF_vars(run)

-----------------------------------------------------------------------------

\* What has reached the chain in use.
Submitted == IF backend = "hardhat" THEN bc ELSE tx_order

\* The outcome of the run, as its caller sees it.
Status == IF pc = "done" THEN "done" ELSE IF pc = "raised" THEN "aborted" ELSE "running"

\* What the path returns; the averages are taken over the latencies.
Result ==
  [total_transactions |-> total_transactions,
   failed_verifications |-> failed_verifications,
   latencies |-> Len(all_latencies)]

\* The three counts of a path agree at every moment: the totals it returns,
\* the counters of the gateway and the relay node, and the chain.  Between two
\* batches the difference is what is pending; the chain is ahead by the one
\* submission that was mined and not answered, also when the path raises there.
TotalsMatchChain ==
  /\ relayed_count = Len(batch) /\ failed_count = failed_verifications
  /\ relayed_count + failed_count = read
  /\ total_transactions = Len(all_latencies)
  /\ calls!Intact => Len(Submitted) = total_transactions + sent + calls!Unanswered
  /\ relayed_count = total_transactions + Len(pending_items)
  /\ backend = "simulated" =>
       submitted_count = Len(tx_order) /\ block_number = Len(tx_order)
  /\ pc = "done" =>
       /\ flight = "none"
       /\ Result.total_transactions + Result.failed_verifications = ReadingCount
       /\ Result.latencies = Result.total_transactions

=============================================================================
