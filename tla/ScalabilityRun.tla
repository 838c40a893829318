--------------------------- MODULE ScalabilityRun ---------------------------
(***************************************************************************)
(* scalability/scalability_runner.py, ScalabilityRunner.run: a pool of     *)
(* threads signs and verifies the readings of all devices through one      *)
(* Gateway; the main thread merges the results as the workers complete,    *)
(* waits for the pool, and submits what was verified, one after the other. *)
(*                                                                         *)
(* Workers interleave between the statements of Gateway.relay_data.  A     *)
(* worker may raise (a signature that cannot be made, a payload that       *)
(* cannot be verified): its future raises in the main thread, which then   *)
(* leaves the `with' block only when every other worker has ended.         *)
(* Submissions to Hardhat are sent, mined and answered in separate steps,  *)
(* as in RelayPath.                                                        *)
(***************************************************************************)
EXTENDS Naturals, Sequences, SequencesExt, FiniteSets, Ledger

CONSTANTS
  Device,                  \* the devices created
  transactions_per_device,
  ThreadCounts,            \* values of the argument concurrent_threads
  MaxRaised,               \* bound on the workers that raise
  MaxOutages               \* see HardhatCalls

VARIABLES
  concurrent_threads,
  backend, registered,                 \* as in RelayPath
  node, outages, code, bc, flight,     \* see HardhatCalls
  relayed_count, failed_count, batch,  \* the shared gateway, see Gateway
  tx_order, transactions, block_number, submitted_count,  \* see RelayNode
  queue,           \* devices whose worker has not begun, in order
  worker,          \* what the worker of each device does
  made,            \* its readings so far
  local_failed, local_items,  \* what it will return
  pc,              \* of the main thread
  merged,          \* devices whose result was merged
  failed_transactions, verified_items,
  next,            \* items submitted
  bc_latencies     \* those a submission latency was recorded for

calls == INSTANCE HardhatCalls
gateway == INSTANCE Gateway
relay == INSTANCE RelayNode

configVars == <<concurrent_threads, backend>>
chainVars == <<configVars, registered>>
callVars == <<node, outages, code, bc, flight>>
gatewayVars == <<relayed_count, failed_count, batch>>
nodeVars == <<tx_order, transactions, block_number, submitted_count>>
workerVars == <<queue, worker, made, local_failed, local_items>>
mergedVars == <<merged, failed_transactions, verified_items>>
submitVars == <<next, bc_latencies>>
mainVars == <<pc, mergedVars, submitVars>>
vars == <<chainVars, callVars, gatewayVars, nodeVars, workerVars, mainVars>>

Init ==
  /\ concurrent_threads \in ThreadCounts
  /\ backend = "none" /\ registered = {} /\ calls!Init
  /\ gateway!Init /\ relay!Init
  /\ queue = SetToSeq(Device)
  /\ worker = [d \in Device |-> "none"] /\ made = [d \in Device |-> 0]
  /\ local_failed = [d \in Device |-> 0] /\ local_items = [d \in Device |-> <<>>]
  /\ pc = "create" /\ merged = {}
  /\ failed_transactions = 0 /\ verified_items = <<>>
  /\ next = 0 /\ bc_latencies = <<>>

-----------------------------------------------------------------------------
\* The workers.

Active == {d \in Device : worker[d] \in {"reading", "keeping", "returning"}}

Raised == {d \in Device : worker[d] = "raised"}

FreeThread == Cardinality(Active) < concurrent_threads

\* A thread of the pool takes the next worker from the queue.
start ==
  /\ pc \in {"merge", "unwind"} /\ queue # <<>>
  /\ FreeThread
  /\ worker' = [worker EXCEPT ![Head(queue)] =
       IF transactions_per_device = 0 THEN "returning" ELSE "reading"]
  /\ queue' = Tail(queue)
  /\ UNCHANGED <<chainVars, callVars, gatewayVars, nodeVars, made, local_failed,
                 local_items, mainVars>>

LastReading(d) == made[d] + 1 = transactions_per_device

\* The reading is verified and the gateway counts it; a failed one is done.
verify(d, verified) ==
  /\ worker[d] = "reading"
  /\ gateway!count(verified)
  /\ IF verified
     THEN /\ worker' = [worker EXCEPT ![d] = "keeping"]
          /\ UNCHANGED <<made, local_failed>>
     ELSE /\ worker' = [worker EXCEPT ![d] = IF LastReading(d) THEN "returning" ELSE "reading"]
          /\ made' = [made EXCEPT ![d] = @ + 1]
          /\ local_failed' = [local_failed EXCEPT ![d] = @ + 1]
  /\ UNCHANGED <<chainVars, callVars, nodeVars, queue, local_items, mainVars>>

\* The gateway keeps a verified reading and the worker adds it to its items.
keep(d) ==
  /\ worker[d] = "keeping"
  /\ gateway!keep(<<d, made[d] + 1>>)
  /\ local_items' = [local_items EXCEPT ![d] = Append(@, <<d, made[d] + 1>>)]
  /\ made' = [made EXCEPT ![d] = @ + 1]
  /\ worker' = [worker EXCEPT ![d] =
       IF LastReading(d) THEN "returning" ELSE "reading"]
  /\ UNCHANGED <<chainVars, callVars, nodeVars, queue, local_failed, mainVars>>

\* The worker returns and its future is complete, or it raised while it signed
\* or verified.
return(d) ==
  /\ \/ /\ worker[d] = "returning"
        /\ worker' = [worker EXCEPT ![d] = "returned"]
     \/ /\ worker[d] = "reading" /\ Cardinality(Raised) < MaxRaised
        /\ worker' = [worker EXCEPT ![d] = "raised"]
  /\ UNCHANGED <<chainVars, callVars, gatewayVars, nodeVars, queue, made,
                 local_failed, local_items, mainVars>>

-----------------------------------------------------------------------------
\* The main thread.

\* _create_blockchain and deploy_contracts, as in RelayPath.
createBlockchain ==
  /\ pc = "create"
  /\ \/ node = "up" /\ backend' = "hardhat" /\ pc' = "deploy"
     \/ backend' = "simulated" /\ pc' = "register"
  /\ UNCHANGED <<concurrent_threads, registered, callVars, gatewayVars, nodeVars,
                 workerVars, mergedVars, submitVars>>

deployContracts ==
  /\ pc = "deploy"
  /\ \/ calls!deploy_contracts /\ pc' = "register"
     \/ pc' = "raised" /\ UNCHANGED callVars
  /\ UNCHANGED <<chainVars, gatewayVars, nodeVars, workerVars, mergedVars, submitVars>>

\* The DIDs of all devices are registered on a Hardhat backend; then the pool
\* is created, which refuses to have no thread (a run without devices).
register ==
  /\ pc = "register"
  /\ \/ /\ backend = "hardhat" /\ node = "up"
        /\ \E d \in Device \ registered : registered' = registered \cup {d}
        /\ UNCHANGED pc
     \/ /\ backend = "hardhat" /\ registered # Device
        /\ pc' = "raised"
        /\ UNCHANGED registered
     \/ /\ backend = "hardhat" => registered = Device
        /\ pc' = IF concurrent_threads = 0 THEN "raised" ELSE "merge"
        /\ UNCHANGED registered
  /\ UNCHANGED <<configVars, callVars, gatewayVars, nodeVars, workerVars, mergedVars,
                 submitVars>>

Merged(items, new) == items \o new

\* as_completed yields a completed future: its result is merged, or raises.
merge(d) ==
  /\ pc = "merge" /\ worker[d] \in {"returned", "raised"} /\ d \notin merged
  /\ IF worker[d] = "returned"
     THEN /\ merged' = merged \cup {d}
          /\ failed_transactions' = failed_transactions + local_failed[d]
          /\ verified_items' = Merged(verified_items, local_items[d])
          /\ UNCHANGED pc
     ELSE /\ pc' = "unwind"
          /\ UNCHANGED <<merged, failed_transactions, verified_items>>
  /\ UNCHANGED <<chainVars, callVars, gatewayVars, nodeVars, workerVars, submitVars>>

\* A mutated form of PoolEmpty: the pool is not waited for.
NoWait == TRUE

PoolEmpty == queue = <<>> /\ Active = {}

\* The `with' block is left, after the loop or with the exception.
shutdown ==
  /\ \/ pc = "merge" /\ merged = Device /\ pc' = "submit"
     \/ pc = "unwind" /\ pc' = "raised"
  /\ PoolEmpty
  /\ UNCHANGED <<chainVars, callVars, gatewayVars, nodeVars, workerVars, mergedVars,
                 submitVars>>

NextItem == verified_items[next + 1]

\* The loop of phase 2.
Submitting == pc = "submit" /\ next < Len(verified_items)

Recorded == next' = next + 1 /\ bc_latencies' = Append(bc_latencies, NextItem)

\* One turn of it on Hardhat: sent, and answered, or submit_meta_transaction
\* raises, whatever became of the submission.
sendItem ==
  /\ Submitting /\ backend = "hardhat"
  /\ calls!send
  /\ UNCHANGED <<chainVars, gatewayVars, nodeVars, workerVars, mainVars>>

answerItem ==
  /\ Submitting /\ backend = "hardhat"
  /\ calls!answer
  /\ Recorded
  /\ UNCHANGED <<chainVars, gatewayVars, nodeVars, workerVars, pc, mergedVars>>

failItem ==
  /\ Submitting /\ backend = "hardhat"
  /\ pc' = "raised"
  /\ UNCHANGED <<chainVars, callVars, gatewayVars, nodeVars, workerVars, mergedVars,
                 submitVars>>

\* One turn of it on the simulation.
simulateItem ==
  /\ Submitting /\ backend = "simulated"
  /\ relay!submit_verified_transaction(NextItem)
  /\ Recorded
  /\ UNCHANGED <<chainVars, callVars, gatewayVars, workerVars, pc, mergedVars>>

finish ==
  /\ pc = "submit" /\ next = Len(verified_items)
  /\ pc' = "done"
  /\ UNCHANGED <<chainVars, callVars, gatewayVars, nodeVars, workerVars, mergedVars,
                 submitVars>>

-----------------------------------------------------------------------------

\* The node, also after the run has returned or raised.
environment ==
  /\ calls!stop \/ calls!start \/ calls!mine(NextItem)
  /\ UNCHANGED <<chainVars, gatewayVars, nodeVars, workerVars, mainVars>>

pool(d) == (\E verified \in BOOLEAN : verify(d, verified)) \/ keep(d) \/ return(d)

main ==
  \/ createBlockchain \/ deployContracts \/ register
  \/ \E d \in Device : merge(d)
  \/ shutdown \/ sendItem \/ answerItem \/ failItem \/ simulateItem \/ finish

Next == environment \/ start \/ (\E d \in Device : pool(d)) \/ main

\* The interpreter schedules every thread that can run; the node may stay up or
\* down for ever.
Spec ==
  /\ Init /\ [][Next]_vars
  /\ WF_vars(start) /\ WF_vars(main) /\ \A d \in Device : WF_vars(pool(d))

-----------------------------------------------------------------------------

Submitted == IF backend = "hardhat" THEN bc ELSE tx_order

\* The outcome of the run, as its caller sees it.
Status == IF pc = "done" THEN "done" ELSE IF pc = "raised" THEN "aborted" ELSE "running"

\* The metrics of a run: the totals, and the readings whose verification and
\* submission latencies are added up (zip, as long as the shorter list).
Result ==
  [total_transactions |-> Len(verified_items),
   failed_transactions |-> failed_transactions,
   overall_latencies |->
     [i \in 1 .. Min({Len(verified_items), Len(bc_latencies)}) |->
        [gateway |-> verified_items[i], chain |-> bc_latencies[i]]]]

Keeping == Cardinality({d \in Device : worker[d] = "keeping"})

\* The shared gateway loses no update, however its threads interleave: its
\* counters are the sums of what the workers counted, its batch holds exactly
\* what they keep, and what was merged is what the merged workers returned.
GatewayAgrees ==
  /\ relayed_count = Len(batch) + Keeping
  /\ failed_count = Total(local_failed)
  /\ ToSet(batch) = UNION {ToSet(local_items[d]) : d \in Device}
  /\ Len(batch) = Total([d \in Device |-> Len(local_items[d])])
  /\ Len(verified_items) = Total([d \in merged |-> Len(local_items[d])])
  /\ failed_transactions = Total([d \in merged |-> local_failed[d]])

\* The result accounts for every reading, it is that of the gateway, and every
\* overall latency adds the two latencies of one reading, though both lists
\* are only paired by position.
ResultComplete ==
  pc = "done" =>
    /\ Result.total_transactions + Result.failed_transactions
         = Cardinality(Device) * transactions_per_device
    /\ Result.total_transactions = relayed_count
    /\ Result.failed_transactions = failed_count
    /\ Len(Result.overall_latencies) = Result.total_transactions
    /\ \A i \in DOMAIN Result.overall_latencies :
         Result.overall_latencies[i].gateway = Result.overall_latencies[i].chain

\* The two phases are distinct and no thread outlives the run, also when a
\* worker raises ("The test runs in two distinct phases").
PhasesApart ==
  pc \in {"submit", "done", "raised"} =>
    Active = {} /\ (queue = <<>> \/ \A d \in Device : worker[d] = "none")

=============================================================================
