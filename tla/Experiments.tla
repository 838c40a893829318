---------------------------- MODULE Experiments -----------------------------
(***************************************************************************)
(* scripts/docker-entrypoint.sh: a container prepares its environment and  *)
(* then becomes the one command it was started with (exec "$@").  Here     *)
(* that is one of the programs of the repository, each with a module of    *)
(* its own:                                                                *)
(*   relay_path     ComparisonRunner.run_relay_path       RelayPath        *)
(*   comparison     ComparisonRunner.run_comparison       ComparisonRun    *)
(*   scalability    ScalabilityRunner.run                 ScalabilityRun   *)
(*   hardhat        HardhatRunner                         HardhatNode      *)
(*   benchmark      run_full_benchmark_suite              BenchmarkRun     *)
(*   nonce_script   base-sepolia-accountable-scalability  NonceSender      *)
(*   batch_script   l2-scalability                        BatchSender      *)
(*                                                                         *)
(* The variables of the other programs do not exist in a container; they   *)
(* are Unused.  Variables of the same name in two modules are one variable *)
(* here, unless a substitution below keeps them apart.                     *)
(***************************************************************************)
EXTENDS Naturals, Sequences, FiniteSets

CONSTANTS
  DeviceCounts, TransactionCounts, BatchSizes,               \* RelayPath
  Device, PerDevice, ThreadCounts, MaxRaised,                \* ScalabilityRun
  ComparedDevices, ComparedTransactions, ComparedBatches,    \* ComparisonRun
  RoundCounts,
  MaxOutages,                                                \* of these three
  MaxStarts, MaxOthers, MaxPolls, MaxTransactions,           \* HardhatNode
  Suites, Iterations, MaxFailures,                           \* BenchmarkRun
  n, SEND_CONCURRENCY, MaxAttempts, MaxLag,                  \* NonceSender
  Relay, PER, BATCH,                                         \* BatchSender
  MaxFaults                                                  \* of both scripts

ASSUME ParameterAssumption ==
  /\ DeviceCounts \cup TransactionCounts \cup BatchSizes \subseteq Nat
  /\ IsFiniteSet(Device) /\ PerDevice \in Nat /\ ThreadCounts \subseteq Nat
  /\ ComparedDevices \cup ComparedTransactions \cup ComparedBatches \subseteq Nat
  /\ RoundCounts \cup Iterations \subseteq Nat /\ IsFiniteSet(Relay)
  /\ {MaxRaised, MaxOutages, MaxStarts, MaxOthers, MaxPolls, MaxTransactions,
      MaxFailures, MaxLag, MaxFaults} \subseteq Nat
  /\ {n, SEND_CONCURRENCY, MaxAttempts, PER, BATCH} \subseteq Nat \ {0}

VARIABLES
  program,  \* the command the container was started with
  pc,       \* where it is
  faults,   \* of a script, or of a benchmark
  \* gateway, relay node and chain of a relay path, a comparison or a
  \* scalability run
  backend, registered, node, outages, code, bc, flight, relayed_count,
  failed_count, batch, tx_order, transactions, block_number, submitted_count,
  \* RelayPath, also of a comparison
  device_count, transactions_per_device, batch_size, read, pending_items,
  submitted, total_transactions, failed_verifications, all_latencies,
  \* ScalabilityRun
  concurrent_threads, queue, worker, made, local_failed, local_items,
  merged, failed_transactions, verified_items, next, bc_latencies,
  \* ComparisonRun
  rounds, turn, direct_results, relay_results, result,
  \* HardhatNode
  state, started, handle, contracts, polls, registry, asked, toMeasure, measured,
  answer,
  \* BenchmarkRun
  host, schemes, iterations, outcome, current, pass, i, stage, pair, sig,
  results, all_results,
  \* what both scripts have sent
  pool, sent, receipts,
  \* NonceSender
  mined, nextNonce, call, attempt, lost,
  \* BatchSender
  phase, position, confirmed, status, onChain, stored

relaySystemVars == <<backend, registered, node, outages, code, bc, flight,
                     relayed_count, failed_count, batch, tx_order, transactions,
                     block_number, submitted_count>>
pathVars == <<device_count, transactions_per_device, batch_size, read,
              pending_items, submitted, total_transactions,
              failed_verifications, all_latencies>>
scalabilityVars == <<concurrent_threads, queue, worker, made, local_failed,
                     local_items, merged, failed_transactions,
                     verified_items, next, bc_latencies>>
comparisonVars == <<rounds, turn, direct_results, relay_results, result>>
hardhatVars == <<state, started, handle, contracts, polls, registry, asked,
                 toMeasure, measured, answer>>
benchmarkVars == <<host, schemes, iterations, outcome, current, pass, i,
                   stage, pair, sig, results, all_results>>
walletVars == <<pool, sent, receipts>>
nonceVars == <<mined, nextNonce, call, attempt, lost>>
batchSubmitVars == <<phase, position, confirmed, status, onChain, stored>>

vars == <<program, pc, faults, relaySystemVars, pathVars, scalabilityVars,
          comparisonVars, hardhatVars, benchmarkVars, walletVars, nonceVars,
          batchSubmitVars>>

path == INSTANCE RelayPath WITH sent <- submitted
scalability == INSTANCE ScalabilityRun WITH transactions_per_device <- PerDevice
comparison == INSTANCE ComparisonRun WITH
  DeviceCounts <- ComparedDevices, TransactionCounts <- ComparedTransactions,
  BatchSizes <- ComparedBatches, sent <- submitted
hardhat == INSTANCE HardhatNode
benchmark == INSTANCE BenchmarkRun WITH MaxFaults <- MaxFailures, status <- outcome
nonce == INSTANCE NonceSender
batches == INSTANCE BatchSender WITH next <- position, registered <- onChain

-----------------------------------------------------------------------------

Unused == "unused"

NoRelaySystem ==
  /\ backend = Unused /\ registered = Unused /\ node = Unused
  /\ outages = Unused /\ code = Unused /\ bc = Unused /\ flight = Unused
  /\ relayed_count = Unused /\ failed_count = Unused /\ batch = Unused
  /\ tx_order = Unused /\ transactions = Unused /\ block_number = Unused
  /\ submitted_count = Unused

NoPath ==
  /\ device_count = Unused /\ transactions_per_device = Unused
  /\ batch_size = Unused /\ read = Unused /\ pending_items = Unused
  /\ submitted = Unused /\ total_transactions = Unused
  /\ failed_verifications = Unused /\ all_latencies = Unused

NoScalability ==
  /\ concurrent_threads = Unused /\ queue = Unused /\ worker = Unused
  /\ made = Unused /\ local_failed = Unused /\ local_items = Unused
  /\ merged = Unused /\ failed_transactions = Unused
  /\ verified_items = Unused /\ next = Unused /\ bc_latencies = Unused

NoComparison ==
  /\ rounds = Unused /\ turn = Unused /\ direct_results = Unused
  /\ relay_results = Unused /\ result = Unused

NoHardhat ==
  /\ state = Unused /\ started = Unused /\ handle = Unused
  /\ contracts = Unused /\ polls = Unused /\ registry = Unused
  /\ asked = Unused /\ toMeasure = Unused /\ measured = Unused
  /\ answer = Unused

NoBenchmark ==
  /\ host = Unused /\ schemes = Unused /\ iterations = Unused
  /\ outcome = Unused /\ current = Unused /\ pass = Unused /\ i = Unused
  /\ stage = Unused /\ pair = Unused /\ sig = Unused /\ results = Unused
  /\ all_results = Unused

NoWallet ==
  /\ pool = Unused /\ sent = Unused /\ receipts = Unused

NoNonce ==
  /\ mined = Unused /\ nextNonce = Unused /\ call = Unused
  /\ attempt = Unused /\ lost = Unused

NoBatchSubmit ==
  /\ phase = Unused /\ position = Unused /\ confirmed = Unused
  /\ status = Unused /\ onChain = Unused /\ stored = Unused

Init ==
  \/ /\ program = "relay_path" /\ path!Init /\ faults = 0
     /\ NoScalability /\ NoComparison /\ NoHardhat /\ NoBenchmark
     /\ NoWallet /\ NoNonce /\ NoBatchSubmit
  \/ /\ program = "scalability" /\ scalability!Init /\ faults = 0
     /\ NoPath /\ NoComparison /\ NoHardhat /\ NoBenchmark
     /\ NoWallet /\ NoNonce /\ NoBatchSubmit
  \/ /\ program = "comparison" /\ comparison!Init /\ faults = 0
     /\ NoScalability /\ NoHardhat /\ NoBenchmark
     /\ NoWallet /\ NoNonce /\ NoBatchSubmit
  \/ /\ program = "hardhat" /\ hardhat!Init /\ faults = 0
     /\ NoRelaySystem /\ NoPath /\ NoScalability /\ NoComparison /\ NoBenchmark
     /\ NoWallet /\ NoNonce /\ NoBatchSubmit
  \/ /\ program = "benchmark" /\ benchmark!Init /\ pc = Unused
     /\ NoRelaySystem /\ NoPath /\ NoScalability /\ NoComparison /\ NoHardhat
     /\ NoWallet /\ NoNonce /\ NoBatchSubmit
  \/ /\ program = "nonce_script" /\ nonce!Init
     /\ NoRelaySystem /\ NoPath /\ NoScalability /\ NoComparison /\ NoHardhat
     /\ NoBenchmark /\ NoBatchSubmit
  \/ /\ program = "batch_script" /\ batches!Init
     /\ NoRelaySystem /\ NoPath /\ NoScalability /\ NoComparison /\ NoHardhat
     /\ NoBenchmark /\ NoNonce

\* A step of a program in its container.
InRelayPath(step) ==
  /\ program = "relay_path" /\ step
  /\ UNCHANGED <<program, faults, scalabilityVars, comparisonVars, hardhatVars,
                 benchmarkVars, walletVars, nonceVars, batchSubmitVars>>

InScalability(step) ==
  /\ program = "scalability" /\ step
  /\ UNCHANGED <<program, faults, pathVars, comparisonVars, hardhatVars,
                 benchmarkVars, walletVars, nonceVars, batchSubmitVars>>

InComparison(step) ==
  /\ program = "comparison" /\ step
  /\ UNCHANGED <<program, faults, scalabilityVars, hardhatVars, benchmarkVars,
                 walletVars, nonceVars, batchSubmitVars>>

InHardhat(step) ==
  /\ program = "hardhat" /\ step
  /\ UNCHANGED <<program, faults, relaySystemVars, pathVars, scalabilityVars,
                 comparisonVars, benchmarkVars, walletVars, nonceVars, batchSubmitVars>>

InBenchmark(step) ==
  /\ program = "benchmark" /\ step
  /\ UNCHANGED <<program, pc, relaySystemVars, pathVars, scalabilityVars,
                 comparisonVars, hardhatVars, walletVars, nonceVars, batchSubmitVars>>

InNonceScript(step) ==
  /\ program = "nonce_script" /\ step
  /\ UNCHANGED <<program, relaySystemVars, pathVars, scalabilityVars,
                 comparisonVars, hardhatVars, benchmarkVars, batchSubmitVars>>

InBatchScript(step) ==
  /\ program = "batch_script" /\ step
  /\ UNCHANGED <<program, relaySystemVars, pathVars, scalabilityVars,
                 comparisonVars, hardhatVars, benchmarkVars, nonceVars>>

Next ==
  \/ InRelayPath(path!Next) \/ InScalability(scalability!Next)
  \/ InComparison(comparison!Next) \/ InHardhat(hardhat!Next)
  \/ InBenchmark(benchmark!Next)
  \/ InNonceScript(nonce!Next) \/ InBatchScript(batches!Next)

\* Each program has the fairness of its module.
Fairness ==
  /\ WF_vars(InRelayPath(path!run))
  /\ WF_vars(InScalability(scalability!start))
  /\ WF_vars(InScalability(scalability!main))
  /\ \A d \in Device : WF_vars(InScalability(scalability!pool(d)))
  /\ WF_vars(InComparison(comparison!run))
  /\ WF_vars(InHardhat(hardhat!call))
  /\ WF_vars(InBenchmark(benchmark!Next))
  /\ WF_vars(InNonceScript(nonce!script)) /\ WF_vars(InNonceScript(nonce!mine))
  /\ WF_vars(InBatchScript(batches!nextPhase))
  /\ \A r \in Relay : /\ WF_vars(InBatchScript(batches!coroutine(r)))
                      /\ WF_vars(InBatchScript(batches!mine(r)))

Spec == Init /\ [][Next]_vars /\ Fairness

-----------------------------------------------------------------------------

\* The three counts of a relay path agree at every moment: the totals it
\* returns, the counters of the gateway and the relay node, and the chain, which
\* is ahead by a submission whose receipt was lost and by no other; also when a
\* submission raises in the middle of a batch.
TotalsMatchChain == program = "relay_path" => path!TotalsMatchChain

\* The gateway that the threads of a scalability run share loses no update,
\* however they interleave, and the result accounts for every reading.
GatewayAgrees ==
  program = "scalability" => scalability!GatewayAgrees /\ scalability!ResultComplete

\* The phases of a scalability run are distinct and no thread outlives it,
\* also when a worker raises while others run or wait in the queue.
PhasesApart == program = "scalability" => scalability!PhasesApart

\* What the programs that deliver readings show of it.
Accepted ==
  CASE program = "relay_path" -> batch
    [] program = "scalability" -> verified_items
    [] OTHER -> <<>>

Delivered ==
  CASE program = "relay_path" -> path!Submitted
    [] program = "scalability" -> scalability!Submitted
    [] OTHER -> <<>>

RunStatus ==
  CASE program = "relay_path" -> path!Status
    [] program = "scalability" -> scalability!Status
    [] OTHER -> "running"

HandedOver == program \in {"relay_path", "scalability"} /\ flight = "sent"

ChainIntact == program \in {"relay_path", "scalability"} => code # "gone"

\* Both runners implement the abstract delivery: verified readings reach the
\* chain in order, each once, and all of them unless the run raises or the node
\* is restarted ("gateway verifies off-chain, relay submits verified
\* meta-transactions to blockchain in batches"; "Verified transactions are
\* submitted to the blockchain sequentially").
delivery == INSTANCE Delivery WITH
  accepted <- Accepted, delivered <- Delivered, outstanding <- HandedOver,
  intact <- ChainIntact, status <- RunStatus

ImplementsDelivery == delivery!Spec

\* A comparison is between the two sides of the same, last round, each side
\* accounts for every reading, and its chain holds what it counted: whatever
\* the node did meanwhile, unless it was restarted under that side.
SidesComplete == program = "comparison" => comparison!SidesComplete

\* A finished gas comparison of HardhatRunner is about the transactions it was
\* asked for, and a transaction no contract executed is only among them when
\* the node it began on is gone.
MeasuresItsContracts == program = "hardhat" => hardhat!MeasuresItsContracts

\* What a benchmark measures as a verification does verify: nobody looks at
\* the answer, and the library is chosen anew in each call.
VerifiesUnlessFault == program = "benchmark" => benchmark!VerifiesUnlessFault

\* The script that counts nonces itself has, call by call and in order, a
\* receipt of a transaction that succeeded, and what it sent twice had its
\* answer lost.
ReceiptsMatchCalls ==
  program = "nonce_script" => nonce!ReceiptsMatchCalls /\ nonce!OnlyLostAnswersRepeat

\* No submission of that script is accepted before every registration is
\* mined, though waves are only awaited in the wallet's own order.
RegisteredBeforeSubmitted ==
  program = "nonce_script" => nonce!RegisteredBeforeSubmitted

\* What the script of the two relays reports as confirmed is on the chain, and
\* each refusal, lost answer or lost receipt costs its report one device.
ReportIsTrue ==
  program = "batch_script" => batches!ConfirmedIsStored /\ batches!FaultsBoundLoss

Ended ==
  CASE program \in {"relay_path", "scalability"} -> pc \in {"done", "raised"}
    [] program = "comparison" -> turn = "done" \/ pc = "raised"
    [] program = "benchmark" -> outcome # "running"
    [] program = "nonce_script" -> nonce!Ended
    [] program = "batch_script" -> phase = 3
    [] program = "hardhat" -> pc = "idle"

\* Every program ends, and every call of HardhatRunner returns: no main thread
\* waits for a worker, no script for a transaction and no poll for a node that
\* does not come.
ProgramEnds ==
  /\ program # "hardhat" ~> Ended
  /\ program = "hardhat" /\ pc # "idle" ~> Ended
=============================================================================
