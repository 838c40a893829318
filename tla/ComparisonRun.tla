---------------------------- MODULE ComparisonRun ---------------------------
(***************************************************************************)
(* relay_system/runner.py, ComparisonRunner.run_comparison: rounds of a    *)
(* direct (ECDSA) path and a relay path, compared at the end.  Each path   *)
(* asks anew for a blockchain (Hardhat when the node answers, otherwise    *)
(* the simulation) and deploys contracts of its own.                       *)
(*                                                                         *)
(* The relay path is module RelayPath, step by step.  The direct path is   *)
(* here; it uses the same variables, of which pc, read,                    *)
(* total_transactions, those of HardhatCalls and those of the              *)
(* SimulatedBlockchain matter to it.  When a path returns, its variables   *)
(* are those of the next one; the node goes on.                            *)
(***************************************************************************)
EXTENDS Naturals, Sequences

CONSTANTS
  DeviceCounts, TransactionCounts, BatchSizes, MaxOutages,  \* of RelayPath
  RoundCounts   \* values of the argument rounds

VARIABLES
  \* of the path in progress, see RelayPath
  device_count, transactions_per_device, batch_size, backend, registered,
  node, outages, code, bc, flight, relayed_count, failed_count, batch,
  tx_order, transactions, block_number, submitted_count, pc, read,
  pending_items, sent, total_transactions, failed_verifications, all_latencies,
  rounds,
  turn,           \* "direct", "relay", "compare" or "done"
  direct_results, relay_results,
  result          \* what run_comparison returns

path == INSTANCE RelayPath
calls == INSTANCE HardhatCalls
simulation == INSTANCE RelayNode

configVars == <<device_count, transactions_per_device, batch_size>>
callVars == <<node, outages, code, bc, flight>>
gatewayVars == <<relayed_count, failed_count, batch>>
simulationVars == <<tx_order, transactions, block_number>>
\* what the direct path leaves alone but for its beginning and its end
relayVars == <<backend, registered, gatewayVars, submitted_count, pending_items,
               sent, failed_verifications, all_latencies>>
countVars == <<read, total_transactions>>
pathVars == <<configVars, callVars, simulationVars, relayVars, countVars, pc>>
runVars == <<rounds, turn, direct_results, relay_results, result>>
vars == <<pathVars, runVars>>

Init ==
  /\ path!Init
  /\ rounds \in RoundCounts /\ turn = "direct"
  /\ direct_results = <<>> /\ relay_results = <<>> /\ result = <<>>

-----------------------------------------------------------------------------
\* run_direct_path.

createDirect ==
  /\ turn = "direct"
  /\ path!createBlockchain
  /\ UNCHANGED runVars

setupDirect ==
  /\ turn = "direct"
  /\ path!setupBackend("collect")
  /\ UNCHANGED runVars

\* A mutated form of MoreReadings: the last reading is left out.
AllButOne == read + 1 < path!ReadingCount

MoreReadings == read < path!ReadingCount

Submitting == turn = "direct" /\ pc = "collect" /\ MoreReadings

Counted == read' = read + 1 /\ total_transactions' = total_transactions + 1

\* One reading on Hardhat: sent, and answered, or submit_transaction raises,
\* whatever became of the submission.
sendDirect ==
  /\ Submitting /\ backend = "hardhat"
  /\ calls!send
  /\ UNCHANGED <<configVars, simulationVars, relayVars, countVars, pc, runVars>>

answerDirect ==
  /\ Submitting /\ backend = "hardhat"
  /\ calls!answer
  /\ Counted
  /\ UNCHANGED <<configVars, simulationVars, relayVars, pc, runVars>>

failDirect ==
  /\ Submitting /\ backend = "hardhat"
  /\ pc' = "raised"
  /\ UNCHANGED <<configVars, callVars, simulationVars, relayVars, countVars, runVars>>

\* One reading on the simulation, whose submit_transaction differs from
\* submit_meta_transaction in the gas only.
simulateDirect ==
  /\ Submitting /\ backend = "simulated"
  /\ simulation!submit_meta_transaction(read + 1)
  /\ Counted
  /\ UNCHANGED <<configVars, callVars, relayVars, pc, runVars>>

\* What a path returns, and, with it, what its contracts hold then.
Side(failed) ==
  [total |-> total_transactions, failed |-> failed, backend |-> backend,
   stored |-> Len(path!Submitted), intact |-> calls!Intact]

\* The variables of the next path.
NextPath ==
  /\ backend' = "none" /\ registered' = 0
  /\ code' = "none" /\ bc' = <<>> /\ flight' = "none"
  /\ relayed_count' = 0 /\ failed_count' = 0 /\ batch' = <<>>
  /\ tx_order' = <<>> /\ transactions' = <<>> /\ block_number' = 0
  /\ submitted_count' = 0
  /\ pc' = "create" /\ read' = 0 /\ pending_items' = <<>> /\ sent' = 0
  /\ total_transactions' = 0 /\ failed_verifications' = 0 /\ all_latencies' = <<>>
  /\ UNCHANGED <<configVars, node, outages>>

endDirect ==
  /\ turn = "direct" /\ pc = "collect" /\ ~MoreReadings
  /\ direct_results' = Append(direct_results, Side(0))
  /\ turn' = "relay"
  /\ NextPath
  /\ UNCHANGED <<rounds, relay_results, result>>

-----------------------------------------------------------------------------
\* run_relay_path, and the rounds.

stepRelay == turn = "relay" /\ path!run /\ UNCHANGED runVars

MoreRounds == Len(direct_results) < rounds

endRelay ==
  /\ turn = "relay" /\ pc = "done"
  /\ relay_results' = Append(relay_results, Side(failed_verifications))
  /\ turn' = IF MoreRounds THEN "direct" ELSE "compare"
  /\ NextPath
  /\ UNCHANGED <<rounds, direct_results, result>>

LastOf(results) == results[Len(results)]

\* The last round of both paths, statistics over all rounds when there are
\* several, and the backend of the relay path as that of the comparison.
compare ==
  /\ turn = "compare"
  /\ result' = [direct |-> LastOf(direct_results), relay |-> LastOf(relay_results),
                backend |-> LastOf(relay_results).backend,
                rounds |-> IF rounds <= 1 THEN 1 ELSE Len(direct_results)]
  /\ turn' = "done"
  /\ UNCHANGED <<pathVars, rounds, direct_results, relay_results>>

-----------------------------------------------------------------------------

\* The node.
environment ==
  /\ \/ turn = "relay" /\ path!environment
     \/ /\ turn # "relay"
        /\ calls!stop \/ calls!start \/ calls!mine(read + 1)
        /\ UNCHANGED <<configVars, simulationVars, relayVars, countVars, pc>>
  /\ UNCHANGED runVars

run ==
  \/ createDirect \/ setupDirect
  \/ sendDirect \/ answerDirect \/ failDirect \/ simulateDirect \/ endDirect
  \/ stepRelay \/ endRelay \/ compare

Next == environment \/ run

\* The runner goes on; the node may stay up or down for ever.
Spec == Init /\ [][Next]_vars /\ WF_vars(run)

-----------------------------------------------------------------------------

\* A side is complete when it accounts for every reading and its chain holds as
\* many transactions as it is an average over, unless the node was restarted
\* under it and the contracts it called were gone.
Complete(side) ==
  /\ side.total + side.failed = path!ReadingCount
  /\ side.intact => side.stored = side.total

\* Whatever the node does, the sides of all rounds that ended are complete, and
\* a comparison is between the two sides of the last of as many rounds as were
\* asked for.
SidesComplete ==
  /\ \A k \in DOMAIN direct_results :
       Complete(direct_results[k]) /\ direct_results[k].failed = 0
  /\ \A k \in DOMAIN relay_results : Complete(relay_results[k])
  /\ turn = "done" =>
       /\ Len(direct_results) = IF rounds = 0 THEN 1 ELSE rounds
       /\ Len(relay_results) = Len(direct_results)
       /\ result.rounds = Len(direct_results)
       /\ result.direct = LastOf(direct_results)
       /\ result.relay = LastOf(relay_results)

=============================================================================
