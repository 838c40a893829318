----------------------------- MODULE HardhatNode ----------------------------
(***************************************************************************)
(* relay_system/hardhat_runner.py: starts and stops a Hardhat node as a    *)
(* child process, deploys contracts on the node that answers and measures  *)
(* transactions.                                                           *)
(*                                                                         *)
(* The node that answers need not be a child: the documented use starts it *)
(* from a shell (hardhat_runner.py:9-17) and the container from its entry  *)
(* point (docker-entrypoint.sh:51-53).  One process can hold the port; one *)
(* that finds it taken exits.  The contracts live in the memory of the     *)
(* process they were deployed to; what other programs deploy to the same   *)
(* node is left out.                                                       *)
(***************************************************************************)
EXTENDS Naturals, FiniteSets

CONSTANTS
  MaxStarts,       \* bound on the calls of start_hardhat
  MaxOthers,       \* bound on the nodes that somebody else starts
  MaxPolls,        \* attempts to connect in one start (30 in the code)
  MaxTransactions  \* bound on num_transactions of run_gas_comparison

Child == 1 .. MaxStarts

Other == MaxStarts + 1 .. MaxStarts + MaxOthers

Process == Child \cup Other

Nobody == 0

VARIABLES
  state,      \* of every process
  started,    \* children started so far
  handle,     \* _hardhat_process, Nobody: None
  contracts,  \* the processes the two bound contracts were deployed to
  pc, polls,
  registry,   \* where the deployment in progress has its DIDRegistry
  asked,      \* num_transactions of the last comparison
  toMeasure,  \* those it has still to submit
  measured,   \* and those it has measured, with whether a contract ran
  answer      \* what the last call returned

processVars == <<state, started>>
measureVars == <<asked, toMeasure, measured>>
vars == <<processVars, handle, contracts, pc, polls, registry, measureVars, answer>>

NotBound == [registry |-> Nobody, relay |-> Nobody]

Init ==
  /\ state = [p \in Process |-> "none"]
  /\ started = 0 /\ handle = Nobody
  /\ contracts = NotBound /\ pc = "idle" /\ polls = 0 /\ registry = Nobody
  /\ asked = 0 /\ toMeasure = 0 /\ measured = [stored |-> 0, empty |-> 0]
  /\ answer = "none"

Serving == {p \in Process : state[p] = "serving"}

-----------------------------------------------------------------------------
\* The processes.

startOther(p) ==
  /\ state[p] = "none"
  /\ state' = [state EXCEPT ![p] = "starting"]
  /\ UNCHANGED <<started, handle, contracts, pc, polls, registry, measureVars, answer>>

\* A starting node has compiled its configuration and takes the port, or exits.
comeUp(p) ==
  /\ state[p] = "starting"
  /\ state' = [state EXCEPT ![p] = IF Serving = {} THEN "serving" ELSE "gone"]
  /\ UNCHANGED <<started, handle, contracts, pc, polls, registry, measureVars, answer>>

\* It crashes, or whoever started it stops it.
crash(p) ==
  /\ state[p] \in {"starting", "serving"}
  /\ state' = [state EXCEPT ![p] = "gone"]
  /\ UNCHANGED <<started, handle, contracts, pc, polls, registry, measureVars, answer>>

-----------------------------------------------------------------------------
\* start_hardhat and stop_hardhat.

\* The handle of a child started before is overwritten.
start_hardhat ==
  /\ pc = "idle" /\ started < MaxStarts
  /\ \/ /\ started' = started + 1
        /\ state' = [state EXCEPT ![started + 1] = "starting"]
        /\ handle' = started + 1
        /\ pc' = "polling"
        /\ UNCHANGED <<polls, answer>>
     \/ /\ answer' = "False"   \* no configuration file, or Popen raises
        /\ UNCHANGED <<processVars, handle, pc, polls>>
  /\ UNCHANGED <<contracts, registry, measureVars>>

Connects == Serving # {}

MorePolls == polls + 1 < MaxPolls

\* One turn of the loop: a second later some node answers, or not.
poll ==
  /\ pc = "polling"
  /\ IF Connects
     THEN pc' = "idle" /\ answer' = "True" /\ polls' = 0
     ELSE IF MorePolls
     THEN polls' = polls + 1 /\ UNCHANGED <<pc, answer>>
     ELSE pc' = "idle" /\ answer' = "False" /\ polls' = 0
  /\ UNCHANGED <<processVars, handle, contracts, registry, measureVars>>

Terminate(p) == handle' = Nobody /\ state' = [state EXCEPT ![p] = "gone"]

\* The child ends, or is still there after ten seconds and wait() raises.
stop_hardhat ==
  /\ pc = "idle"
  /\ \/ handle # Nobody /\ Terminate(handle) /\ answer' = "stopped"
     \/ /\ handle # Nobody /\ state[handle] # "gone"
        /\ answer' = "raised" /\ UNCHANGED <<handle, state>>
     \/ handle = Nobody /\ answer' = "stopped" /\ UNCHANGED <<handle, state>>
  /\ UNCHANGED <<started, contracts, pc, polls, registry, measureVars>>

-----------------------------------------------------------------------------
\* Contracts and transactions.

\* A mutated form of GiveUp: the call waits for the node to come back.
WaitForNode == UNCHANGED <<pc, answer>>

GiveUp == pc' = "idle" /\ answer' = "raised"

\* The first constructor of deploy_contracts.
DeployRegistry == registry' \in Serving

\* deploy_contracts by a caller, and by run_gas_comparison.
beginDeployment ==
  /\ pc = "idle"
  /\ DeployRegistry
  /\ pc' = "deploying"
  /\ UNCHANGED <<processVars, handle, contracts, polls, measureVars, answer>>

beginComparison(num_transactions) ==
  /\ pc = "idle"
  /\ DeployRegistry
  /\ pc' = "preparing"
  /\ asked' = num_transactions /\ toMeasure' = num_transactions
  /\ measured' = [stored |-> 0, empty |-> 0]
  /\ UNCHANGED <<processVars, handle, contracts, polls, answer>>

\* A mutated form of Bound: contracts that are bound already are kept.
KeepBound(p) ==
  IF contracts = NotBound THEN [registry |-> registry, relay |-> p] ELSE contracts

Bound(p) == [registry |-> registry, relay |-> p]

\* The second constructor, on the node that answers then; both are bound.  A
\* comparison also registers its DID.
deployRelay ==
  /\ pc \in {"deploying", "preparing"}
  /\ \E p \in Serving : contracts' = Bound(p)
  /\ pc' = IF pc = "preparing" THEN "comparing" ELSE "idle"
  /\ answer' = IF pc = "preparing" THEN answer ELSE "deployed"
  /\ UNCHANGED <<processVars, handle, polls, registry, measureVars>>

\* A submission is executed by the relay, which asks the registry; where the
\* relay is gone it succeeds and does nothing.  Where only the registry is gone
\* it is reverted.
Executes == {contracts.registry, contracts.relay} \subseteq Serving

DoesNothing == Serving # {} /\ contracts.relay \notin Serving

\* submit_relay_transaction by a caller (register_did differs in nothing here).
submit_relay_transaction ==
  /\ pc = "idle" /\ contracts # NotBound
  /\ \/ Executes /\ answer' = "metrics"
     \/ DoesNothing /\ answer' = "metrics_of_nothing"
     \/ answer' = "raised"
  /\ UNCHANGED <<processVars, handle, contracts, pc, polls, registry, measureVars>>

compareNext ==
  /\ pc = "comparing" /\ toMeasure > 0
  /\ toMeasure' = toMeasure - 1
  /\ \/ Executes /\ measured' = [measured EXCEPT !.stored = @ + 1]
     \/ DoesNothing /\ measured' = [measured EXCEPT !.empty = @ + 1]
  /\ UNCHANGED <<processVars, handle, contracts, pc, polls, registry, asked, answer>>

\* Any of these calls by a caller, when there is no node or no contract to call.
refuse ==
  /\ pc = "idle" /\ (Serving = {} \/ contracts = NotBound)
  /\ answer' = "raised"
  /\ UNCHANGED <<processVars, handle, contracts, pc, polls, registry, measureVars>>

\* A call to the node raises: none answers, the contract reverts or a receipt
\* does not come.
fail ==
  /\ pc \in {"deploying", "preparing"} \/ (pc = "comparing" /\ toMeasure > 0)
  /\ GiveUp
  /\ UNCHANGED <<processVars, handle, contracts, polls, registry, measureVars>>

\* sum(...) / len(...): without a transaction the division raises.
Averages == IF measured.stored + measured.empty = 0 THEN "raised" ELSE "compared"

endComparison ==
  /\ pc = "comparing" /\ toMeasure = 0
  /\ pc' = "idle" /\ answer' = Averages
  /\ UNCHANGED <<processVars, handle, contracts, polls, registry, measureVars>>

-----------------------------------------------------------------------------

\* The rest of a call in progress.
call == poll \/ deployRelay \/ compareNext \/ fail \/ endComparison

runner ==
  \/ start_hardhat \/ stop_hardhat \/ beginDeployment \/ submit_relay_transaction
  \/ refuse
  \/ \E n \in 0 .. MaxTransactions : beginComparison(n)
  \/ call

Next ==
  \/ runner
  \/ \E p \in Other : startOther(p)
  \/ \E p \in Process : comeUp(p) \/ crash(p)

\* A call in progress goes on; processes may do what they like.
Spec == Init /\ [][Next]_vars /\ WF_vars(call)

-----------------------------------------------------------------------------

\* A comparison measures the transactions it was asked for, at least one, and a
\* transaction that no contract executed is among them only when the node that
\* answered at its beginning is gone: neither another start, nor a node that
\* exits because the port is taken, nor contracts bound before lead to that.
MeasuresItsContracts ==
  /\ pc = "idle" /\ answer = "compared" =>
       measured.stored + measured.empty = asked /\ asked > 0
  /\ measured.empty > 0 /\ (pc = "comparing" \/ (pc = "idle" /\ answer = "compared")) =>
       state[registry] = "gone"

=============================================================================
