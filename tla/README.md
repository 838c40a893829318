# A formal model of the post-quantum IoT authentication system

This directory specifies the repository's programs and contracts in TLA+, checks
the specifications with TLC on small instances, and proves theorems about them,
for every instance, with TLAPS. The code is the reference: every definition is
translated from it, and `PROJECT.json` ("map") names the lines each definition
stands for.

## 1. The system and its parts

Resource-limited devices sign their readings with Falcon-512, a signature the
EVM cannot verify at a bearable price. A *gateway* verifies it off chain, a
*relay* submits the reading in a meta-transaction, and contracts keep an audit
trail that says which relay vouched for it. Around this protocol the repository
has the programs that run and measure it.

| component | state | operations | hard because |
|---|---|---|---|
| `AccountableRelay.sol` | stakes, exit announcements, the committee roster, per-DID nonces, records, batches, disputes, leaf states, exposure registry, pull-payment ledger | stake/announce/unstake (relay), stake/announce/deregister/unstake (verifier), `submitAccountable`, `submitBatch`, `openDispute`, `openBatchLeafDispute`, `submitAttestation`, `expireDispute`, `finalizeRecord`, `finalizeBatch`, `withdraw` | calls of many accounts in any order; deadlines; re-disputes; counters that revert at zero; integer division of money; a call into a stranger's code in the middle of `withdraw` |
| `DIDRegistry.sol` | DID documents | `registerDID`, `deactivateDID`, views | permanence of identities over any sequence of calls |
| `MetaTxRelay.sol` | transactions, used commitments | `submitTransaction` | replays |
| `ECDSAVerify.sol` | latest submission and its signature, registered signers, a switch | `submitAndVerify`, `submitVerifyAndStore`, `registerSigner`, `setSignerVerification` | two modes share their fields |
| Merkle tree of a batch (`_buildTree`, `_verifyProof`) | the leaves array in memory | in-place levels; proof walk | odd levels, index bound |
| `relay_system/`: `IoTDevice`, `Gateway`, `RelayNode`, `SimulatedBlockchain` | counters, gateway batch, receipts | `relay_data`, `submit_verified_transaction` | a gateway shared by threads |
| `relay_system/runner.py`: `ComparisonRunner` | pending batch, totals, results of rounds | `run_relay_path`, `run_direct_path`, `run_comparison` | batch boundaries, an exception in the middle of a batch, a submission that is mined and not answered, a node that comes and goes |
| `relay_system/hardhat_backend.py` | cache of registered DIDs, recorded transactions, block number, a lock | `deploy_contracts`, `_ensure_did_registered`, `submit_transaction`, `submit_meta_transaction`, `submit_batch_transaction`, `get_gas_decomposition` | threads, bookkeeping outside the lock, lost receipts, half-done batches |
| `relay_system/hardhat_runner.py` | a child process, a connection, bound contracts | `start_hardhat`, `stop_hardhat`, `deploy_contracts`, `submit_relay_transaction`, `run_gas_comparison` | the process starts, exits and crashes when it likes, and need not be the runner's: any node on the port answers |
| `scalability/scalability_runner.py` | a pool of threads, merged results | `run` | one gateway for all threads, workers that raise |
| `shared/did_utils.py` | dict of DIDs, a lock | `did_to_bytes32`, `register_did`, `bytes32_to_did`, `unregister_did`, `clear_registry` | threads, exceptions under the lock |
| `smart-contracts/scripts/*.js` | tracked nonce, receipts | `sendWithNonce` and its waves, `batchSubmit` of two relays | lost RPC answers, stale counts, retries |
| `crypto_benchmark/benchmark.py`, `shared/falcon_utils.py` | key pair, last signature, results | warm-up and three timed passes per scheme; choice of a library per call | stale keys and signatures, silent fallbacks |
| `scripts/docker-entrypoint.sh` | - | runs one of these programs | - |
| plots, configuration, security demonstrations, iFogSim scenario | - | - | no protocol state of their own |

How they interact: a device hands payload and signature to the gateway; the
gateway's verified items go to the relay, one by one or in batches; the relay
calls `MetaTxRelay`, through `HardhatBackend` or in the simulation, or, from the
scripts, `AccountableRelay`; the direct path calls `ECDSAVerify`; the contracts
call `DIDRegistry.isActive` and `getPublicKey`. In `AccountableRelay`,
challengers open disputes against a bond, verifiers vote with signatures anyone
may deliver, a quorum or the deadline decides, and everybody collects money with
`withdraw`. The runners share the gateway and the backend, and only those, among
threads; the node, the RPC and the event loop are their environment. The node is
a process of its own, started by the entry point of the container, from a shell
or by the Hardhat runner; its chain lives in its memory and ends with it.

What makes the parts correct, and is what the properties below say:

- **money**: the accountable relay can pay what it owes at any moment, and keeps
  nothing but the burned half-bonds and rounding dust;
- **verdicts**: states and votes agree, decisions are final, fraud costs every
  verifier that vouched, exactly once;
- **bookkeeping on chain**: the counters that block exits and finalization are
  exact, so that no transaction that must be possible reverts on a subtraction;
- **locks**: stake that may still be slashed does not leave;
- **history**: nonces have no gaps, snapshots agree with what the registry stores
  for ever, submissions are stored once;
- **delivery**: verified readings reach the chain, in order, each once;
- **bookkeeping off chain**: what the programs report is what happened on the
  chain, also when calls raise, answers are lost or a node goes away;
- **progress**: disputes end, targets settle, calls return, programs end.

## 2. The modules

| module | models | notes |
|---|---|---|
| `DIDRegistry` | `DIDRegistry.sol` | `registeredAt` is kept as a Boolean because it is only compared with 0; `PublicKeyAvailable` is what `getPublicKey` requires, a guard of its callers |
| `AccountableRelay` | `AccountableRelay.sol`, all of it | one action per external function; reads `DIDRegistry` through `INSTANCE`, and its `Next` contains the registry's calls, so both contracts interleave |
| `MetaTxRelay` | `MetaTxRelay.sol`, all of it | extends `DIDRegistry`; a commitment is the triple that is hashed (the packing is injective) |
| `ECDSAVerify` | `ECDSAVerify.sol`, all of it | `ecrecover` returns the account a signature was made with, a stranger for another hash, zero for a malformed one |
| `BackendContracts` | the three contracts `HardhatBackend.deploy_contracts` puts on one chain | one transaction of one contract per step; one bound for both paths |
| `MerkleTree` | `_buildTree`, `_verifyProof`, and the checks around them in `openBatchLeafDispute` | justifies `AccountableRelay!Proves`: memory is overwritten node by node, proofs are arbitrary; the reference is the tree as it is drawn, a recursive function |
| `Ledger` | the arithmetic of `mapping(address => uint256)` | totals are defined as cardinalities, so that their laws can be proved without induction over data; `ScalabilityRun` sums the counts of its workers with it |
| `Gateway`, `RelayNode` | `gateway.py`; `relay.py` and `SimulatedBlockchain` | their state and operations, used by the two runners |
| `HardhatCalls` | `HardhatBackend` as a runner with one thread sees it, and the node | a submission is sent, mined and answered in three steps; a node that stops loses its chain, and calls of what was on it do nothing |
| `RelayPath` | `run_relay_path`, `_submit_batch` | one thread; each reading and each step of a submission is a step, so that an exception can leave the path between any two |
| `ComparisonRun` | `run_comparison`, `run_direct_path` | both paths step by step: the direct one is here, the relay path is `RelayPath` over the same variables |
| `ScalabilityRun` | `ScalabilityRunner.run` | the pool's threads interleave between the statements of `Gateway.relay_data` |
| `HardhatBackend` | `hardhat_backend.py` | threads interleave statement by statement; the node is the log of its blocks |
| `HardhatNode` | `hardhat_runner.py` | nodes, the runner's and other people's, that come up, find the port taken, exit and crash on their own; the two contracts of a deployment can land on different nodes |
| `DIDUtils` | `did_utils.py` | acquire, check, act, release are steps |
| `NonceSender` | `base-sepolia-accountable-scalability.js` | an RPC of nodes that lag behind and lose answers |
| `BatchSender` | `l2-scalability.js` | coroutines of two relays interleave at every `await` |
| `FalconUtils`, `BenchmarkRun` | the choice of a library; `run_full_benchmark_suite` | keys and signatures are what they were made from |
| `Adjudication` | what `AccountableRelay` promises about each record and leaf | abstract: one case per target, without lists of disputes, batches, counters or money; refined by `AccountableRelay` |
| `DIDMap` | what `did_utils.py` promises | abstract: a call takes effect in one step; refined by `DIDUtils` |
| `Delivery` | what both runners promise | abstract: accepted readings are delivered in order, each once; refined by `RelayPath` and `ScalabilityRun` |
| `Experiments` | `docker-entrypoint.sh`, and the seven programs a container can run | the programs' specifications side by side; one of them is chosen in `Init` |
| `MCRelay`, `MCMerkleTree`, `MCBackendContracts`, `MCHardhatBackend`, `MCExperiments` | - | instances for TLC: initial states after staking, symmetry, one order of interchangeable leaves, sequences for a constant |
| `AccountableRelayProofs`, `AdjudicationProofs` | - | theorems about `AccountableRelay`, the second module on top of the first |
| `MerkleTreeProofs`, `BackendContractsProofs`, `HardhatBackendProofs`, `DIDUtilsProofs` | - | theorems about the module of that name and the ones it extends |
| `ExperimentsProofs`, `BatchSenderProofs` | - | theorems about the programs in their container |

How code becomes specification, in the contracts:

- *A reverted transaction is no step.* Every `revert`/`require`, and the checked
  subtraction the compiler inserts, is a guard. (`relayActiveDisputes[...] > 0`
  in `CloseDispute` is such a guard: were the counter wrong, resolution would be
  impossible, which `DisputeCounters` excludes.)
- *Calls are whole.* `submitAttestation` contains `_resolveFraud` and
  `_resolveSpurious` with everything they call. The helper operators are named
  after the functions they model: `CollectFromPool`, `ReleaseExposures`,
  `RevokeTarget`, `CloseDispute`, `AttesterPay`.
- *`withdraw` is two steps.* It zeroes the credit, sends the money and gives
  control to the receiver; between `withdraw` and `withdrawReturns` every
  function without `nonReentrant` may run (`guard`). Time does not pass inside.
- *Hashes are what they hash.* A target key is the triple that is hashed; a
  Merkle root is the sequence of its leaves; a `Leaf` is the tuple
  `_leafHash` binds. An accepted proof is one for the leaf at its index.
- *Lists that are only ever searched and iterated are sets* (attesters,
  `_targetValidList`, `_exposedLeaves`): the code keeps them free of
  duplicates. The roster stays a sequence because its order is at stake.
- *The signer* that `ecrecover` returns is the `v` of `submitAttestation`; who
  sends the transaction does not matter to the contract.
- A Falcon signature is its length, the only thing the contract looks at.

And in the programs:

- *A step is what cannot be interrupted.* CPython (3.10 and later, as the
  project requires) switches threads at calls and jumps only. `count += 1` is
  therefore one step; `self._block_number = max(...)` is a read and a write,
  because the interpreter may switch when `max` returns; an operation of a
  built-in `dict` or `list` is one step. In the scripts a step is what lies
  between two `await`s.
- *An exception is an outcome.* Whatever a call can raise leaves the enclosing
  `with`, `for` and function in that step, and what they did stays done.
- *A call into the node* is sent, executed and answered in separate steps, and
  each can be the last one its caller sees: `failItem`, `failDirect` and their
  like leave the path whatever has become of the submission, and the node may
  mine it afterwards. In the runners this holds for the submissions, whose number
  is reported; a deployment and a registration are one step or an exception.
- *The HardhatBackend has its own small contracts.* `Executes` states when
  `MetaTxRelay`, whose full model is checked in run `MetaTx`, accepts an item:
  the DID is registered and the commitment unused.
- *The node is the environment of a runner.* `stop` and `start` can happen between
  any two steps, also after the program has ended. `code` says whether the
  contracts of the path in progress are on the chain of the node that answers:
  after a restart they are not, and a submission succeeds without storing
  anything.
- *Readings, keys, times and gas are values or left out.* A reading is its
  number; which reading a latency belongs to is kept, the latency is not.

Not in the models: events and views (except those the baseline is audited from),
gas amounts, `uint` overflow of amounts (the total of all ether is far below
2^256) and of time stamps, the EIP-191 text.

## 3. What TLC checks

Bounds are `CONSTANTS`. In `AccountableRelay`: `MaxTime`, `MaxRecords`,
`MaxBatches`, `MaxLeaves`, `MaxDisputes`, `MaxStake`, and the sets of values and
of accounts in each role (`Owners`, `Relays`, `Verifiers`, `Challengers`,
`Leavers`, `Withdrawers`); a role set equal to `Address` is the contract without
restriction. `WindowFits` lets something be submitted or disputed only if its
window ends before `MaxTime`. The runs `Records`, `Leaves` and `Exits` start
from `MCRelay!Deployed`, states reachable from `Init` by staking and
registering. Elsewhere: `MaxTransactions` (contracts of the backend), `MaxIndex`,
`MaxProof` (Merkle), `MaxBatch`, `MaxCalls`, `MaxDeployments`, `MaxLost`
(backend), `MaxCalls` (DID utilities), and in `Experiments` the arguments of the
programs (sets of them: every combination is tried) and the number of faults
each one meets: `MaxRaised` workers that raise, `MaxOutages` stops of the node
under a runner, `MaxStarts` nodes of the Hardhat runner and `MaxOthers` of
somebody else, `MaxPolls` attempts to connect, `MaxFailures` of a library,
`MaxAttempts`, `MaxLag` and `MaxFaults` in the scripts. An exception of a call to
the node needs no bound: it ends the run. Every instance ends when
these are used up, so deadlock is not an error.

| run | properties | instance, and why it is enough |
|---|---|---|
| `Records` | `TypeOK`, `VerdictMatchesVotes`, `FraudSlashesEveryWrongVote`, `Solvency`, `KeepsOnlyDust` | 2 records or one of them twice in dispute, a committee of 4 with quorum 2, one of them the relay itself; the relay's slash (9) exceeds its stake (6), so the fallback to the other pool happens; stakes, slashes and bonds of which no division comes out even; withdrawals interleave with everything |
| `Leaves` | `DisputeCounters`, `ExposureLedger`, `BatchAudit`, `DecisionsAreFinal`, `ImplementsAdjudication`, `EveryDisputeEnds`, `EverythingSettles` | a record and a batch of 2 leaves, 2 disputes, quorum 2: parallel leaf disputes, re-dispute of an upheld leaf, finalization between them; with `Fairness` |
| `Exits` | `LockedStakeStays`, `RosterMatches` | relay and a verifier come, go and restake at every moment of two disputes; announcements may be older than the dispute, and the roster's other member is moved into the gap |
| `Nonces` | `NonceLedger`, `SnapshotMatchesRegistry` | from `Init`: 2 DIDs, 2 records, a batch of up to 2 leaves (also twice the same DID), owners deactivate in between; signature lengths 0, allowed and too long |
| `Merkle` | `RootIsReference`, `AcceptedIsPosted`, `EveryLeafDisputable` | 1 to 5 leaves (5 is odd on two levels), every proof of up to 3 hashes made of any node of the tree or any other leaf, indices 0 to 7, so also those past the end whose path exists |
| `MetaTx` | `StoredOnce`, `SnapshotKept`, `BaselineAuditable`, `IdentityIsPermanent` | 3 transactions on either path over 2 readings, 2 DIDs, 2 keys and a short one, 2 signatures and one of bad length, interleaved with registrations and deactivations by 2 accounts |
| `Backend` | `EverySubmissionAccounted`, `CallsEndClean`, `AcknowledgedOnce`, `EnsuredIsRegistered` | 2 threads, 3 calls of any kind, batches of 2, so that a batch can fail after its first item and a retry can meet what a lost receipt left; a deployment that stops after any constructor, and calls before it |
| `DIDUtils` | `Linearizable`, `EveryCallReturns` | 3 threads with 2 calls each on 2 DIDs: one thread in the block, one waiting behind another, all pairs and triples of calls |
| `Experiments` | `TotalsMatchChain`, `GatewayAgrees`, `PhasesApart`, `SidesComplete`, `MeasuresItsContracts`, `VerifiesUnlessFault`, `ReceiptsMatchCalls`, `RegisteredBeforeSubmitted`, `ReportIsTrue`, `ImplementsDelivery`, `ProgramEnds` | one program at a time: batches smaller than, equal to and larger than the readings, also of size 0; pools of no, one, two and more threads than devices; a node that stops once and may come back, at any step of any path of up to two rounds (a path has one set of contracts, which a first stop takes; the theorems have no such bound); two starts of a node beside one of somebody else, so that a child can find the port taken and a comparison can lose its node and be answered by another; two schemes in a row, with 10 iterations so that there is a warm-up; waves and batches of which the last is short |
| `VoterLeaves`, `RelayLeaves`, `UntrackedNonce` | see section 5 | expected violations |

The contracts, in a sentence each (the modules say more):

- `VerdictMatchesVotes`: a target is revoked exactly when one of its disputes
  found fraud or expired, that dispute is its last, nobody votes twice or on its
  own record, and a confirmed record has survived its window and all disputes.
- `FraudSlashesEveryWrongVote`: the step that proves fraud takes the slash, to
  the extent there is stake, from every verifier that voted "valid" in any
  dispute of the target, and from nobody else but the relay.
- `DisputeCounters`, `ExposureLedger`: the counters equal the cardinalities they
  stand for, hence no decrement reverts.
- `DecisionsAreFinal`, `BatchAudit`: settled targets, resolved disputes and
  posted data never change; the revoked count of a batch is right and a
  confirmed batch has no open dispute.
- `ImplementsAdjudication`: every record and every leaf is adjudicated as if it
  were alone. `CaseOf` maps a target to its case in `Adjudication`: the phase
  from the states of record, batch and leaf, the deadline and the votes from the
  one dispute about it that is open, who is liable from `targetValidList`. Each
  function is an abstract step of one case (of several for `submitBatch` and
  `finalizeBatch`) or touches none; votes count at the deadline and not after.
- `LockedStakeStays`: stake under an open dispute (relay) or a live exposure
  (verifier) leaves only through a fraud verdict.
- `Solvency`, `KeepsOnlyDust`: lower and upper bound of the balance.
- `NonceLedger`, `SnapshotMatchesRegistry`, `RosterMatches`: as named.
- `RootIsReference`: building in place leaves the root of the drawn tree.
- `AcceptedIsPosted`, `EveryLeafDisputable`: a proof is accepted for an index
  only if it proves the leaf posted there, and every leaf has one. (With 3
  leaves the hash of leaf 2 also stands at place 3; the bound on the index keeps
  it out, and the mutant without the bound violates the property.)
- `StoredOnce`, `SnapshotKept`: replay protection stores a submission once and
  blocks nothing else; the registry's mapping holds for ever the key of which the
  relay contract stored the hash. That says nothing of `getPublicKey`, which
  refuses the key of a deactivated DID (section 5).
- `BaselineAuditable`: the baseline's events tell which submissions were
  restricted, and the stored signature is that of the last one that stored one.

The programs:

- `EverySubmissionAccounted`: every submission on the chain is recorded, or in
  the hands of one thread, or its receipt was lost and its caller got an
  exception; the gas decomposition counts all that is listed, at any moment.
- `CallsEndClean`: what a failed call has done is a prefix of what it was asked
  to do, and it leaves no lock behind.
- `AcknowledgedOnce`, `EnsuredIsRegistered`: a signed reading is acknowledged at
  most once whichever threads retry it; who returns from
  `_ensure_did_registered` finds the DID registered.
- `Linearizable`: `DIDUtils` implements `DIDMap` with
  `registry <- did_registry`.
- `ImplementsDelivery`: `RelayPath` and `ScalabilityRun` implement `Delivery`.
  *accepted* is what the gateway kept (relay path) or what the main thread has
  merged (scalability run), *delivered* what is on the chain in use.
  *outstanding* is the one reading that was sent and not mined; it may still be
  delivered when the run has raised. *intact* is that the node has kept the chain
  of the run; once it has lost it, nothing is promised.
- `TotalsMatchChain`: totals, counters and chain agree between any two
  statements. The chain is ahead by the one submission that is mined and not
  answered (`Unanswered`), and stays so when its receipt is lost and the path
  raises. `GatewayAgrees`, `PhasesApart`: the gateway the threads share loses
  nothing; no thread outlives its run.
- `SidesComplete`: each side of a comparison accounts for every reading and its
  chain holds what it counted, and the two sides compared are those of the last
  of the rounds asked for. The averages of the two sides need not be over the same
  number: the relay side leaves out readings that were not verified
  (`runner.py:239`). When the node was restarted under a side, its contracts were
  gone and some of what it counts did nothing (`intact`).
- `MeasuresItsContracts`: a finished gas comparison averages over what it was
  asked for, and over a call that no contract executed only when the node it
  began on is gone. `VerifiesUnlessFault`: what is timed as a verification
  verifies, unless a library failed; what another library then does with the keys
  is not covered.
- `ReceiptsMatchCalls`, `RegisteredBeforeSubmitted`, `ReportIsTrue`: what the
  scripts report happened, and nothing is sent twice unless an answer was lost.

The programs do not share a container, so `Experiments` chooses one of them in
`Init` and gives the variables of the others the value `Unused`; variables of
one name in two modules are one variable unless a substitution separates them.
Each property of a program is one of its module, restricted to that program.

Every property of a passing run has a mutant in `PROJECT.json`: a variant of one
definition, written beside it, that is a plausible bug and violates it.

### Fairness

`AccountableRelay!Fairness` is weak fairness of `Tick` (blocks are produced),
`withdrawReturns` (external calls end), `finalizeRecord`, `finalizeBatch` and
`expireDispute`, index by index. The last three are permissionless: anyone
interested can send them and nobody can prevent it. No fairness is assumed of
relays, verifiers or challengers. Settlement relies on the number of disputes
being finite, which a bond for each of them enforces and `MaxDisputes` expresses.

`DIDUtils!FairSpec` is weak fairness of the steps of each thread: the
interpreter runs every thread that is not blocked. A thread that waits for the
lock is blocked, and the model's lock is not fair between waiters; that every
call returns follows because the other threads make finitely many calls.

`Experiments!Fairness`: a main thread goes on (weak fairness of its steps), so
does every worker in the pool, the event loop resumes every coroutine, and an
accepted transaction is mined. Nothing is assumed of the node: it may stay away
for ever, and `ProgramEnds` holds all the same because every wait for it is
bounded or raises. Nor is a library, an RPC or a worker assumed to succeed.

## 4. What is proved

Every safety property of the passing runs is proved, and the three abstract
specifications are shown to be implemented. All of it holds for every value of
the constants, under `RegistryAssumption`, `RelayAssumption`, `BoundAssumption`,
`ParameterAssumption` and `InputAssumption` (the zero address
is no account, accounts and devices are finitely many, amounts and bounds are
natural numbers, sizes of batches and waves in the scripts are positive, role
sets are subsets). One theorem assumes more, and says so.

| module | theorem | says |
|---|---|---|
| `AccountableRelayProofs` | `TypeCorrect`, `Solvent`, `Roster`, `Snapshots`, `Nonces` | `TypeOK`, `Solvency`, `RosterMatches`, `SnapshotMatchesRegistry`, `NonceLedger` |
| `AdjudicationProofs` | `Counters`, `Audit`, `Verdicts` | `DisputeCounters`, `BatchAudit`, `VerdictMatchesVotes` |
| | `ExposureIsLedger`, `Final`, `StakesLocked`, `WrongVotesSlashed`, `OnlyDust` | `ExposureLedger`, `DecisionsAreFinal`, `LockedStakeStays`, `FraudSlashesEveryWrongVote`, `KeepsOnlyDust` |
| | `Adjudicates` | `ImplementsAdjudication` |
| `MerkleTreeProofs` | `InPlace`, `NoPhantomLeaf`, `LeavesDisputable` | `RootIsReference`, `AcceptedIsPosted`, `EveryLeafDisputable` |
| `BackendContractsProofs` | `RegistryTypeCorrect`, `PermanentIdentity`, `TypeCorrect`, `ReplayProtection`, `SnapshotsKept`, `EventsTell` | documents are whole, `IdentityIsPermanent`, `TypeOK`, `StoredOnce`, `SnapshotKept`, `BaselineAuditable` |
| `HardhatBackendProofs` | `Calls`, `Books`, `Acknowledged`, `Ensured` | `CallsEndClean`, `EverySubmissionAccounted`, `AcknowledgedOnce`, `EnsuredIsRegistered` |
| `DIDUtilsProofs` | `TypeCorrect`, `CheckedStays`, `Linearization` | `TypeOK`, `CheckedStaysTrue` (what a thread has checked under the lock is so when it acts), `Linearizable` |
| `ExperimentsProofs` | `Comparison`, `GasComparison`, `Totals`, `GatewayTotals`, `Phases`, `Implements`, `Verifies`, `Receipts`, `Registrations` | `SidesComplete`, `MeasuresItsContracts`, `TotalsMatchChain`, `GatewayAgrees`, `PhasesApart`, `ImplementsDelivery`, `VerifiesUnlessFault`, `ReceiptsMatchCalls`, `RegisteredBeforeSubmitted` |
| `BatchSenderProofs` | `Reports` | `ReportIsTrue` |

The extra assumption. `Ensured` assumes `MaxDeployments <= 1`: the callers deploy
once on a backend (`runner.py:77`, `scalability_runner.py:142`), and a second
deployment leaves a stale cache (section 5); the run checks it with that value.

### The accountable relay

`Solvent`. `TypeOK` is inductive (`InitTypes`, `NextTypes`); its clause that
every dispute is about a posted target is needed for the relay of a target to be
defined, and is what lets payouts be typed. `Solvency` alone is not inductive:
that `Minus` never goes below zero, and that totals are totals of finite ledgers,
needs the types. The invariant is `TypeOK /\ Solvency`. The laws of totals
(`TotalSum`, `TotalDifference`, `TotalUniform`, `TotalChange`, `TotalNewKey`)
come from the cardinality theorems of the library. `FraudMoney` and
`SpuriousMoney` then say that a verdict credits at most what it takes from stakes
plus the released bond; `BondLocked` and `BondReleased` follow the bond of a
dispute through opening and resolution, and `DepositsBalance`, `DisputeLocks`,
`DeadlineSettles` and `MoneyMoves` say what each kind of action does to the
balance and to what is owed (`Owed`); `NextSolvent` collects them. The theorem covers quorum 0 and slashes of any size, which
no run does.

`Roster`, `Snapshots`, `Nonces`. Each is inductive with `TypeOK`. The delicate
step of the first is the departure that moves the last verifier into the gap; of
the second, that nothing in the registry rewrites a key (`PermanentIdentity` is
the same fact for the registry alone); of the third, the batch that uses several
nonces of one DID in one step.

`Counters`, `Audit`, `Verdicts`. None is inductive alone. `AdjudicationInv` is
`TypeOK`, `LeafInvariant` (the counts of disputed and revoked leaves, and that a
leaf not posted is untouched), `DisputeInvariant` (the counters of relays; a
target has an open dispute exactly when its state is *Disputed*, at most one,
and it is the last about it) and `VerdictMatchesVotes`. The handlers are first
reduced to shapes (`OpenRecordShape`, `OpenLeafShape`, `VerdictShape`,
`AttestationShape`, `ExpireShape`, `SubmitShape`, `ConfirmShape`, collected in
`StepShapes`): a step opens a dispute, rules one, posts, confirms, votes, or
touches none of it. Each part is then kept shape by shape.

`ExposureIsLedger` and what follows. `ExposureInvariant` adds to the ledger that
nobody is listed for a target that is not posted. From it and `AdjudicationInv`,
`Final` shows that settled targets and resolved disputes match no guard,
`StakesLocked` that an exit's guards (`relayActiveDisputes`,
`verifierLiveExposures`) exclude what must not leave, `WrongVotesSlashed` that
the set collected at a fraud verdict is that of all wrong votes in any dispute
of the target (with a quorum of 0 the first vote decides, and it needs that an
open dispute then has no votes, `VotesNeedQuorum`). `OnlyDust` bounds the surplus by the sum of
the `Allowance`s of the resolved disputes: a ruling adds no more to the balance
than it allows (`RulingAllows`, `RetainsAllowed`).

`Adjudicates`. The cases of `Adjudication` are functions of the contract's
state, and a step is mapped by its shape; the shapes say, beyond what the
invariants need, when a target was posted and that a ballot is in time. An open
dispute about a target is the only one (`DisputeInvariant`), so `CaseOf` chooses
it (`TheOnlyOne`, `DisputedCase`); a target whose state, list and open dispute
are kept keeps its case (`CaseKept`, `OthersKeepCase`), which is the
independence of the targets; `RulingCase` gives the case before a ruling and
says that of every other target keeps. The case of each shape is then one of
`SubmitRefines`, `OpenRefines`, `VoteRefines`, `ExpireRefines`, `ConfirmRefines`
and `ConfirmBatchRefines`. `VoteRefines` has three outcomes, as `Judged` has:
the vote counts, convicts (the fraud quorum is asked for first) or acquits. The
two places where the exposure invariant is needed are the lists of liable
verifiers: a target not posted has an empty one, and finalizing a batch must
empty exactly those of its undecided leaves (the list is who vouched,
`ListsVouched`).

### The Merkle tree of a batch

Here the model has recursive functions, over levels (`Tree`), along a proof
(`Walk`) and of the powers of two (`Pow2`). `Induction` is had from the least
element of a set of natural numbers, for sets instead of predicates; with it,
that each function satisfies its own equation (`Pow2Law`, `WalkLaw`, `TreeLaw`)
follows from the approximations on initial segments, which agree.

- `InPlace`: between two nodes, the memory below `i` is the level being written,
  from `i` up to `n` still the level being read (`LevelInPlace`, in `MemoryInv`;
  a node overwritten before it is read, or a level whose width is rounded the
  other way, would break it). The level with one node is at `Height` (`HeightLaw`).
- `NoPhantomLeaf`: a leaf's hash is at height 0 only and a node's hash tells its
  parts, so a walk that ends in the root passes, at each height, through the node
  above the index (`HeightOfHash`, `ProofsAreSound`); at the bottom is the leaf
  with that index. That the index is in range is used at each odd level.
- `LeavesDisputable`: going up by siblings keeps to the nodes above the leaf
  (`SiblingsProve`).

The verdict of a claim is part of the state (`claim`), so the last two are
invariants together with `MemoryInv` (`TreeInvariant`).

### The backend's contracts and the backend

The contracts' invariant is the conjunction of the stated ones; the baseline's
(`BaselineInv`) adds that the switch is the one of the last event that set it
and that signers have events. The
theorems about `MetaTxRelay` are proved of the chain with all three contracts.

The backend has some thirty steps per thread. `Edges` and `ListEdge` reduce each
to an edge of one thread's program (it goes on, passes a block on, sends, or
fails), and the invariants are kept edge by edge: `Types`; `CallsInvariant`
(`AtWork`, `LockDiscipline`, `ReceiptsMatch`, `IdsCarryItems`: where a thread is
determines what it holds); `BooksInvariant` (`Recorded`, `InHandApart`,
`NothingForgotten`, `ListedOnce`: each mined submission is in one place).
`EverySubmissionAccounted` is not inductive: two threads can have a receipt in
their hands between the lock and the lists, and the proof needs that these are
different blocks. `MinedOnce` follows from replay protection in `Executes`.
`RegistryRead` relates the cache, the registry the relay contract reads, and the
threads that have passed the check.

### `did_utils.py`

A call takes effect when it acts under the lock, or, if its hash is unknown,
when its check fails; `begin` and `leave` are the abstract begin and return, and
`enter` and a successful check are stutters. That the effect is the one of an
uninterrupted call needs the invariant `IInv`: the types, `Exclusion` (a thread
is in the block exactly when it holds the lock, and at most one does), `Progress`
(a call has an answer exactly while it leaves the block) and `CheckedStaysTrue`,
which is not inductive without `Exclusion`. `InitInv` and `NextInv` prove `IInv`
inductive, `CheckRefines`, `ActRefines` and `NextRefines` map the steps.

### The programs

`Started` and `OneProgram` say that a container runs one program and takes its
steps only, so that every invariant has the form "if this is the program, then".

- `CallsInv`: a submission is only made to contracts that were deployed, and is
  lost only with them; what they stored is lost as a whole.
- `PathInv`, `ScalabilityInv`: as long as the node keeps its chain, what is on it
  is, in order, a prefix of what is accepted (`InOrder`, `SubmittedInOrder`), as
  long as the counters say and one longer while a submission is mined and not
  answered. From them `Totals` and `Phases`; and each step is shown to be an
  abstract one (`Delivers`), from which `Implements` follows by `DeliveryStep`.
  Three cases matter: a path ends *done* only with nothing pending and nothing in
  flight; every exception ends it *aborted*, with at most one reading handed over;
  and a reading that is mined after that is the next one in order.
- `ComparisonInv`: the path of the turn is in its invariant (`PathInv` for the
  relay path, `DirectInv` for the direct one, `PathOfTurn`), each path begins in a
  state it could have begun in on its own (`Fresh`), the results are complete when
  they are appended, and their numbers follow from the round and the turn
  (`RoundsDue`, `TurnsTaken`). That the relay path of a comparison keeps `PathInv`
  is the step lemma of `Totals` used again.
- `HardhatInv`: at most one process has the port; measured and remaining
  transactions add up to what was asked for; and if one was measured that no
  contract executed, the node that answered when the comparison began is gone
  (`MeasuredSoFar`): while it holds the port both contracts are on it.
- `GatewayInv`: the gateway's counters and its batch are the sums of what the
  workers have counted, those that have counted a reading and not yet kept it
  (`Keeping`) aside; what is merged is the sum over the merged workers. It takes
  `ScalabilityInv` and `WorkersProgress` (a worker's failed and kept readings
  are those it has made; it returns with all; a device is queued at most once).
  Sums are cardinalities of sets of numbered coins (`Ledger`), so that one
  worker's step changes a sum by one without induction. `GatewayTotals` follows.
- `BenchmarkInv`: the scheme in progress is supported; at the stage of a
  verification the signature at hand is one the scheme accepts; without faults
  a scheme whose keys were made can be called, and every result so far is valid.
- `NonceInv`: receipts and the wave's transactions are of the calls made, in
  order; a call is in the pool twice only if an answer was lost; registrations
  end a wave of their own.
- `BatchInv`: the books of pools, chain and receipts (`BatchState`), and at most
  one device *at risk* per fault. That a device is on track (`OnTrack`) is a
  prediction: its registration is awaited or mined when the first phase ends; in
  the second phase its submission has a receipt, or will have one, because it is
  alone in the pool and its device is registered (`WillSucceed`). `MineTrack`
  shows that mining makes the prediction true, `OthersStayOnTrack`,
  `FreeSendIsSafe` and `WaitTrack` that a send or a wait puts one device at
  risk, and only with a fault, and `OneFaultOneDevice` does the counting. TLC
  had confirmed `BatchInv` on the instance of the run.

### Only model-checked

- `EveryDisputeEnds`, `EverythingSettles`, `EveryCallReturns`, `ProgramEnds`:
  liveness under fairness, which with `ENABLED` is beyond the prover.
- The three expected violations of section 5.

## 5. Where the documentation and the code differ

Each of the first three has a run that must find the violation.

- **A voter can leave while its dispute is open** (`VoterLeaves`,
  `VotersStayPunishable`). The header of `AccountableRelay.sol` (lines 20-24,
  182-184) and `README.md:185` promise that every "valid" attestation is
  registered and its verifier punishable until finalization. The registration
  happens at the resolution of the dispute (`_registerValidAtt`), so a verifier
  that has announced its exit earlier may vote, deregister and unstake before.
- **A relay can leave before a dispute is opened** (`RelayLeaves`,
  `FraudCostsTheRelay`). `README.md:182` says that confirmed fraud slashes the
  relay; exits look at open disputes only, not at provisional records, so the
  stake can be gone when the fraud is proven.
- **The tracked nonce is not used** (`UntrackedNonce`, `TrackedNonceUsed`).
  `sendWithNonce` tracks nonces because the wallet's own counter is not trusted
  (lines 75-77), but its callers pass closures that ignore the overrides.

Seen while modelling, without a run:

- `MetaTxRelay.sol:102-105` says of the stored transactions that anyone can verify
  their signatures "against the stored public key (from DID registry)". The
  registry's `getPublicKey` reverts for a deactivated DID (`DIDRegistry.sol:77`,
  tested in `contracts.test.js:112-120`), and deactivation is for ever. The key is
  not lost, which is what `SnapshotKept` says: the getter of the public mapping
  `dids` has it.
- The two sides of a comparison may run on different backends: each path asks
  anew for a node (`runner.py:99`, `157`) and falls back to the simulation. The
  result carries the relay side's label (`runner.py:370`) and the note that both
  paths stored their signatures on chain (`runner.py:371`).
- A gas comparison averages over calls of nothing when the node is replaced while
  it runs: they go to an address without code and succeed
  (`hardhat_runner.py:195`). The class says that it measures "actual gas costs"
  of "deployed Solidity contracts" (lines 40-41). `MeasuresItsContracts` says
  that this is the only way.
- `start_hardhat` "returns True if started successfully" (`hardhat_runner.py:81`)
  and also when any other node answers (line 100), for example the one that has
  the port and made the child exit.
- `AccountableRelay.sol:854` says odd nodes are "promoted"; the code hashes an
  odd node with itself, as `accountable-gas-report.js` does.
- `HardhatBackend` calls itself thread-safe; `_block_number` (line 324) can go
  back when another thread writes between the read and the write. Nothing is
  lost by it (`EverySubmissionAccounted`).
- A second `deploy_contracts` leaves `_registered_dids` filled for an empty
  registry, so that submissions revert; no caller deploys twice on one backend.
  After a lost registration receipt the retry registers again and raises.
- The relay path adds the last verification's latency to all items of a batch.
- A path whose receipt is lost raises, and what it had counted is lost with it;
  the chain keeps the submission (`TotalsMatchChain`, `ImplementsDelivery`).
- A second `start_hardhat` overwrites the handle of the first child, which nobody
  stops then. `run_gas_comparison` neither starts nor stops a node: it uses the
  one that answers. `submit_relay_transaction` on contracts of a node that is gone
  returns the metrics of a call to an address without code.
- After "already known" the device is submitted a second time under the next
  nonce, and has two records. `failed` in the report of
  `base-sepolia-accountable-scalability.js` is always 0: a failed receipt throws.
- `ECDSAVerify`: after `submitAndVerify` the stored signature is still the one
  of an earlier `submitVerifyAndStore`; only the events tell which belongs to
  which submission (`BaselineAuditable`).
- `benchmark.py`: results for Dilithium carry the name of the Falcon library;
  the comment at line 514 says the last signature is reused, line 518 makes a
  new one; the answer of a verification is thrown away (`VerifiesUnlessFault`);
  "iot" is documented as at most 512 MB and tested as at most 600.
- `python relay_system/runner.py` (`README.md:130`) does nothing: the file has
  no main block.

## 6. Plan

Done: the contracts, the programs of the relay system, the scripts that keep
state and the benchmark; the abstract specifications `Delivery`, `DIDMap` and
`Adjudication` with their refinements; proofs of the refinements and of every safety property.

What would come next is outside the reach of these tools: the liveness
properties for every instance, and a proof that `Adjudication` settles every case
under the fairness of section 3.

### Not modelled

- `shared/visualization.py`, `shared/config.py`: drawing and constants.
- `security/attack_simulation.py`, `security/threat_model.py`: scripted
  demonstrations and a printed table, without state of their own.
- `fog-simulation/`: a scenario for the iFogSim simulator, whose engine is not in
  the repository.
- `Gateway.get_batch` and `RelayNode.submit_batch`: nothing calls them.
- The deployment, validation and report scripts other than the two above, and
  the parts of these two before their first wave (draining stale transactions,
  deployment): linear sequences of awaited calls.
- The batched comparison at the end of `base-sepolia-accountable-scalability.js`
  (lines 155-194): one more wave of registrations, sent like the others, then ten
  calls of `submitBatch`, each awaited before the next. The contract's side of it
  is `AccountableRelay!submitBatch`.
- Transactions replaced by another one with the same nonce (`NonceSender`,
  `BatchSender`): the scripts never send a nonce twice on purpose, and no other
  program uses their wallets in the model.
- What other programs deploy to a node that the Hardhat runner or a comparison
  uses, and a node whose state is reset without a restart.
- The cryptography of the Falcon libraries, hardware information, the
  classification of the environment, statistics, printing and saving.
- The reports and the background node of `docker-entrypoint.sh`: the node is
  part of the environment of each program that talks to it.
