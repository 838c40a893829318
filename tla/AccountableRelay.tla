-------------------------- MODULE AccountableRelay --------------------------
(***************************************************************************)
(* smart-contracts/contracts/AccountableRelay.sol: relays post signed IoT  *)
(* records (one by one or in Merkle batches) against a stake; anyone may   *)
(* dispute a record or a batch leaf against a bond; a committee of staked  *)
(* verifiers votes; a quorum or the deadline decides; stakes and bonds are *)
(* redistributed through a pull-payment ledger.                            *)
(*                                                                         *)
(* One action per external function, with everything the function calls.   *)
(* A reverted transaction is no step, so a revert condition (also the one  *)
(* the compiler adds to a subtraction) is a guard.  Sequences are numbered *)
(* from 1.  A mapping is a total function, its default value where nothing *)
(* was written.  A hash is the value hashed.                               *)
(*                                                                         *)
(* withdraw() hands control to the receiver before it returns; it is two   *)
(* steps, and everything a receiver may call comes between them.           *)
(***************************************************************************)
EXTENDS Naturals, Integers, Sequences, FiniteSets, Ledger

CONSTANTS
  \* The registry the contract reads, see DIDRegistry.
  Address, ZeroAddress, DID, PublicKey, FalconKey, EmptyKey,
  \* The constructor's arguments and the two constants of the contract.
  challengePeriod, quorum, relayStakeAmount, verifierStakeAmount,
  challengerBondAmount, relaySlashAmount, verifierSlashAmount,
  UNSTAKE_DELAY, FALCON_512_SIG_SIZE_MAX,
  \* Inputs: payload commitments, signature lengths, and msg.value.
  Payload, SigLength, StakeValues, BondValues,
  \* Who calls what in an instance (all of Address: the whole contract).
  Owners, Relays, Verifiers, Challengers, Leavers, Withdrawers,
  \* Bounds on what only ever grows.
  MaxRecords, MaxBatches, MaxLeaves, MaxDisputes, MaxStake, MaxTime

ASSUME ParameterAssumption ==
  /\ IsFiniteSet(Address)
  /\ ZeroAddress \notin Address
  /\ FalconKey \subseteq PublicKey
  /\ EmptyKey \notin FalconKey
  /\ challengePeriod \in Nat /\ quorum \in Nat
  /\ relayStakeAmount \in Nat /\ verifierStakeAmount \in Nat
  /\ challengerBondAmount \in Nat
  /\ relaySlashAmount \in Nat /\ verifierSlashAmount \in Nat
  /\ UNSTAKE_DELAY \in Nat /\ FALCON_512_SIG_SIZE_MAX \in Nat

ASSUME InputAssumption ==
  /\ SigLength \subseteq Nat /\ StakeValues \subseteq Nat /\ BondValues \subseteq Nat
  /\ Owners \subseteq Address /\ Relays \subseteq Address
  /\ Verifiers \subseteq Address /\ Challengers \subseteq Address
  /\ Leavers \subseteq Address /\ Withdrawers \subseteq Address
  /\ MaxRecords \in Nat /\ MaxBatches \in Nat /\ MaxLeaves \in Nat
  /\ MaxDisputes \in Nat /\ MaxStake \in Nat /\ MaxTime \in Nat

VARIABLES
  dids,                  \* state of the DIDRegistry contract
  now,                   \* block.timestamp
  balance,               \* address(this).balance
  guard,                 \* _guard of nonReentrant: 1 free, 2 inside withdraw
  relayStake, relayExitTime, relayActiveDisputes,
  verifierStake, isRegisteredVerifier, verifierExitTime,
  verifierRoster, verifierCount,
  didNonce,
  records, batches, disputes,
  batchLeafState, batchOpenLeafDisputes,
  targetValidList,       \* _targetValidList: valid attesters still slashable
  targetValidHas,        \* _targetValidHas: never deleted
  verifierLiveExposures,
  exposedLeaves,         \* _exposedLeaves
  pendingWithdrawals

relayVars == <<relayStake, relayExitTime>>
verifierVars == <<verifierStake, isRegisteredVerifier, verifierExitTime,
                  verifierRoster, verifierCount>>
targetVars == <<records, batches, batchLeafState>>
counterVars == <<relayActiveDisputes, batchOpenLeafDisputes>>
exposureVars == <<targetValidList, targetValidHas, verifierLiveExposures,
                  exposedLeaves>>
chainVars == <<dids, now, guard>>

vars == <<chainVars, balance, relayVars, verifierVars, didNonce, targetVars,
          disputes, counterVars, exposureVars, pendingWithdrawals>>

Registry == INSTANCE DIDRegistry

-----------------------------------------------------------------------------
(* The contract's types.                                                   *)

RecordState == {"Provisional", "Confirmed", "Disputed", "Revoked"}
LeafState == {"Undisputed", "Disputed", "Revoked", "Upheld"}

Index == Nat \ {0}

\* What a leaf's hash commits to (_leafHash); the Falcon signature and the
\* payload it signs are one Payload here.
Leaf == [batchIndex : Index, didHash : DID, nonce : Nat, dataHash : Payload]

Record == [dataHash : Payload, didHash : DID, falconSignature : Nat,
           pubKeyHash : FalconKey, submittedAt : Nat, relay : Address,
           nonce : Nat, state : RecordState]

\* The Merkle root stands for the leaves it was built from (see MerkleTree).
Batch == [merkleRoot : Seq(Leaf), submittedAt : Nat, relay : Address,
          revokedLeafCount : Nat, state : RecordState]

\* What a dispute is about: <<targetType, targetIndex, leafIndex>>, the very
\* triple the contract hashes to a target key.  0: a record, 1: a batch leaf.
RecordTarget(i) == <<0, i, 0>>
LeafTarget(b, l) == <<1, b, l>>
Target == {RecordTarget(i) : i \in 1 .. MaxRecords}
            \cup {LeafTarget(b, l) : b \in 1 .. MaxBatches, l \in 1 .. MaxLeaves}

Dispute == [target : Target, challenger : Address, bond : Nat,
            deadline : Nat, fraudAttesters : SUBSET Address,
            validAttesters : SUBSET Address, resolved : BOOLEAN]

-----------------------------------------------------------------------------
(* Stake and committee management.                                         *)

\* nonReentrant: the call enters only while no withdraw is in progress, and
\* leaves the guard as it found it.
NonReentrant == guard = 1

\* A deposit of value into one of the two stake ledgers, up to MaxStake.
Deposited(stake, a, value) == [stake EXCEPT ![a] = @ + value]

stakeRelay(a, value) ==
  /\ value # 0
  /\ relayStake[a] + value <= MaxStake
  /\ relayStake' = Deposited(relayStake, a, value)
  /\ balance' = balance + value
  /\ UNCHANGED <<chainVars, relayExitTime, verifierVars, didNonce, targetVars,
                 disputes, counterVars, exposureVars, pendingWithdrawals>>

announceUnstake(a) ==
  /\ relayStake[a] # 0
  /\ relayActiveDisputes[a] = 0
  /\ relayExitTime' = [relayExitTime EXCEPT ![a] = now + UNSTAKE_DELAY]
  /\ UNCHANGED <<chainVars, balance, relayStake, verifierVars, didNonce,
                 targetVars, disputes, counterVars, exposureVars,
                 pendingWithdrawals>>

\* The announced delay has passed.
ExitDue(exitTime) == exitTime # 0 /\ now >= exitTime

RelayMayLeave(a) ==
  /\ relayActiveDisputes[a] = 0
  /\ ExitDue(relayExitTime[a])

\* _credit, for all the receivers of a transaction at once.
Credit(amounts) == pendingWithdrawals' = Plus(pendingWithdrawals, amounts)

unstakeRelay(a) ==
  /\ NonReentrant
  /\ relayStake[a] # 0
  /\ RelayMayLeave(a)
  /\ relayStake' = [relayStake EXCEPT ![a] = 0]
  /\ relayExitTime' = [relayExitTime EXCEPT ![a] = 0]
  /\ Credit(Each(Address, {a}, relayStake[a]))
  /\ UNCHANGED <<chainVars, balance, verifierVars, didNonce, targetVars,
                 disputes, counterVars, exposureVars>>

\* The first deposit that reaches the required stake joins the roster.
stakeVerifier(v, value) ==
  /\ value # 0
  /\ verifierStake[v] + value <= MaxStake
  /\ verifierStake' = Deposited(verifierStake, v, value)
  /\ balance' = balance + value
  /\ LET joins == /\ ~isRegisteredVerifier[v]
                  /\ verifierStake'[v] >= verifierStakeAmount
     IN  IF joins
         THEN /\ isRegisteredVerifier' = [isRegisteredVerifier EXCEPT ![v] = TRUE]
              /\ verifierRoster' = Append(verifierRoster, v)
              /\ verifierCount' = verifierCount + 1
         ELSE UNCHANGED <<isRegisteredVerifier, verifierRoster, verifierCount>>
  /\ UNCHANGED <<chainVars, relayVars, verifierExitTime, didNonce, targetVars,
                 disputes, counterVars, exposureVars, pendingWithdrawals>>

announceVerifierUnstake(v) ==
  /\ verifierStake[v] # 0
  /\ verifierLiveExposures[v] = 0
  /\ verifierExitTime' = [verifierExitTime EXCEPT ![v] = now + UNSTAKE_DELAY]
  /\ UNCHANGED <<chainVars, balance, relayVars, verifierStake,
                 isRegisteredVerifier, verifierRoster, verifierCount, didNonce,
                 targetVars, disputes, counterVars, exposureVars,
                 pendingWithdrawals>>

\* A mutated form of VerifierMayLeave: exposure is not asked for again.
VerifierMayLeaveExposed(v) ==
  /\ ~isRegisteredVerifier[v]
  /\ ExitDue(verifierExitTime[v])

VerifierMayLeave(v) ==
  /\ ~isRegisteredVerifier[v]
  /\ verifierLiveExposures[v] = 0
  /\ ExitDue(verifierExitTime[v])

unstakeVerifier(v) ==
  /\ NonReentrant
  /\ verifierStake[v] # 0
  /\ VerifierMayLeave(v)
  /\ verifierStake' = [verifierStake EXCEPT ![v] = 0]
  /\ verifierExitTime' = [verifierExitTime EXCEPT ![v] = 0]
  /\ Credit(Each(Address, {v}, verifierStake[v]))
  /\ UNCHANGED <<chainVars, balance, relayVars, isRegisteredVerifier,
                 verifierRoster, verifierCount, didNonce, targetVars, disputes,
                 counterVars, exposureVars>>

\* A mutated form of WithoutEntry: the last entry is dropped, not the i-th.
WithoutLast(roster, i) == SubSeq(roster, 1, Len(roster) - 1)

\* Swap and pop: the last entry takes the place of the i-th.
WithoutEntry(roster, i) ==
  SubSeq([roster EXCEPT ![i] = roster[Len(roster)]], 1, Len(roster) - 1)

\* The loop removes the first entry that holds v, if there is one.
deregisterVerifier(v) ==
  /\ isRegisteredVerifier[v]
  /\ verifierLiveExposures[v] = 0
  /\ isRegisteredVerifier' = [isRegisteredVerifier EXCEPT ![v] = FALSE]
  /\ LET entries == {i \in 1 .. Len(verifierRoster) : verifierRoster[i] = v}
         first == CHOOSE i \in entries : \A j \in entries : i <= j
     IN  IF entries = {}
         THEN UNCHANGED <<verifierRoster, verifierCount>>
         ELSE /\ verifierCount > 0
              /\ verifierRoster' = WithoutEntry(verifierRoster, first)
              /\ verifierCount' = verifierCount - 1
  /\ UNCHANGED <<chainVars, balance, relayVars, verifierStake,
                 verifierExitTime, didNonce, targetVars, disputes, counterVars,
                 exposureVars, pendingWithdrawals>>

-----------------------------------------------------------------------------
(* Submission.                                                             *)

\* The bound on time leaves room for the challenge window of whatever is
\* submitted or disputed now.
WindowFits == now + challengePeriod < MaxTime

\* Both kinds of submission want a staked relay and an active DID.
Accepted(a, did) ==
  relayStake[a] >= relayStakeAmount /\ Registry!isActive(did)

submitAccountable(a, dataHash, did, falconSignature) ==
  /\ Len(records) < MaxRecords
  /\ WindowFits
  /\ Accepted(a, did)
  /\ falconSignature \in 1 .. FALCON_512_SIG_SIZE_MAX
  /\ Registry!PublicKeyAvailable(did)
  /\ didNonce' = [didNonce EXCEPT ![did] = @ + 1]
  /\ records' = Append(records,
       [dataHash |-> dataHash, didHash |-> did,
        falconSignature |-> falconSignature,
        pubKeyHash |-> Registry!getPublicKey(did), submittedAt |-> now,
        relay |-> a, nonce |-> didNonce'[did], state |-> "Provisional"])
  /\ UNCHANGED <<chainVars, balance, relayVars, verifierVars, batches,
                 batchLeafState, disputes, counterVars, exposureVars,
                 pendingWithdrawals>>

\* How often did is among the first i entries.
Occurrences(didHashes, did, i) ==
  Cardinality({j \in 1 .. i : didHashes[j] = did})

\* A mutated form of LeafNonce: a DID's leaves in one batch share a number.
SharedLeafNonce(didHashes, i) == didNonce[didHashes[i]] + 1

\* _processLeaf draws the nonces one after the other.
LeafNonce(didHashes, i) ==
  didNonce[didHashes[i]] + Occurrences(didHashes, didHashes[i], i)

submitBatch(a, didHashes, dataHashes, availabilityLength) ==
  LET k == Len(didHashes) IN
  /\ Len(batches) < MaxBatches
  /\ WindowFits
  /\ k # 0 /\ Len(dataHashes) = k
  /\ availabilityLength = k * FALCON_512_SIG_SIZE_MAX
  /\ \A i \in 1 .. k : Accepted(a, didHashes[i])
  /\ didNonce' = [did \in DID |-> didNonce[did] + Occurrences(didHashes, did, k)]
  /\ batches' = Append(batches,
       [merkleRoot |-> [i \in 1 .. k |->
          [batchIndex |-> Len(batches) + 1, didHash |-> didHashes[i],
           nonce |-> LeafNonce(didHashes, i), dataHash |-> dataHashes[i]]],
        submittedAt |-> now, relay |-> a, revokedLeafCount |-> 0,
        state |-> "Provisional"])
  /\ UNCHANGED <<chainVars, balance, relayVars, verifierVars, records,
                 batchLeafState, disputes, counterVars, exposureVars,
                 pendingWithdrawals>>

-----------------------------------------------------------------------------
(* Exposure: which verifiers can still be slashed for which target.        *)

\* _registerValidAtt for every v of S: only who was never listed is listed.
NewlyExposed(target, S) == S \ targetValidHas[target]

\* verifierLiveExposures after listing, and after releasing, the verifiers S.
Exposed(live, S) == [v \in Address |-> IF v \in S THEN live[v] + 1 ELSE live[v]]

Released(live, S) == [v \in Address |-> IF v \in S THEN live[v] - 1 ELSE live[v]]

\* The subtraction in _releaseExposures reverts the transaction at zero.
Releasable(live, S) == \A v \in S : live[v] > 0

\* _releaseExposures(key).
ReleaseExposures(target) ==
  /\ Releasable(verifierLiveExposures, targetValidList[target])
  /\ verifierLiveExposures' =
       Released(verifierLiveExposures, targetValidList[target])
  /\ targetValidList' = [targetValidList EXCEPT ![target] = {}]

\* A mutated form of RememberExposedLeaf: the leaf is forgotten.
ForgetExposedLeaf(target) == exposedLeaves

\* _rememberExposedLeaf, for a batch leaf.
RememberExposedLeaf(target) ==
  IF target[1] = 0 THEN exposedLeaves
  ELSE [exposedLeaves EXCEPT ![target[2]] = @ \cup {target[3]}]

-----------------------------------------------------------------------------
(* Finalization.                                                           *)

WindowClosed(submittedAt) == now >= submittedAt + challengePeriod

finalizeRecord(i) ==
  /\ i \in DOMAIN records
  /\ records[i].state = "Provisional"
  /\ WindowClosed(records[i].submittedAt)
  /\ records' = [records EXCEPT ![i].state = "Confirmed"]
  /\ ReleaseExposures(RecordTarget(i))
  /\ UNCHANGED <<chainVars, balance, relayVars, verifierVars, didNonce,
                 batches, batchLeafState, disputes, counterVars,
                 targetValidHas, exposedLeaves, pendingWithdrawals>>

\* A mutated form of NoOpenLeafDispute: open leaf disputes are ignored.
AnyOpenLeafDispute(b) == TRUE

NoOpenLeafDispute(b) == batchOpenLeafDisputes[b] = 0

\* The loop over _exposedLeaves releases each remembered leaf once.
finalizeBatch(b) ==
  /\ b \in DOMAIN batches
  /\ batches[b].state = "Provisional"
  /\ WindowClosed(batches[b].submittedAt)
  /\ NoOpenLeafDispute(b)
  /\ batches' = [batches EXCEPT ![b].state = "Confirmed"]
  /\ LET remembered == {LeafTarget(b, l) : l \in exposedLeaves[b]}
         Hits(v) == Cardinality({t \in remembered : v \in targetValidList[t]})
     IN  /\ \A v \in Address : verifierLiveExposures[v] >= Hits(v)
         /\ verifierLiveExposures' =
              Minus(verifierLiveExposures, [v \in Address |-> Hits(v)])
         /\ targetValidList' = [t \in Target |-> IF t \in remembered THEN {}
                                                 ELSE targetValidList[t]]
  /\ exposedLeaves' = [exposedLeaves EXCEPT ![b] = {}]
  /\ UNCHANGED <<chainVars, balance, relayVars, verifierVars, didNonce,
                 records, batchLeafState, disputes, counterVars,
                 targetValidHas, pendingWithdrawals>>

-----------------------------------------------------------------------------
(* Disputes.                                                               *)

\* _targetRelay.
TargetRelay(target) ==
  IF target[1] = 0 THEN records[target[2]].relay ELSE batches[target[2]].relay

\* _openDispute, and the bond that comes with the call.
OpenDispute(a, target, bond) ==
  /\ Len(disputes) < MaxDisputes
  /\ WindowFits
  /\ bond >= challengerBondAmount
  /\ disputes' = Append(disputes,
       [target |-> target, challenger |-> a, bond |-> bond,
        deadline |-> now + challengePeriod, fraudAttesters |-> {},
        validAttesters |-> {}, resolved |-> FALSE])
  /\ relayActiveDisputes' =
       [relayActiveDisputes EXCEPT ![TargetRelay(target)] = @ + 1]
  /\ balance' = balance + bond

openDispute(a, i, bond) ==
  /\ i \in DOMAIN records
  /\ records[i].state = "Provisional"
  /\ OpenDispute(a, RecordTarget(i), bond)
  /\ records' = [records EXCEPT ![i].state = "Disputed"]
  /\ UNCHANGED <<chainVars, relayVars, verifierVars, didNonce, batches,
                 batchLeafState, batchOpenLeafDisputes, exposureVars,
                 pendingWithdrawals>>

\* _verifyProof: some proof leads from leaf at index l to the root.
Proves(leaf, l, root) == root[l] = leaf

\* A mutated form of Disputable: a revoked leaf may be disputed again.
DisputableAgain(b, l) == batchLeafState[b][l] # "Disputed"

Disputable(b, l) == batchLeafState[b][l] \in {"Undisputed", "Upheld"}

openBatchLeafDispute(a, b, l, leaf, bond) ==
  /\ b \in DOMAIN batches
  /\ batches[b].state = "Provisional"
  /\ l \in 1 .. Len(batches[b].merkleRoot)
  /\ Disputable(b, l)
  /\ Proves([leaf EXCEPT !.batchIndex = b], l, batches[b].merkleRoot)
  /\ OpenDispute(a, LeafTarget(b, l), bond)
  /\ batchLeafState' = [batchLeafState EXCEPT ![b][l] = "Disputed"]
  /\ batchOpenLeafDisputes' = [batchOpenLeafDisputes EXCEPT ![b] = @ + 1]
  /\ UNCHANGED <<chainVars, relayVars, verifierVars, didNonce, records,
                 batches, exposureVars, pendingWithdrawals>>

\* _revokeTarget.
RevokeTarget(target) ==
  IF target[1] = 0
  THEN /\ records' = [records EXCEPT ![target[2]].state = "Revoked"]
       /\ UNCHANGED <<batches, batchLeafState>>
  ELSE LET b == target[2]  l == target[3] IN
       /\ batchLeafState' = [batchLeafState EXCEPT ![b][l] = "Revoked"]
       /\ batches' = IF batchLeafState[b][l] = "Revoked" THEN batches
                     ELSE [batches EXCEPT ![b].revokedLeafCount = @ + 1]
       /\ UNCHANGED records

\* A mutated form of UpholdTarget: the record is left under dispute.
LeftDisputed(target) ==
  IF target[1] = 0 THEN UNCHANGED targetVars
  ELSE /\ batchLeafState' = [batchLeafState EXCEPT ![target[2]][target[3]] = "Upheld"]
       /\ UNCHANGED <<records, batches>>

\* The other outcome: undecided again, and disputable again.
UpholdTarget(target) ==
  IF target[1] = 0
  THEN /\ records' = [records EXCEPT ![target[2]].state = "Provisional"]
       /\ UNCHANGED <<batches, batchLeafState>>
  ELSE /\ batchLeafState' = [batchLeafState EXCEPT ![target[2]][target[3]] = "Upheld"]
       /\ UNCHANGED <<records, batches>>

\* A mutated form of ReliefOf: the relay's counter is forgotten.
NoReliefOf(a) == relayActiveDisputes

ReliefOf(a) == [relayActiveDisputes EXCEPT ![a] = @ - 1]

\* _closeDispute; both subtractions revert at zero.
CloseDispute(target) ==
  /\ relayActiveDisputes[TargetRelay(target)] > 0
  /\ relayActiveDisputes' = ReliefOf(TargetRelay(target))
  /\ IF target[1] = 0 THEN UNCHANGED batchOpenLeafDisputes
     ELSE /\ batchOpenLeafDisputes[target[2]] > 0
          /\ batchOpenLeafDisputes' =
               [batchOpenLeafDisputes EXCEPT ![target[2]] = @ - 1]

-----------------------------------------------------------------------------
(* Resolution.                                                             *)

\* A mutated form of CollectFromPool: the pool tried first pays in full.
CollectUnbounded(S, first, other, amount) ==
  [first |-> Each(Address, S, amount), other |-> Each(Address, S, 0)]

\* _collectFromPool for each account of S: what is taken from the pool tried
\* first and, for the shortfall, from the other one.
CollectFromPool(S, first, other, amount) ==
  LET taken == [a \in Address |->
                  IF a \in S THEN AtMost(first[a], amount) ELSE 0]
  IN  [first |-> taken,
       other |-> [a \in Address |->
                    IF a \in S THEN AtMost(other[a], amount - taken[a]) ELSE 0]]

Collected(c) == Total(c.first) + Total(c.other)

\* A mutated form of Fifths: divided before it is multiplied.
FifthsDividedFirst(amount, parts) == (amount \div 5) * parts

\* The split of a relay's slash: three fifths and two fifths.
Fifths(amount, parts) == (amount * parts) \div 5

\* A mutated form of Share: the division rounds up.
ShareRoundedUp(total, n) == IF n = 0 THEN 0 ELSE (total + n - 1) \div n

\* Integer division; the remainder stays with the contract.
Share(total, n) == IF n = 0 THEN 0 ELSE total \div n

\* _payAttesters.
AttesterPay(attesters, total) ==
  Each(Address, attesters, Share(total, Cardinality(attesters)))

\* A mutated form of WrongSide: only the votes of the deciding dispute.
WrongSideOfDispute(d) == d.validAttesters

\* Every verifier that has voted "valid" in this or an earlier dispute.
WrongSide(d) ==
  targetValidList[d.target] \cup NewlyExposed(d.target, d.validAttesters)

\* What a fraud verdict takes: from every wrong-side verifier, verifier pool
\* first, and then from what is left to the relay, relay pool first.
WrongSideSlash(d) ==
  CollectFromPool(WrongSide(d), verifierStake, relayStake, verifierSlashAmount)
VerifierStakeLeft(d) == Minus(verifierStake, WrongSideSlash(d).first)
RelayStakeLeft(d) == Minus(relayStake, WrongSideSlash(d).other)
RelaySlash(d) ==
  CollectFromPool({TargetRelay(d.target)}, RelayStakeLeft(d),
                  VerifierStakeLeft(d), relaySlashAmount)

\* And what it pays: the challenger gets the wrong side's slashes, three
\* fifths of the relay's and the bond back, the fraud voters the other fifths.
FraudPayout(d) ==
  Plus(Each(Address, {d.challenger},
            Collected(WrongSideSlash(d)) + Fifths(Collected(RelaySlash(d)), 3)
              + d.bond),
       AttesterPay(d.fraudAttesters, Fifths(Collected(RelaySlash(d)), 2)))

\* _resolveFraud of dispute i, whose votes are now those of d.
ResolveFraud(i, d) ==
  LET live == Exposed(verifierLiveExposures,
                      NewlyExposed(d.target, d.validAttesters))
  IN  /\ disputes' = [disputes EXCEPT ![i] = [d EXCEPT !.resolved = TRUE]]
      /\ RevokeTarget(d.target)
      /\ CloseDispute(d.target)
      /\ targetValidHas' =
           [targetValidHas EXCEPT ![d.target] = @ \cup d.validAttesters]
      /\ targetValidList' = [targetValidList EXCEPT ![d.target] = {}]
      /\ exposedLeaves' = RememberExposedLeaf(d.target)
      /\ Releasable(live, WrongSide(d))
      /\ verifierLiveExposures' = Released(live, WrongSide(d))
      /\ verifierStake' = Minus(VerifierStakeLeft(d), RelaySlash(d).other)
      /\ relayStake' = Minus(RelayStakeLeft(d), RelaySlash(d).first)
      /\ Credit(FraudPayout(d))

\* Half of the bond compensates the relay, half rewards the valid voters.
SpuriousPayout(d) ==
  Plus(Each(Address, {TargetRelay(d.target)}, d.bond - d.bond \div 2),
       AttesterPay(d.validAttesters, d.bond \div 2))

\* _resolveSpurious of dispute i, whose votes are now those of d.
ResolveSpurious(i, d) ==
  LET new == NewlyExposed(d.target, d.validAttesters) IN
  /\ disputes' = [disputes EXCEPT ![i] = [d EXCEPT !.resolved = TRUE]]
  /\ UpholdTarget(d.target)
  /\ CloseDispute(d.target)
  /\ targetValidHas' = [targetValidHas EXCEPT ![d.target] = @ \cup new]
  /\ targetValidList' = [targetValidList EXCEPT ![d.target] = @ \cup new]
  /\ exposedLeaves' = RememberExposedLeaf(d.target)
  /\ verifierLiveExposures' = Exposed(verifierLiveExposures, new)
  /\ Credit(SpuriousPayout(d))
  /\ UNCHANGED <<verifierStake, relayStake>>

Voted(d, v, verdictIsFraud) ==
  IF verdictIsFraud THEN [d EXCEPT !.fraudAttesters = @ \cup {v}]
  ELSE [d EXCEPT !.validAttesters = @ \cup {v}]

FraudQuorum(d) == Cardinality(d.fraudAttesters) >= quorum
ValidQuorum(d) == Cardinality(d.validAttesters) >= quorum

\* A mutated form of MayAttest: the target's own relay may vote.
MayAttestAnyone(d, v) ==
  /\ isRegisteredVerifier[v] /\ verifierStake[v] >= verifierStakeAmount
  /\ v \notin d.fraudAttesters \cup d.validAttesters

\* A registered, staked verifier without a conflict of interest, once.
MayAttest(d, v) ==
  /\ isRegisteredVerifier[v] /\ verifierStake[v] >= verifierStakeAmount
  /\ v # TargetRelay(d.target)
  /\ v \notin d.fraudAttesters \cup d.validAttesters

\* The signer v is recovered from the signature; who sends it is irrelevant.
submitAttestation(i, v, verdictIsFraud) ==
  /\ NonReentrant
  /\ i \in DOMAIN disputes
  /\ ~disputes[i].resolved
  /\ now <= disputes[i].deadline
  /\ MayAttest(disputes[i], v)
  /\ LET d == Voted(disputes[i], v, verdictIsFraud) IN
       \/ /\ FraudQuorum(d)
          /\ ResolveFraud(i, d)
       \/ /\ ~FraudQuorum(d) /\ ValidQuorum(d)
          /\ ResolveSpurious(i, d)
       \/ /\ ~FraudQuorum(d) /\ ~ValidQuorum(d)
          /\ disputes' = [disputes EXCEPT ![i] = d]
          /\ UNCHANGED <<targetVars, counterVars, exposureVars, relayStake,
                         verifierStake, pendingWithdrawals>>
  /\ UNCHANGED <<chainVars, balance, relayExitTime, isRegisteredVerifier,
                 verifierExitTime, verifierRoster, verifierCount, didNonce>>

\* A mutated form of Overdue: the deadline itself is too late for a vote, and
\* not too early to expire.
OverdueAtDeadline(d) == now >= d.deadline

\* A mutated form of Overdue: only a dispute without votes may expire.
OverdueUnvoted(d) ==
  now > d.deadline /\ d.fraudAttesters \cup d.validAttesters = {}

Overdue(d) == now > d.deadline

expireDispute(i) ==
  /\ NonReentrant
  /\ i \in DOMAIN disputes
  /\ ~disputes[i].resolved
  /\ Overdue(disputes[i])
  /\ disputes' = [disputes EXCEPT ![i].resolved = TRUE]
  /\ RevokeTarget(disputes[i].target)
  /\ CloseDispute(disputes[i].target)
  /\ ReleaseExposures(disputes[i].target)
  /\ Credit(Each(Address, {disputes[i].challenger}, disputes[i].bond \div 2))
  /\ UNCHANGED <<chainVars, balance, relayVars, verifierVars, didNonce,
                 targetValidHas, exposedLeaves>>

-----------------------------------------------------------------------------
(* Withdrawal, the registry, and time.                                     *)

\* withdraw up to its external call: the receiver's code runs next.
withdraw(a) ==
  /\ NonReentrant
  /\ pendingWithdrawals[a] # 0
  /\ balance >= pendingWithdrawals[a]
  /\ guard' = 2
  /\ pendingWithdrawals' = [pendingWithdrawals EXCEPT ![a] = 0]
  /\ balance' = balance - pendingWithdrawals[a]
  /\ UNCHANGED <<dids, now, relayVars, verifierVars, didNonce, targetVars,
                 disputes, counterVars, exposureVars>>

\* The call has returned; a call that fails undoes the whole transaction.
withdrawReturns ==
  /\ guard = 2
  /\ guard' = 1
  /\ UNCHANGED <<dids, now, balance, relayVars, verifierVars, didNonce,
                 targetVars, disputes, counterVars, exposureVars,
                 pendingWithdrawals>>

registryCall(a, did) ==
  /\ \/ \E key \in PublicKey : Registry!registerDID(a, did, key)
     \/ Registry!deactivateDID(a, did)
  /\ UNCHANGED <<now, guard, balance, relayVars, verifierVars, didNonce,
                 targetVars, disputes, counterVars, exposureVars,
                 pendingWithdrawals>>

\* The next block; a transaction is never split between two blocks.
Tick ==
  /\ guard = 1
  /\ now < MaxTime
  /\ now' = now + 1
  /\ UNCHANGED <<dids, guard, balance, relayVars, verifierVars, didNonce,
                 targetVars, disputes, counterVars, exposureVars,
                 pendingWithdrawals>>

-----------------------------------------------------------------------------
(* The contract as deployed.                                               *)

Init ==
  /\ Registry!RegistryInit
  /\ now = 1
  /\ balance = 0
  /\ guard = 1
  /\ relayStake = [a \in Address |-> 0]
  /\ relayExitTime = [a \in Address |-> 0]
  /\ relayActiveDisputes = [a \in Address |-> 0]
  /\ verifierStake = [a \in Address |-> 0]
  /\ isRegisteredVerifier = [a \in Address |-> FALSE]
  /\ verifierExitTime = [a \in Address |-> 0]
  /\ verifierRoster = <<>>
  /\ verifierCount = 0
  /\ didNonce = [did \in DID |-> 0]
  /\ records = <<>>
  /\ batches = <<>>
  /\ disputes = <<>>
  /\ batchLeafState = [b \in 1 .. MaxBatches |-> [l \in 1 .. MaxLeaves |-> "Undisputed"]]
  /\ batchOpenLeafDisputes = [b \in 1 .. MaxBatches |-> 0]
  /\ targetValidList = [t \in Target |-> {}]
  /\ targetValidHas = [t \in Target |-> {}]
  /\ verifierLiveExposures = [a \in Address |-> 0]
  /\ exposedLeaves = [b \in 1 .. MaxBatches |-> {}]
  /\ pendingWithdrawals = [a \in Address |-> 0]

\* The leaves ever posted: whoever opens a leaf dispute claims one of them.
PostedLeaves ==
  UNION {{batches[b].merkleRoot[l] : l \in DOMAIN batches[b].merkleRoot} :
           b \in DOMAIN batches}

BatchInput(S) == UNION {[1 .. k -> S] : k \in 0 .. MaxLeaves}

RelayCall(a) ==
  \/ \E value \in StakeValues : stakeRelay(a, value)
  \/ \E dataHash \in Payload, did \in DID, sig \in SigLength :
       submitAccountable(a, dataHash, did, sig)
  \/ \E didHashes \in BatchInput(DID), dataHashes \in BatchInput(Payload),
        slots \in 0 .. MaxLeaves :
       submitBatch(a, didHashes, dataHashes, slots * FALCON_512_SIG_SIZE_MAX)

VerifierCall(v) ==
  \/ \E value \in StakeValues : stakeVerifier(v, value)
  \/ \E i \in DOMAIN disputes, verdictIsFraud \in BOOLEAN :
       submitAttestation(i, v, verdictIsFraud)

ChallengerCall(a) ==
  \E bond \in BondValues :
    \/ \E i \in DOMAIN records : openDispute(a, i, bond)
    \/ \E b \in DOMAIN batches, l \in 1 .. MaxLeaves, leaf \in PostedLeaves :
         openBatchLeafDispute(a, b, l, leaf, bond)

LeaverCall(a) ==
  \/ announceUnstake(a)
  \/ unstakeRelay(a)
  \/ announceVerifierUnstake(a)
  \/ deregisterVerifier(a)
  \/ unstakeVerifier(a)

\* Permissionless calls.
Settlement ==
  \/ \E i \in DOMAIN records : finalizeRecord(i)
  \/ \E b \in DOMAIN batches : finalizeBatch(b)
  \/ \E i \in DOMAIN disputes : expireDispute(i)

Next ==
  \/ \E a \in Owners, did \in DID : registryCall(a, did)
  \/ \E a \in Relays : RelayCall(a)
  \/ \E a \in Verifiers : VerifierCall(a)
  \/ \E a \in Challengers : ChallengerCall(a)
  \/ \E a \in Leavers : LeaverCall(a)
  \/ Settlement
  \/ \E a \in Withdrawers : withdraw(a)
  \/ withdrawReturns
  \/ Tick

Spec == Init /\ [][Next]_vars

\* Blocks are produced, external calls return, and somebody eventually sends
\* each permissionless call that stays possible.  Nothing else is promised:
\* no relay, verifier or challenger has to act.
Fairness ==
  /\ WF_vars(Tick)
  /\ WF_vars(withdrawReturns)
  /\ \A i \in 1 .. MaxRecords : WF_vars(finalizeRecord(i))
  /\ \A b \in 1 .. MaxBatches : WF_vars(finalizeBatch(b))
  /\ \A i \in 1 .. MaxDisputes : WF_vars(expireDispute(i))

FairSpec == Spec /\ Fairness

-----------------------------------------------------------------------------
(* Properties.                                                             *)

\* The type of every variable, group by group.
ChainTypes ==
  /\ Registry!RegistryTypes
  /\ now \in Nat
  /\ guard \in {1, 2}

MoneyTypes ==
  /\ balance \in Nat
  /\ relayStake \in [Address -> Nat]
  /\ verifierStake \in [Address -> Nat]
  /\ pendingWithdrawals \in [Address -> Nat]

CommitteeTypes ==
  /\ relayExitTime \in [Address -> Nat]
  /\ isRegisteredVerifier \in [Address -> BOOLEAN]
  /\ verifierExitTime \in [Address -> Nat]
  /\ verifierRoster \in Seq(Address)
  /\ verifierCount \in Nat

TargetTypes ==
  /\ didNonce \in [DID -> Nat]
  /\ records \in Seq(Record) /\ Len(records) <= MaxRecords
  /\ batches \in Seq(Batch) /\ Len(batches) <= MaxBatches
  /\ batchLeafState \in [1 .. MaxBatches -> [1 .. MaxLeaves -> LeafState]]

\* A dispute is about a record or a leaf that was posted.
Posted(target) ==
  IF target[1] = 0 THEN target[2] \in DOMAIN records
  ELSE /\ target[2] \in DOMAIN batches
       /\ target[3] \in DOMAIN batches[target[2]].merkleRoot

DisputeTypes ==
  /\ disputes \in Seq(Dispute) /\ Len(disputes) <= MaxDisputes
  /\ \A i \in DOMAIN disputes : Posted(disputes[i].target)

ExposureTypes ==
  /\ relayActiveDisputes \in [Address -> Nat]
  /\ batchOpenLeafDisputes \in [1 .. MaxBatches -> Nat]
  /\ targetValidList \in [Target -> SUBSET Address]
  /\ targetValidHas \in [Target -> SUBSET Address]
  /\ verifierLiveExposures \in [Address -> Nat]
  /\ exposedLeaves \in [1 .. MaxBatches -> SUBSET (1 .. MaxLeaves)]

TypeOK ==
  /\ ChainTypes
  /\ MoneyTypes
  /\ CommitteeTypes
  /\ TargetTypes
  /\ DisputeTypes
  /\ ExposureTypes

TargetState(target) ==
  IF target[1] = 0 THEN records[target[2]].state
  ELSE batchLeafState[target[2]][target[3]]

\* No dispute can be opened about it any more.
Settled(target) ==
  IF target[1] = 0 THEN TargetState(target) \in {"Confirmed", "Revoked"}
  ELSE TargetState(target) = "Revoked" \/ batches[target[2]].state = "Confirmed"

DisputesAbout(target) == {i \in DOMAIN disputes : disputes[i].target = target}
OpenDisputes == {i \in DOMAIN disputes : ~disputes[i].resolved}

\* How a resolved dispute ended.
FoundFraud(d) == d.resolved /\ FraudQuorum(d)
FoundSpurious(d) == d.resolved /\ ~FraudQuorum(d) /\ ValidQuorum(d)
Expired(d) == d.resolved /\ ~FraudQuorum(d) /\ ~ValidQuorum(d)

\* The two counters that block exits and finalization say what they are meant
\* to: relayActiveDisputes counts the open disputes that name the relay,
\* batchOpenLeafDisputes the leaves under dispute, and a target is in state
\* Disputed exactly while one dispute about it, and only one, is open.  So no
\* decrement in _closeDispute can revert and block a resolution.
DisputeCounters ==
  /\ \A a \in Address :
       relayActiveDisputes[a] =
         Cardinality({i \in OpenDisputes : TargetRelay(disputes[i].target) = a})
  /\ \A b \in 1 .. MaxBatches :
       batchOpenLeafDisputes[b] =
         Cardinality({l \in 1 .. MaxLeaves : batchLeafState[b][l] = "Disputed"})
  /\ \A i \in OpenDisputes : TargetState(disputes[i].target) = "Disputed"
  /\ \A i, j \in OpenDisputes : disputes[i].target = disputes[j].target => i = j
  /\ \A target \in Target :
       Posted(target) /\ TargetState(target) = "Disputed" =>
         DisputesAbout(target) \cap OpenDisputes # {}

\* A verifier's exposure counter is the number of undecided targets it has
\* vouched for in a resolved dispute: every spurious verdict lists its valid
\* voters, a target that settles releases all of them once (also through
\* _exposedLeaves), and a released key is never used again, as the comment in
\* _releaseExposures says.  So no release can revert a verdict.
ExposureLedger ==
  /\ \A v \in Address :
       verifierLiveExposures[v] =
         Cardinality({target \in Target : v \in targetValidList[target]})
  /\ \A target \in Target :
       targetValidList[target] =
         IF Posted(target) /\ ~Settled(target)
         THEN UNION {disputes[i].validAttesters :
                       i \in DisputesAbout(target) \ OpenDisputes}
         ELSE {}
  /\ \A target \in Target :
       Posted(target) /\ ~Settled(target) =>
         targetValidHas[target] = targetValidList[target]
  /\ \A b \in 1 .. MaxBatches, l \in 1 .. MaxLeaves :
       targetValidList[LeafTarget(b, l)] # {} => l \in exposedLeaves[b]

\* States and votes tell the same story.  A target is revoked exactly when a
\* dispute about it found fraud or ran past its deadline, and that dispute is
\* the last one; a confirmed record has survived its whole window and every
\* dispute about it was spurious; an undecided dispute has no quorum; nobody
\* votes twice or about a record of its own.
VerdictMatchesVotes ==
  /\ \A i \in DOMAIN disputes :
       LET d == disputes[i] IN
       /\ d.fraudAttesters \cap d.validAttesters = {}
       /\ TargetRelay(d.target) \notin d.fraudAttesters \cup d.validAttesters
       /\ ~d.resolved /\ quorum > 0 => ~FraudQuorum(d) /\ ~ValidQuorum(d)
       /\ Expired(d) => now > d.deadline
       /\ FoundFraud(d) \/ Expired(d) =>
            \A j \in DisputesAbout(d.target) : j <= i
  /\ \A target \in Target :
       Posted(target) =>
         (TargetState(target) = "Revoked" <=>
            \E i \in DisputesAbout(target) :
              FoundFraud(disputes[i]) \/ Expired(disputes[i]))
  /\ \A r \in DOMAIN records :
       records[r].state = "Confirmed" =>
         /\ now >= records[r].submittedAt + challengePeriod
         /\ \A i \in DisputesAbout(RecordTarget(r)) : FoundSpurious(disputes[i])

\* The step reaches a fraud verdict in dispute i.
FraudVerdict(i) ==
  i \in OpenDisputes /\ disputes'[i].resolved /\ FraudQuorum(disputes'[i])

\* Cross-dispute slashing: the verdict that proves fraud slashes, exactly once
\* and to the extent there is stake, every verifier that voted "valid" about
\* the target in this or any earlier dispute, and no other committee member
\* but the target's relay loses anything.
FraudSlashesEveryWrongVote ==
  [][\A i \in DOMAIN disputes :
       FraudVerdict(i) =>
         LET target == disputes[i].target
             wrong  == UNION {disputes'[j].validAttesters : j \in DisputesAbout(target)}
             Funds(a) == verifierStake[a] + relayStake[a]
         IN  \A a \in Address \ {TargetRelay(target)} :
               verifierStake'[a] + relayStake'[a] =
                 IF a \in wrong
                 THEN Funds(a) - AtMost(Funds(a), verifierSlashAmount)
                 ELSE Funds(a)]_vars

\* A relay with a record or leaf under dispute, and a verifier that vouched
\* for a target nobody has settled yet, keep their stakes: only a fraud
\* verdict takes from them (announceUnstake, unstakeRelay, unstakeVerifier).
LockedStakeStays ==
  [][\A a \in Address :
       \/ \E i \in DOMAIN disputes : FraudVerdict(i)
       \/ /\ (\E i \in OpenDisputes : TargetRelay(disputes[i].target) = a)
               => relayStake'[a] >= relayStake[a]
          /\ (\E i \in DOMAIN disputes :
                 /\ FoundSpurious(disputes[i])
                 /\ a \in disputes[i].validAttesters
                 /\ ~Settled(disputes[i].target))
               => verifierStake'[a] >= verifierStake[a]]_vars

\* What is decided stays decided: a settled target keeps its state, a resolved
\* dispute its votes, and a posted record or batch everything but its state
\* and the count of its revoked leaves.
DecisionsAreFinal ==
  [][/\ \A target \in Target :
          Posted(target) /\ Settled(target) =>
            TargetState(target)' = TargetState(target)
     /\ \A i \in DOMAIN disputes \ OpenDisputes : disputes'[i] = disputes[i]
     /\ \A i \in DOMAIN records :
          [records'[i] EXCEPT !.state = records[i].state] = records[i]
     /\ \A b \in DOMAIN batches :
          [batches'[b] EXCEPT !.state = batches[b].state,
                              !.revokedLeafCount = batches[b].revokedLeafCount]
            = batches[b]]_vars

\* The audit view of a batch: revokedLeafCount is the number of leaves that
\* are revoked, and a confirmed batch has no leaf under dispute.
BatchAudit ==
  \A b \in DOMAIN batches :
    /\ batches[b].revokedLeafCount =
         Cardinality({l \in 1 .. MaxLeaves : batchLeafState[b][l] = "Revoked"})
    /\ batches[b].state = "Confirmed" =>
         \A l \in 1 .. MaxLeaves : batchLeafState[b][l] # "Disputed"

\* The committee: the roster lists every registered verifier once and nobody
\* else, and verifierCount is its length, whatever order members join and
\* leave in (deregisterVerifier's swap and pop).
RosterMatches ==
  /\ {verifierRoster[i] : i \in DOMAIN verifierRoster}
       = {v \in Address : isRegisteredVerifier[v]}
  /\ \A i, j \in DOMAIN verifierRoster :
       verifierRoster[i] = verifierRoster[j] => i = j
  /\ verifierCount = Len(verifierRoster)

\* The money the contract owes: stakes, credited payouts and the bonds of the
\* open disputes.
LockedBonds == [i \in DOMAIN disputes |->
                  IF disputes[i].resolved THEN 0 ELSE disputes[i].bond]
Liabilities == Total(relayStake) + Total(verifierStake)
                 + Total(pendingWithdrawals) + Total(LockedBonds)

\* The half of a bond an expired dispute burns, and the most a verdict loses
\* to integer division: less than one unit per attester when a reward is
\* shared, and at most one when a relay's slash is split three to two.
Burned == [i \in DOMAIN disputes |->
             IF Expired(disputes[i])
             THEN disputes[i].bond - disputes[i].bond \div 2 ELSE 0]
Dust == [i \in DOMAIN disputes |->
           IF FoundFraud(disputes[i])
           THEN Cardinality(disputes[i].fraudAttesters)
           ELSE IF FoundSpurious(disputes[i])
           THEN Cardinality(disputes[i].validAttesters) - 1 ELSE 0]

\* The contract can always pay everything it owes, also while a withdrawal is
\* in the receiver's hands ("every credited wei is backed by a deducted wei",
\* _resolveFraud).
Solvency == balance >= Liabilities

\* And it keeps nothing else: all it retains is the burned halves of expired
\* bonds and rounding dust ("Rounding dust is retained by the contract").
KeepsOnlyDust ==
  quorum > 0 => balance - Liabilities <= Total(Burned) + Total(Dust)

\* Every consumption of a DID's sequence number: the records and the leaves.
RecordUses(did) == {i \in DOMAIN records : records[i].didHash = did}
LeafUses(did) ==
  UNION {{<<b, l>> : l \in {k \in DOMAIN batches[b].merkleRoot :
                              batches[b].merkleRoot[k].didHash = did}} :
           b \in DOMAIN batches}
NoncesUsed(did) ==
  {records[i].nonce : i \in RecordUses(did)}
    \cup {batches[u[1]].merkleRoot[u[2]].nonce : u \in LeafUses(did)}

\* Each device's history is totally ordered and without gaps: over records and
\* batch leaves together, a DID's nonces are 1, 2, ..., didNonce, each used
\* once (++didNonce in submitAccountable and, leaf by leaf, in _processLeaf).
NonceLedger ==
  \A did \in DID :
    /\ NoncesUsed(did) = 1 .. didNonce[did]
    /\ Cardinality(RecordUses(did)) + Cardinality(LeafUses(did)) = didNonce[did]

\* The key snapshot of a record can be checked against the registry for ever,
\* also after the DID was deactivated, and every leaf has a registered DID.
SnapshotMatchesRegistry ==
  /\ \A i \in DOMAIN records :
       /\ dids[records[i].didHash].registered
       /\ dids[records[i].didHash].publicKey = records[i].pubKeyHash
  /\ \A b \in DOMAIN batches :
       \A l \in DOMAIN batches[b].merkleRoot :
         dids[batches[b].merkleRoot[l].didHash].registered

\* Every dispute ends, even if no verifier ever votes (expireDispute).
EveryDisputeEnds ==
  \A i \in 1 .. MaxDisputes :
    i \in DOMAIN disputes ~> (i \in DOMAIN disputes /\ disputes[i].resolved)

\* Every record and every batch is settled in the end: disputes delay it, but
\* each costs a bond, so there are finitely many.
EverythingSettles ==
  /\ \A i \in 1 .. MaxRecords :
       i \in DOMAIN records ~> (i \in DOMAIN records /\ Settled(RecordTarget(i)))
  /\ \A b \in 1 .. MaxBatches :
       b \in DOMAIN batches ~>
         (b \in DOMAIN batches /\ batches[b].state = "Confirmed")

-----------------------------------------------------------------------------
(* The refinement of Adjudication.                                         *)

\* Where a target stands, whose it is, and when it may be confirmed.
Phase(target) ==
  IF ~Posted(target) THEN "absent"
  ELSE IF TargetState(target) = "Revoked" THEN "revoked"
  ELSE IF Settled(target) THEN "confirmed"
  ELSE IF TargetState(target) = "Disputed" THEN "disputed" ELSE "undecided"
SubmittedAt(target) ==
  IF target[1] = 0 THEN records[target[2]].submittedAt
  ELSE batches[target[2]].submittedAt

\* The dispute in progress about a disputed target; there is one.
OpenDisputeAbout(target) ==
  CHOOSE d \in {disputes[i] : i \in OpenDisputes} : d.target = target

\* A target's case: its own state, the votes and the deadline of the dispute in
\* progress, and who is listed as liable for it.
CaseOf(target) ==
  LET posted   == Posted(target)
      disputed == Phase(target) = "disputed"
  IN  [phase    |-> Phase(target),
       accused  |-> IF posted THEN TargetRelay(target) ELSE ZeroAddress,
       window   |-> IF posted THEN SubmittedAt(target) + challengePeriod ELSE 0,
       deadline |-> IF disputed THEN OpenDisputeAbout(target).deadline ELSE 0,
       fraud    |-> IF disputed THEN OpenDisputeAbout(target).fraudAttesters ELSE {},
       valid    |-> IF disputed THEN OpenDisputeAbout(target).validAttesters ELSE {},
       liable   |-> targetValidList[target]]

court == INSTANCE Adjudication WITH cases <- [t \in Target |-> CaseOf(t)]

\* Each record and each batch leaf is adjudicated as Adjudication says, and
\* independently of the others: the list of disputes, the states of records,
\* batches and leaves, the counters and the lists of liable verifiers
\* (openDispute to finalizeBatch) implement one case per target.
ImplementsAdjudication == court!Spec

-----------------------------------------------------------------------------
(* What the documentation says and the code does not do.                   *)

\* "Every 'valid' attestation ever cast on a target is registered [...]
\* verifiers therefore remain punishable until the target is finalized, not
\* only while their own dispute is open": no verifier takes its stake away
\* while a target it has voted "valid" about is undecided.
VotersStayPunishable ==
  [][\A i \in DOMAIN disputes :
       \/ Settled(disputes[i].target)
       \/ \E j \in DOMAIN disputes : FraudVerdict(j)
       \/ \A v \in disputes[i].validAttesters :
            verifierStake'[v] >= verifierStake[v]]_vars

\* "confirmed fraud revokes the record and slashes the relay": a relay proven
\* guilty of fraud loses something.
FraudCostsTheRelay ==
  [][\A i \in DOMAIN disputes :
       FraudVerdict(i) =>
         LET relay == TargetRelay(disputes[i].target) IN
         relayStake'[relay] + verifierStake'[relay]
           < relayStake[relay] + verifierStake[relay]]_vars
=============================================================================
