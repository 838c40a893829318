------------------------------ MODULE MCRelay -------------------------------
(***************************************************************************)
(* AccountableRelay started where the interesting part begins: the         *)
(* committee has joined, the relays have staked and the DIDs are anchored. *)
(* The contract reaches each such state from Init with one stakeVerifier   *)
(* per member (in any order), one stakeRelay per relay and one registerDID *)
(* per DID, all in the first block.                                        *)
(***************************************************************************)
EXTENDS AccountableRelay, TLC

CONSTANTS
  Committee,      \* who has joined
  StakedRelays,   \* who has staked as a relay
  VerifierFunds,  \* the stake of each committee member
  RelayFunds      \* the stake of each staked relay

\* stakeVerifier puts a committee member on the roster at that stake.
ASSUME CommitteeAssumption ==
  VerifierFunds >= verifierStakeAmount /\ VerifierFunds > 0

JoiningOrders ==
  {order \in [1 .. Cardinality(Committee) -> Committee] :
     \A v \in Committee : \E i \in DOMAIN order : order[i] = v}

Anchored ==
  \E key \in FalconKey, owner \in Owners \cup Relays :
    dids = [did \in DID |-> [owner |-> owner, publicKey |-> key,
                             registered |-> TRUE, active |-> TRUE]]

Deployed ==
  /\ Anchored
  /\ now = 1
  /\ guard = 1
  /\ relayStake = Each(Address, StakedRelays, RelayFunds)
  /\ relayExitTime = [a \in Address |-> 0]
  /\ relayActiveDisputes = [a \in Address |-> 0]
  /\ verifierStake = Each(Address, Committee, VerifierFunds)
  /\ isRegisteredVerifier = [a \in Address |-> a \in Committee]
  /\ verifierExitTime = [a \in Address |-> 0]
  /\ verifierRoster \in JoiningOrders
  /\ verifierCount = Cardinality(Committee)
  /\ balance = Total(relayStake) + Total(verifierStake)
  /\ didNonce = [did \in DID |-> 0]
  /\ records = <<>>
  /\ batches = <<>>
  /\ disputes = <<>>
  /\ batchLeafState = [b \in 1 .. MaxBatches |-> [l \in 1 .. MaxLeaves |-> "Undisputed"]]
  /\ batchOpenLeafDisputes = [b \in 1 .. MaxBatches |-> 0]
  /\ targetValidList = [t \in Target |-> {}]
  /\ targetValidHas = [t \in Target |-> {}]
  /\ verifierLiveExposures = [a \in Address |-> 0]
  /\ exposedLeaves = [b \in 1 .. MaxBatches |-> {}]
  /\ pendingWithdrawals = [a \in Address |-> 0]

DeployedSpec == Deployed /\ [][Next]_vars

FairDeployedSpec == DeployedSpec /\ Fairness

\* Members that are no relays are interchangeable where this is used:
\* they hold the same roles there, and Deployed has all the joining orders.
CommitteeSymmetry == Permutations(Committee \ StakedRelays)
=============================================================================
