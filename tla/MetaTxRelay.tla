---------------------------- MODULE MetaTxRelay -----------------------------
(***************************************************************************)
(* smart-contracts/contracts/MetaTxRelay.sol: the first-generation relay   *)
(* contract.  Whoever calls submitTransaction has a reading stored under   *)
(* an active DID, with a snapshot of the DID's key and the caller's word   *)
(* about the signature.  A commitment to reading, DID and signature keeps  *)
(* the same submission from being stored twice.                            *)
(*                                                                         *)
(* The registry's calls are part of Next, so the two contracts interleave. *)
(* A reverted transaction is no step; block.timestamp is stored and never  *)
(* read, and left out.                                                     *)
(***************************************************************************)
EXTENDS Naturals, Sequences, FiniteSets, DIDRegistry

CONSTANTS
  DataHash,        \* hashes of readings
  Signature,       \* byte strings offered as a Falcon signature
  FalconSignature, \* those of 1 .. FALCON_512_SIG_SIZE_MAX bytes
  MaxTransactions  \* bound on the transactions stored

ASSUME RelayAssumption ==
  FalconSignature \subseteq Signature /\ MaxTransactions \in Nat

VARIABLES
  transactions,
  transactionCount,
  usedCommitments   \* the commitments mapped to true

relayVars == <<transactions, transactionCount, usedCommitments>>
vars == <<dids, relayVars>>

VerifiedTransaction ==
  [dataHash : DataHash, didHash : DID, falconSignature : FalconSignature,
   pubKeyHash : FalconKey, verified : BOOLEAN]

Init ==
  /\ RegistryInit
  /\ transactions = <<>>
  /\ transactionCount = 0
  /\ usedCommitments = {}

-----------------------------------------------------------------------------

\* keccak256(abi.encodePacked(dataHash, didHash, falconSignature)).  Two
\* fields of 32 bytes and one of any length, last: the packing is injective.
Commitment(dataHash, didHash, falconSignature) ==
  <<dataHash, didHash, falconSignature>>

\* A mutated form of Unused: a commitment may be used again.
UnusedOrNot(commitment) == TRUE

Unused(commitment) == commitment \notin usedCommitments

WellSized(falconSignature) == falconSignature \in FalconSignature

submitTransaction(dataHash, didHash, falconSignature, verificationResult) ==
  LET commitment == Commitment(dataHash, didHash, falconSignature) IN
  /\ Len(transactions) < MaxTransactions
  /\ WellSized(falconSignature)
  /\ isActive(didHash)
  /\ Unused(commitment)
  /\ PublicKeyAvailable(didHash)
  /\ usedCommitments' = usedCommitments \cup {commitment}
  /\ transactions' = Append(transactions,
       [dataHash |-> dataHash, didHash |-> didHash,
        falconSignature |-> falconSignature,
        pubKeyHash |-> getPublicKey(didHash),
        verified |-> verificationResult])
  /\ transactionCount' = transactionCount + 1
  /\ UNCHANGED dids

registryCall(sender, did) ==
  /\ \/ \E key \in PublicKey : registerDID(sender, did, key)
     \/ deactivateDID(sender, did)
  /\ UNCHANGED relayVars

Next ==
  \/ \E dataHash \in DataHash, did \in DID, sig \in Signature,
        verified \in BOOLEAN : submitTransaction(dataHash, did, sig, verified)
  \/ \E sender \in Address, did \in DID : registryCall(sender, did)

Spec == Init /\ [][Next]_vars

-----------------------------------------------------------------------------

\* The type of every variable; what is stored has a signature of legal size.
TypeOK ==
  /\ RegistryTypes
  /\ transactions \in Seq(VerifiedTransaction)
  /\ transactionCount \in Nat
  /\ usedCommitments \subseteq DataHash \X DID \X FalconSignature

CommitmentOf(t) == Commitment(t.dataHash, t.didHash, t.falconSignature)

\* Replay protection: no submission is stored twice, whoever sends it again
\* and with whatever verdict, also after its DID was deactivated; and nothing
\* is blocked that was not stored ("each unique (dataHash, didHash, signature)
\* can only be submitted once").
StoredOnce ==
  /\ \A i, j \in DOMAIN transactions :
       CommitmentOf(transactions[i]) = CommitmentOf(transactions[j]) => i = j
  /\ usedCommitments = {CommitmentOf(transactions[i]) : i \in DOMAIN transactions}
  /\ transactionCount = Len(transactions)

\* The registry's storage holds for ever the key whose hash was stored with a
\* transaction, whatever happens to its DID after the submission ("Snapshot public
\* key hash at submission time for offline verification integrity").  It says
\* nothing of getPublicKey, which reverts once the DID is deactivated.
SnapshotKept ==
  \A i \in DOMAIN transactions :
    /\ dids[transactions[i].didHash].registered
    /\ dids[transactions[i].didHash].publicKey = transactions[i].pubKeyHash
=============================================================================
