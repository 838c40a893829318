---------------------------- MODULE DIDRegistry ----------------------------
(***************************************************************************)
(* The on-chain DID registry (smart-contracts/contracts/DIDRegistry.sol):  *)
(* a mapping from DID hashes to documents.  A document is written once, by *)
(* whoever registers the DID first, and can only be deactivated afterwards.*)
(*                                                                         *)
(* A transaction that reverts leaves no trace, so it is no step here: the  *)
(* require's of a function are the guards of its action.  registeredAt is  *)
(* only ever compared with 0 and is kept as the Boolean "registered".      *)
(***************************************************************************)

CONSTANTS
  Address,      \* accounts that can send a transaction
  ZeroAddress,  \* address(0), the owner of a DID nobody registered
  DID,          \* DID hashes
  PublicKey,    \* byte strings offered as a public key
  FalconKey,    \* those of FALCON_512_PK_SIZE = 897 bytes
  EmptyKey      \* bytes(""), the key of a DID nobody registered

ASSUME RegistryAssumption ==
  /\ ZeroAddress \notin Address
  /\ FalconKey \subseteq PublicKey
  /\ EmptyKey \notin FalconKey

VARIABLE dids

DIDDocument == [owner : Address \cup {ZeroAddress},
                publicKey : FalconKey \cup {EmptyKey},
                registered : BOOLEAN,
                active : BOOLEAN]

\* What the mapping holds for a key that was never written.
NoDocument == [owner |-> ZeroAddress, publicKey |-> EmptyKey,
               registered |-> FALSE, active |-> FALSE]

RegistryInit == dids = [did \in DID |-> NoDocument]

-----------------------------------------------------------------------------

\* A mutated form of Unregistered: a deactivated DID may be taken again.
UnregisteredOrInactive(did) == ~dids[did].active

\* require(dids[didHash].registeredAt == 0, "DID already exists")
Unregistered(did) == ~dids[did].registered

\* require(falconPublicKey.length == FALCON_512_PK_SIZE, ...)
WellSizedKey(key) == key \in FalconKey

registerDID(sender, did, key) ==
  /\ Unregistered(did)
  /\ WellSizedKey(key)
  /\ dids' = [dids EXCEPT ![did] = [owner |-> sender, publicKey |-> key,
                                    registered |-> TRUE, active |-> TRUE]]

deactivateDID(sender, did) ==
  /\ dids[did].owner = sender
  /\ dids[did].active
  /\ dids' = [dids EXCEPT ![did].active = FALSE]

\* The two views other contracts call.  getPublicKey reverts for a DID that does
\* not exist or is deactivated: whoever calls it has PublicKeyAvailable as a
\* guard.  (The getter of the public mapping hands the key out for ever.)
isActive(did) == dids[did].registered /\ dids[did].active

PublicKeyAvailable(did) == dids[did].registered /\ dids[did].active

getPublicKey(did) == dids[did].publicKey

RegistryNext ==
  \E sender \in Address, did \in DID :
    \/ \E key \in PublicKey : registerDID(sender, did, key)
    \/ deactivateDID(sender, did)

RegistrySpec == RegistryInit /\ [][RegistryNext]_dids

-----------------------------------------------------------------------------

\* A document has an owner and a key exactly when it was registered, and only
\* a registered DID can be active (isActive's two conjuncts never disagree).
RegistryTypes ==
  /\ dids \in [DID -> DIDDocument]
  /\ \A did \in DID :
       /\ dids[did].registered <=> dids[did].owner \in Address
       /\ dids[did].registered <=> dids[did].publicKey \in FalconKey
       /\ dids[did].active => dids[did].registered

\* An identity is permanent: no sequence of registrations and deactivations
\* hands a registered DID to another owner or key, or revives a deactivated
\* one.  Contracts that store a hash of the key rely on it (registerDID's
\* "DID already exists", deactivateDID has no inverse).
IdentityIsPermanent ==
  [][\A did \in DID :
       dids[did].registered =>
         /\ dids'[did].registered
         /\ dids'[did].owner = dids[did].owner
         /\ dids'[did].publicKey = dids[did].publicKey
         /\ dids'[did].active => dids[did].active]_dids
=============================================================================
