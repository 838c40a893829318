----------------------- MODULE BackendContractsProofs -----------------------
(***************************************************************************)
(* Theorems about the three contracts of the backend, for every value of   *)
(* their constants: the registry of DIDs, the relay that calls it, and the *)
(* ECDSA baseline on the same chain.                                       *)
(***************************************************************************)
EXTENDS BackendContracts, SequenceTheorems, TLAPS

-----------------------------------------------------------------------------
(* The registry of DIDs.                                                   *)

\* What a registration writes is a document with an owner and a key.
LEMMA RegisterTypes ==
  ASSUME RegistryTypes, NEW sender \in Address, NEW did \in DID, NEW key \in PublicKey,
         registerDID(sender, did, key)
  PROVE  RegistryTypes'
<1> DEFINE doc == [owner |-> sender, publicKey |-> key,
                   registered |-> TRUE, active |-> TRUE]
<1>1. key \in FalconKey /\ dids' = [dids EXCEPT ![did] = doc]
      BY DEF registerDID, WellSizedKey
<1>2. doc \in DIDDocument BY <1>1 DEF DIDDocument
<1>3. QED BY <1>1, <1>2 DEF RegistryTypes

\* A deactivation changes nothing but the active flag.
LEMMA DeactivateTypes ==
  ASSUME RegistryTypes, NEW sender \in Address, NEW did \in DID,
         deactivateDID(sender, did)
  PROVE  RegistryTypes'
<1> DEFINE doc == [dids[did] EXCEPT !.active = FALSE]
<1>1. dids[did] \in DIDDocument BY DEF RegistryTypes
<1>2. /\ doc \in DIDDocument /\ doc.owner = dids[did].owner
      /\ doc.publicKey = dids[did].publicKey
      /\ doc.registered = dids[did].registered /\ doc.active = FALSE
      BY <1>1 DEF DIDDocument
<1>3. dids' = [dids EXCEPT ![did] = doc] BY DEF deactivateDID
<1> HIDE DEF doc
<1>4. QED BY <1>2, <1>3 DEF RegistryTypes

\* The empty registry is well typed.
LEMMA RegistryInitTypes == RegistryInit => RegistryTypes
BY RegistryAssumption DEF RegistryInit, NoDocument, RegistryTypes, DIDDocument

\* Every step keeps the types.
LEMMA RegistryNextTypes == RegistryTypes /\ [RegistryNext]_dids => RegistryTypes'
<1> SUFFICES ASSUME RegistryTypes, [RegistryNext]_dids PROVE RegistryTypes'
    OBVIOUS
<1>1. CASE RegistryNext BY <1>1, RegisterTypes, DeactivateTypes DEF RegistryNext
<1>2. CASE UNCHANGED dids BY <1>2 DEF RegistryTypes
<1>3. QED BY <1>1, <1>2

\* A document has an owner and a key exactly when it was registered, and only
\* registered DIDs are active.
THEOREM RegistryTypeCorrect == RegistrySpec => []RegistryTypes
BY RegistryInitTypes, RegistryNextTypes, PTL DEF RegistrySpec

\* No step hands a registered DID to someone else or revives it.
LEMMA StepKeepsIdentity ==
  ASSUME RegistryTypes, RegistryNext, NEW did \in DID, dids[did].registered
  PROVE  /\ dids'[did].registered
         /\ dids'[did].owner = dids[did].owner
         /\ dids'[did].publicKey = dids[did].publicKey
         /\ dids'[did].active => dids[did].active
<1>1. PICK sender \in Address, d \in DID :
        \/ \E key \in PublicKey : registerDID(sender, d, key)
        \/ deactivateDID(sender, d)
      BY DEF RegistryNext
<1>2. CASE d # did
  <2>1. dids'[did] = dids[did]
        BY <1>1, <1>2 DEF RegistryTypes, registerDID, deactivateDID
  <2>2. QED BY <2>1
<1>3. CASE d = did /\ \E key \in PublicKey : registerDID(sender, d, key)
      BY <1>3 DEF registerDID, Unregistered
<1>4. CASE d = did /\ deactivateDID(sender, d)
  <2>1. dids[did] \in DIDDocument BY DEF RegistryTypes
  <2>2. dids'[did] = [dids[did] EXCEPT !.active = FALSE]
        BY <1>4 DEF deactivateDID, RegistryTypes
  <2>3. QED BY <2>1, <2>2 DEF DIDDocument
<1>5. QED BY <1>1, <1>2, <1>3, <1>4

\* An identity is permanent in every behaviour of the registry: whoever
\* stores a snapshot of a DID's key can rely on it for ever.
THEOREM PermanentIdentity == RegistrySpec => IdentityIsPermanent
<1>1. RegistryTypes /\ [RegistryNext]_dids =>
        [\A did \in DID :
           dids[did].registered =>
             /\ dids'[did].registered
             /\ dids'[did].owner = dids[did].owner
             /\ dids'[did].publicKey = dids[did].publicKey
             /\ dids'[did].active => dids[did].active]_dids
      BY StepKeepsIdentity
<1>2. QED BY <1>1, RegistryTypeCorrect, PTL DEF RegistrySpec, IdentityIsPermanent

-----------------------------------------------------------------------------
(* The relay.                                                              *)

\* What a stored transaction looks like.
LEMMA SubmitTypes ==
  ASSUME TypeOK, NEW m \in DataHash, NEW did \in DID, NEW sig, NEW res \in BOOLEAN,
         submitTransaction(m, did, sig, res)
  PROVE  /\ TypeOK'
         /\ \E t \in VerifiedTransaction :
              /\ transactions' = Append(transactions, t)
              /\ CommitmentOf(t) = Commitment(m, did, sig)
              /\ t.didHash = did
              /\ t.pubKeyHash = dids[did].publicKey
<1> DEFINE t == [dataHash |-> m, didHash |-> did, falconSignature |-> sig,
                 pubKeyHash |-> getPublicKey(did), verified |-> res]
<1>1. sig \in FalconSignature BY DEF submitTransaction, WellSized
<1>2. dids[did].registered
      BY DEF submitTransaction, isActive
<1>3. dids[did].publicKey \in FalconKey
      BY <1>2 DEF TypeOK, RegistryTypes
<1>4. t \in VerifiedTransaction
      BY <1>1, <1>3 DEF VerifiedTransaction, getPublicKey
<1>5. transactions' = Append(transactions, t) BY DEF submitTransaction
<1>6. transactions' \in Seq(VerifiedTransaction)
      BY <1>4, <1>5, AppendProperties DEF TypeOK
<1>7. RegistryTypes'
      BY DEF TypeOK, submitTransaction, RegistryTypes
<1>8. transactionCount' \in Nat BY DEF TypeOK, submitTransaction
<1>9. usedCommitments' \subseteq DataHash \X DID \X FalconSignature
      BY <1>1 DEF TypeOK, submitTransaction, Commitment
<1>10. TypeOK' BY <1>6, <1>7, <1>8, <1>9 DEF TypeOK
<1>11. CommitmentOf(t) = Commitment(m, did, sig) BY DEF CommitmentOf
<1>12. QED
       BY <1>4, <1>5, <1>10, <1>11 DEF getPublicKey

\* A call of the registry keeps the types, and the documents of the DIDs that
\* are registered.
LEMMA RegistryCallTypes ==
  ASSUME TypeOK, NEW a \in Address, NEW did \in DID, registryCall(a, did)
  PROVE  /\ TypeOK'
         /\ \A d \in DID : dids[d].registered =>
              dids'[d].registered /\ dids'[d].publicKey = dids[d].publicKey
<1> USE DEF RegistryTypes, DIDDocument
<1>1. dids \in [DID -> DIDDocument] BY DEF TypeOK
<1>2. CASE \E key \in PublicKey : registerDID(a, did, key)
  <2>1. PICK key \in FalconKey :
          /\ ~dids[did].registered
          /\ dids' = [dids EXCEPT ![did] = [owner |-> a, publicKey |-> key,
                                            registered |-> TRUE, active |-> TRUE]]
        BY <1>2 DEF registerDID, Unregistered,
                    WellSizedKey
  <2>2. RegistryTypes' BY <1>1, <2>1 DEF TypeOK
  <2>3. \A d \in DID : dids[d].registered => dids'[d] = dids[d] BY <1>1, <2>1
  <2>4. QED BY <2>2, <2>3 DEF TypeOK, registryCall, relayVars
<1>3. CASE deactivateDID(a, did)
  <2>1. dids' = [dids EXCEPT ![did].active = FALSE]
        BY <1>3 DEF deactivateDID
  <2>2. \A d \in DID : /\ dids'[d].registered = dids[d].registered
                       /\ dids'[d].publicKey = dids[d].publicKey
        BY <1>1, <2>1
  <2>3. RegistryTypes' BY <1>1, <2>1 DEF TypeOK
  <2>4. QED BY <2>2, <2>3 DEF TypeOK, registryCall, relayVars
<1>4. QED BY <1>2, <1>3 DEF registryCall

-----------------------------------------------------------------------------
(* The invariant: types, replay protection, and agreement with the         *)
(* registry.  StoredOnce and SnapshotKept are inductive on the types.      *)

Inv == TypeOK /\ StoredOnce /\ SnapshotKept

\* Appending a transaction with an unused commitment.
LEMMA SubmitStoredOnce ==
  ASSUME TypeOK, StoredOnce, NEW m \in DataHash, NEW did \in DID, NEW sig,
         NEW res \in BOOLEAN, submitTransaction(m, did, sig, res)
  PROVE  StoredOnce'
<1>1. PICK t \in VerifiedTransaction :
        /\ transactions' = Append(transactions, t)
        /\ CommitmentOf(t) = Commitment(m, did, sig)
      BY SubmitTypes
<1> DEFINE k == Len(transactions) + 1
<1>2. /\ DOMAIN transactions = 1 .. Len(transactions)
      /\ DOMAIN transactions' = 1 .. k
      /\ Len(transactions') = k
      /\ transactions'[k] = t
      /\ \A i \in DOMAIN transactions : transactions'[i] = transactions[i]
      /\ Len(transactions) \in Nat
      BY <1>1 DEF TypeOK
<1>3. Commitment(m, did, sig) \notin usedCommitments
      BY DEF submitTransaction, Unused
<1>4. \A i \in DOMAIN transactions : CommitmentOf(transactions[i]) # CommitmentOf(t)
      BY <1>1, <1>3 DEF StoredOnce
<1>5. \A i, j \in DOMAIN transactions' :
        CommitmentOf(transactions'[i]) = CommitmentOf(transactions'[j]) => i = j
  <2> SUFFICES ASSUME NEW i \in 1 .. k, NEW j \in 1 .. k,
                      CommitmentOf(transactions'[i]) = CommitmentOf(transactions'[j])
               PROVE  i = j
      BY <1>2
  <2>1. CASE i = k /\ j # k
    <3>1. j \in DOMAIN transactions BY <1>2, <2>1
    <3>2. QED BY <1>2, <1>4, <2>1, <3>1
  <2>2. CASE i # k /\ j = k
    <3>1. i \in DOMAIN transactions BY <1>2, <2>2
    <3>2. QED BY <1>2, <1>4, <2>2, <3>1
  <2>3. CASE i # k /\ j # k
    <3>1. i \in DOMAIN transactions /\ j \in DOMAIN transactions BY <1>2, <2>3
    <3>2. QED BY <1>2, <3>1 DEF StoredOnce
  <2>4. QED BY <2>1, <2>2, <2>3
<1>6. usedCommitments' = {CommitmentOf(transactions'[i]) : i \in DOMAIN transactions'}
  <2>1. usedCommitments' =
          {CommitmentOf(transactions[i]) : i \in DOMAIN transactions}
            \cup {CommitmentOf(t)}
        BY <1>1 DEF submitTransaction, StoredOnce
  <2>2. DOMAIN transactions' = DOMAIN transactions \cup {k} BY <1>2
  <2>3. QED BY <1>2, <2>1, <2>2
<1>7. transactionCount' = Len(transactions')
      BY <1>2 DEF submitTransaction, StoredOnce
<1>8. QED BY <1>5, <1>6, <1>7 DEF StoredOnce, CommitmentOf

\* The new transaction's snapshot is the registry's key, the others' stay.
LEMMA SubmitSnapshot ==
  ASSUME TypeOK, SnapshotKept, NEW m \in DataHash, NEW did \in DID, NEW sig,
         NEW res \in BOOLEAN, submitTransaction(m, did, sig, res)
  PROVE  SnapshotKept'
<1>1. PICK t \in VerifiedTransaction :
        /\ transactions' = Append(transactions, t)
        /\ t.didHash = did
        /\ t.pubKeyHash = dids[did].publicKey
      BY SubmitTypes
<1>2. /\ DOMAIN transactions = 1 .. Len(transactions)
      /\ DOMAIN transactions' = DOMAIN transactions \cup {Len(transactions) + 1}
      /\ transactions'[Len(transactions) + 1] = t
      /\ \A i \in DOMAIN transactions : transactions'[i] = transactions[i]
      BY <1>1 DEF TypeOK
<1>3. dids[did].registered /\ dids' = dids
      BY DEF submitTransaction, isActive
<1>4. QED BY <1>1, <1>2, <1>3 DEF SnapshotKept

\* The invariant holds at deployment.
LEMMA InitInv == Init => Inv
BY RegistryAssumption, RelayAssumption
   DEF Init, Inv, TypeOK, StoredOnce, SnapshotKept, RegistryInit,
       NoDocument, RegistryTypes, DIDDocument

\* Every call of either contract keeps it.
LEMMA NextInv == Inv /\ [Next]_vars => Inv'
<1> SUFFICES ASSUME Inv, [Next]_vars PROVE Inv'
    OBVIOUS
<1>1. ASSUME NEW m \in DataHash, NEW did \in DID, NEW sig \in Signature,
             NEW res \in BOOLEAN, submitTransaction(m, did, sig, res)
      PROVE  Inv'
      BY <1>1, SubmitTypes, SubmitStoredOnce, SubmitSnapshot DEF Inv
<1>2. ASSUME NEW a \in Address, NEW did \in DID, registryCall(a, did)
      PROVE  Inv'
  <2>1. UNCHANGED relayVars BY <1>2 DEF registryCall
  <2>2. TypeOK' BY <1>2, RegistryCallTypes DEF Inv
  <2>3. StoredOnce' BY <2>1 DEF Inv, StoredOnce, relayVars
  <2>4. \A i \in DOMAIN transactions : transactions[i].didHash \in DID
    <3>1. transactions \in Seq(VerifiedTransaction) BY DEF Inv, TypeOK
    <3>2. \A i \in DOMAIN transactions : transactions[i] \in VerifiedTransaction
          BY <3>1
    <3>3. QED BY <3>2 DEF VerifiedTransaction
  <2>5. SnapshotKept'
        BY <1>2, <2>1, <2>4, RegistryCallTypes DEF Inv, SnapshotKept, relayVars
  <2>6. QED BY <2>2, <2>3, <2>5 DEF Inv
<1>3. CASE UNCHANGED vars
      BY <1>3 DEF Inv, TypeOK, StoredOnce, SnapshotKept, vars, relayVars,
                  RegistryTypes
<1>4. QED BY <1>1, <1>2, <1>3 DEF Next

\* Types, for every set of accounts, DIDs, keys, readings and signatures.
THEOREM TypeCorrect == Spec => []TypeOK
<1>1. Inv => TypeOK BY DEF Inv
<1>2. QED BY <1>1, InitInv, NextInv, PTL DEF Spec

\* submitTransaction stores every submission at most once, and blocks none
\* that was not stored.
THEOREM ReplayProtection == Spec => []StoredOnce
<1>1. Inv => StoredOnce BY DEF Inv
<1>2. QED BY <1>1, InitInv, NextInv, PTL DEF Spec

\* The registry's storage holds the key of every stored transaction for ever,
\* through deactivations and attempts to register the DID again; that it is the
\* key with the stored hash, not that getPublicKey returns it.
THEOREM SnapshotsKept == Spec => []SnapshotKept
<1>1. Inv => SnapshotKept BY DEF Inv
<1>2. QED BY <1>1, InitInv, NextInv, PTL DEF Spec

-----------------------------------------------------------------------------
(* The baseline.                                                           *)

\* The names of its events, and what they carry.
Switched == "SignerVerificationEnabled"
Registered == "SignerRegistered"
Stored == "DataVerifiedWithSig"
Event ==
  [name : {Switched}, enabled : BOOLEAN]
    \cup [name : {Registered}, signer : Address \cup {baseline!Nobody}]
    \cup [name : {"DataVerified", Stored}, dataHash : DataHash,
          signer : Address \cup {baseline!Nobody}]

\* The events tell what the contract holds: the last switch event is the
\* switch, and every registered signer has its event.
SwitchIsLast ==
  \A j \in baseline!Named({Switched}) :
    (\A l \in baseline!Named({Switched}) : l <= j)
      => signerVerificationEnabled = events[j].enabled
SignersHaveEvents ==
  \A s \in registeredSigners :
    \E j \in baseline!Named({Registered}) : events[j].signer = s

BaselineInv ==
  events \in Seq(Event) /\ SwitchIsLast /\ SignersHaveEvents /\ BaselineAuditable

\* A transaction that emits an event of what it has checked and written keeps
\* the events true.
LEMMA Emitted ==
  ASSUME BaselineInv, NEW e \in Event, baseline!Emit(e),
         e.name = Switched => signerVerificationEnabled' = e.enabled,
         e.name # Switched => UNCHANGED signerVerificationEnabled,
         e.name = Registered => registeredSigners' = registeredSigners \cup {e.signer},
         e.name # Registered => UNCHANGED registeredSigners,
         e.name \in {"DataVerified", Stored} /\ signerVerificationEnabled =>
           e.signer \in registeredSigners,
         e.name = Stored =>
           \E v \in BOOLEAN : baseline!ecrecover(e.dataHash, v, latestSig') = e.signer,
         e.name # Stored => UNCHANGED latestSig
  PROVE  BaselineInv'
<1>1. PICK n : n = Len(events) + 1 OBVIOUS
<1>2. events \in Seq(Event) /\ events' = Append(events, e)
      BY DEF BaselineInv, baseline!Emit
<1>3. /\ events' \in Seq(Event) /\ DOMAIN events' = DOMAIN events \cup {n}
      /\ events'[n] = e /\ n \in Nat
      /\ \A k \in DOMAIN events : k \in Nat /\ k < n /\ events'[k] = events[k]
      BY <1>1, <1>2
<1>4. Switched # Registered /\ Switched # Stored /\ Registered # Stored
      /\ Switched # "DataVerified" /\ Registered # "DataVerified"
      BY DEF Switched, Registered, Stored
<1>5. SwitchIsLast'
  <2>1. CASE e.name = Switched
    <3>1. ASSUME NEW j \in DOMAIN events', events'[j].name = Switched,
                 \A l \in DOMAIN events' : events'[l].name = Switched => l <= j
          PROVE  signerVerificationEnabled' = events'[j].enabled
      <4>1. n <= j BY <1>3, <2>1, <3>1
      <4>2. j = n BY <1>3, <4>1
      <4>3. QED BY <1>3, <2>1, <4>2
    <3>2. QED BY <3>1 DEF SwitchIsLast, baseline!Named
  <2>2. CASE e.name # Switched
    <3>1. ASSUME NEW j \in DOMAIN events', events'[j].name = Switched,
                 \A l \in DOMAIN events' : events'[l].name = Switched => l <= j
          PROVE  signerVerificationEnabled' = events'[j].enabled
      <4>1. j \in DOMAIN events BY <1>3, <2>2, <3>1
      <4>2. \A l \in DOMAIN events : events[l].name = Switched => l <= j
            BY <1>3, <3>1
      <4>3. events[j].name = Switched BY <1>3, <3>1, <4>1
      <4>4. signerVerificationEnabled = events[j].enabled
            BY <4>1, <4>2, <4>3 DEF BaselineInv, SwitchIsLast, baseline!Named
      <4>5. QED BY <1>3, <2>2, <4>1, <4>4
    <3>2. QED BY <3>1 DEF SwitchIsLast, baseline!Named
  <2>3. QED BY <2>1, <2>2
<1>6. SignersHaveEvents'
  <2>1. \A s \in registeredSigners :
          \E j \in DOMAIN events' : events'[j].name = Registered /\ events'[j].signer = s
        BY <1>3 DEF BaselineInv, SignersHaveEvents, baseline!Named
  <2>2. e.name = Registered =>
          n \in DOMAIN events' /\ events'[n].name = Registered /\ events'[n].signer = e.signer
        BY <1>3
  <2>3. QED BY <2>1, <2>2 DEF SignersHaveEvents, baseline!Named
<1>7. baseline!RestrictedAreRegistered'
  <2>1. ASSUME NEW k \in DOMAIN events', events'[k].name \in {"DataVerified", Stored},
               NEW j \in DOMAIN events', events'[j].name = Switched, j < k,
               events'[j].enabled,
               \A l \in DOMAIN events' : events'[l].name = Switched /\ l < k => l <= j
        PROVE  \E i \in DOMAIN events' : /\ events'[i].name = Registered /\ i < k
                                         /\ events'[i].signer = events'[k].signer
    <3>1. j \in DOMAIN events /\ events[j].name = Switched /\ events[j].enabled
      <4>1. j # n BY <1>3, <2>1
      <4>2. QED BY <1>3, <2>1, <4>1
    <3>2. CASE k = n
      <4>1. \A l \in DOMAIN events : events[l].name = Switched => l <= j
            BY <1>3, <2>1, <3>2
      <4>2. signerVerificationEnabled
            BY <3>1, <4>1 DEF BaselineInv, SwitchIsLast, baseline!Named
      <4>3. e.signer \in registeredSigners BY <1>3, <2>1, <3>2, <4>2
      <4>4. PICK i \in DOMAIN events :
              events[i].name = Registered /\ events[i].signer = e.signer
            BY <4>3 DEF BaselineInv, SignersHaveEvents, baseline!Named
      <4>5. QED BY <1>3, <3>2, <4>4
    <3>3. CASE k # n
      <4>1. k \in DOMAIN events /\ events'[k] = events[k] BY <1>3, <2>1, <3>3
      <4>2. \A l \in DOMAIN events : events[l].name = Switched /\ l < k => l <= j
            BY <1>3, <2>1
      <4>3. events[k].name \in {"DataVerified", Stored} BY <2>1, <4>1
      <4>4. PICK i \in DOMAIN events : /\ events[i].name = Registered /\ i < k
                                       /\ events[i].signer = events[k].signer
            BY <2>1, <3>1, <4>1, <4>2, <4>3
               DEF BaselineInv, BaselineAuditable, baseline!RestrictedAreRegistered,
                   baseline!Named, baseline!Submissions, Switched, Registered, Stored
      <4>5. QED BY <1>3, <4>1, <4>4
    <3>4. QED BY <3>2, <3>3
  <2>2. QED
        BY <2>1 DEF baseline!RestrictedAreRegistered, baseline!Named,
                    baseline!Submissions, Switched, Registered, Stored
<1>8. baseline!StoredIsAuditable'
  <2>1. ASSUME NEW k \in DOMAIN events', events'[k].name = Stored,
               \A j \in DOMAIN events' : events'[j].name = Stored => j <= k
        PROVE  \E v \in BOOLEAN :
                 baseline!ecrecover(events'[k].dataHash, v, latestSig') = events'[k].signer
    <3>1. CASE e.name = Stored
      <4>1. n <= k BY <1>3, <2>1, <3>1
      <4>2. k = n BY <1>3, <4>1
      <4>3. QED BY <1>3, <3>1, <4>2
    <3>2. CASE e.name # Stored
      <4>1. k \in DOMAIN events /\ events'[k] = events[k] BY <1>3, <2>1, <3>2
      <4>2. \A j \in DOMAIN events : events[j].name = Stored => j <= k BY <1>3, <2>1
      <4>3. \E v \in BOOLEAN :
              baseline!ecrecover(events[k].dataHash, v, latestSig) = events[k].signer
            BY <2>1, <4>1, <4>2 DEF BaselineInv, BaselineAuditable,
                   baseline!StoredIsAuditable, baseline!Named, Stored
      <4>4. QED BY <3>2, <4>1, <4>3
    <3>3. QED BY <3>1, <3>2
  <2>2. QED
        BY <2>1 DEF baseline!StoredIsAuditable, baseline!Named, Stored,
                    baseline!ecrecover
<1>9. QED BY <1>3, <1>5, <1>6, <1>7, <1>8 DEF BaselineInv, BaselineAuditable

\* Both submissions check the signer the signature recovers to.
LEMMA AdmittedSigner ==
  ASSUME NEW m \in DataHash, NEW v \in BOOLEAN, NEW sig \in baseline!EcdsaSignature,
         NEW s, s = baseline!ecrecover(m, v, sig), baseline!Admitted(s)
  PROVE  /\ s \in Address \cup {baseline!Nobody}
         /\ signerVerificationEnabled => s \in registeredSigners
<1>1. s # baseline!Zero /\ (signerVerificationEnabled => s \in registeredSigners)
      BY DEF baseline!Admitted
<1>2. sig # baseline!Malformed BY <1>1 DEF baseline!ecrecover
<1>3. sig.by \in Address BY <1>2 DEF baseline!EcdsaSignature
<1>4. QED BY <1>1, <1>2, <1>3 DEF baseline!ecrecover

\* Every transaction of the baseline keeps its events true.
LEMMA BaselineStep ==
  ASSUME BaselineInv, baseline!Next
  PROVE  BaselineInv'
<1>1. /\ Switched # Registered /\ Switched # Stored /\ Registered # Stored
      /\ Switched # "DataVerified" /\ Registered # "DataVerified"
      /\ Stored # "DataVerified"
      BY DEF Switched, Registered, Stored
<1>2. ASSUME NEW enabled \in BOOLEAN, baseline!setSignerVerification(enabled)
      PROVE  BaselineInv'
  <2>1. PICK e : e = [name |-> Switched, enabled |-> enabled] OBVIOUS
  <2>2. e \in Event /\ e.name = Switched /\ e.enabled = enabled BY <2>1 DEF Event
  <2>3. /\ signerVerificationEnabled' = enabled /\ baseline!Emit(e)
        /\ UNCHANGED <<latestSig, registeredSigners>>
        BY <1>2, <2>1 DEF baseline!setSignerVerification, Switched
  <2>4. QED BY <1>1, <2>2, <2>3, Emitted
<1>3. ASSUME NEW signer \in Address \cup {baseline!Nobody},
             baseline!registerSigner(signer)
      PROVE  BaselineInv'
  <2>1. PICK e : e = [name |-> Registered, signer |-> signer] OBVIOUS
  <2>2. e \in Event /\ e.name = Registered /\ e.signer = signer BY <2>1 DEF Event
  <2>3. /\ registeredSigners' = registeredSigners \cup {signer} /\ baseline!Emit(e)
        /\ UNCHANGED <<latestSig, signerVerificationEnabled>>
        BY <1>3, <2>1 DEF baseline!registerSigner, Registered
  <2>4. QED BY <1>1, <2>2, <2>3, Emitted
<1>4. ASSUME NEW m \in DataHash, NEW v \in BOOLEAN,
             NEW sig \in baseline!EcdsaSignature, baseline!submitAndVerify(m, v, sig)
      PROVE  BaselineInv'
  <2>1. PICK s : s = baseline!ecrecover(m, v, sig) OBVIOUS
  <2>2. PICK e : e = [name |-> "DataVerified", dataHash |-> m, signer |-> s] OBVIOUS
  <2>3. /\ baseline!Admitted(s) /\ baseline!Emit(e)
        /\ UNCHANGED <<latestSig, registeredSigners, signerVerificationEnabled>>
        BY <1>4, <2>1, <2>2 DEF baseline!submitAndVerify
  <2>4. /\ s \in Address \cup {baseline!Nobody}
        /\ signerVerificationEnabled => s \in registeredSigners
        BY <2>1, <2>3, AdmittedSigner
  <2>5. e \in Event /\ e.name = "DataVerified" /\ e.signer = s
        BY <2>2, <2>4 DEF Event
  <2>6. QED BY <1>1, <2>3, <2>4, <2>5, Emitted
<1>5. ASSUME NEW m \in DataHash, NEW v \in BOOLEAN,
             NEW sig \in baseline!EcdsaSignature, baseline!submitVerifyAndStore(m, v, sig)
      PROVE  BaselineInv'
  <2>1. PICK s : s = baseline!ecrecover(m, v, sig) OBVIOUS
  <2>2. PICK e : e = [name |-> Stored, dataHash |-> m, signer |-> s] OBVIOUS
  <2>3. /\ baseline!Admitted(s) /\ baseline!Emit(e) /\ latestSig' = sig
        /\ UNCHANGED <<registeredSigners, signerVerificationEnabled>>
        BY <1>5, <2>1, <2>2 DEF baseline!submitVerifyAndStore, Stored
  <2>4. /\ s \in Address \cup {baseline!Nobody}
        /\ signerVerificationEnabled => s \in registeredSigners
        BY <2>1, <2>3, AdmittedSigner
  <2>5. e \in Event /\ e.name = Stored /\ e.signer = s /\ e.dataHash = m
        BY <2>2, <2>4 DEF Event
  <2>6. baseline!ecrecover(e.dataHash, v, latestSig') = e.signer
        BY <2>1, <2>3, <2>5
  <2>7. QED BY <1>1, <2>3, <2>4, <2>5, <2>6, Emitted
<1>6. QED BY <1>2, <1>3, <1>4, <1>5 DEF baseline!Next

\* The events of the baseline tell which submissions were restricted, and the
\* stored signature is that of the last submission that stored one, for any
\* number of transactions of both paths in any order.
THEOREM EventsTell == ChainSpec => []BaselineAuditable
<1>1. ChainInit => BaselineInv
  <2>1. ASSUME ChainInit PROVE events = <<>> /\ registeredSigners = {}
        BY <2>1 DEF ChainInit, baseline!Init
  <2>2. <<>> \in Seq(Event) /\ DOMAIN <<>> = {} OBVIOUS
  <2>3. QED
        BY <2>1, <2>2 DEF BaselineInv, SwitchIsLast, SignersHaveEvents,
           BaselineAuditable, baseline!RestrictedAreRegistered,
           baseline!StoredIsAuditable, baseline!Named, baseline!Submissions
<1>2. ASSUME BaselineInv, [ChainNext]_<<vars, baselineVars>> PROVE BaselineInv'
  <2>1. CASE baseline!Next BY <1>2, <2>1, BaselineStep
  <2>2. CASE UNCHANGED baselineVars
        BY <1>2, <2>2 DEF baselineVars, BaselineInv, SwitchIsLast, SignersHaveEvents,
           BaselineAuditable, baseline!RestrictedAreRegistered,
           baseline!StoredIsAuditable, baseline!Named, baseline!Submissions,
           baseline!ecrecover
  <2>3. QED BY <1>2, <2>1, <2>2 DEF ChainNext, relayTransaction, baselineTransaction
<1>3. BaselineInv => BaselineAuditable BY DEF BaselineInv
<1>4. QED BY <1>1, <1>2, <1>3, PTL DEF ChainSpec
=============================================================================
