---------------------------- MODULE ECDSAVerify -----------------------------
(***************************************************************************)
(* smart-contracts/contracts/ECDSAVerify.sol: the baseline of the gas      *)
(* comparison.  It keeps only the latest submission, and events.           *)
(*                                                                         *)
(* A signature (r, s) is the hash and the account it was made with; from   *)
(* it ecrecover returns that account for that hash and the recovery byte v *)
(* it was made with, an account of nobody for another hash or the other v, *)
(* and the zero address when it is malformed.                              *)
(***************************************************************************)
EXTENDS Naturals, Sequences, SequencesExt, FiniteSets

CONSTANTS
  Address, Hash,
  MaxEvents   \* bound on the transactions, each of which emits an event

Zero == "address(0)"
Nobody == "recovered"
Unset == "0x0"

Malformed == [by |-> Zero, hash |-> Unset]
EcdsaSignature == [by : Address, hash : Hash] \cup {Malformed}

\* v is TRUE when it is the recovery byte the signature was made with.
ecrecover(dataHash, v, signature) ==
  IF signature = Malformed THEN Zero
  ELSE IF v /\ signature.hash = dataHash THEN signature.by ELSE Nobody

VARIABLES
  latestDataHash, latestSigner,
  latestSig,           \* latestSigR and latestSigS; v is not stored
  registeredSigners, signerVerificationEnabled,
  events

vars == <<latestDataHash, latestSigner, latestSig, registeredSigners,
          signerVerificationEnabled, events>>

Init ==
  /\ latestDataHash = Unset /\ latestSigner = Zero /\ latestSig = Malformed
  /\ registeredSigners = {} /\ signerVerificationEnabled = FALSE
  /\ events = <<>>

Emit(event) == Len(events) < MaxEvents /\ events' = Append(events, event)

setSignerVerification(enabled) ==
  /\ signerVerificationEnabled' = enabled
  /\ Emit([name |-> "SignerVerificationEnabled", enabled |-> enabled])
  /\ UNCHANGED <<latestDataHash, latestSigner, latestSig, registeredSigners>>

registerSigner(signer) ==
  /\ registeredSigners' = registeredSigners \cup {signer}
  /\ Emit([name |-> "SignerRegistered", signer |-> signer])
  /\ UNCHANGED <<latestDataHash, latestSigner, latestSig, signerVerificationEnabled>>

Admitted(signer) ==
  /\ signer # Zero
  /\ signerVerificationEnabled => signer \in registeredSigners

submitAndVerify(dataHash, v, signature) ==
  LET signer == ecrecover(dataHash, v, signature) IN
    /\ Admitted(signer)
    /\ latestDataHash' = dataHash /\ latestSigner' = signer
    /\ Emit([name |-> "DataVerified", dataHash |-> dataHash, signer |-> signer])
    /\ UNCHANGED <<latestSig, registeredSigners, signerVerificationEnabled>>

\* A mutated form of submitVerifyAndStore: the signature is stored once.
StoreFirst(dataHash, v, signature) ==
  LET signer == ecrecover(dataHash, v, signature) IN
    /\ Admitted(signer)
    /\ latestDataHash' = dataHash /\ latestSigner' = signer
    /\ latestSig' = IF latestSig = Malformed THEN signature ELSE latestSig
    /\ Emit([name |-> "DataVerifiedWithSig", dataHash |-> dataHash, signer |-> signer])
    /\ UNCHANGED <<registeredSigners, signerVerificationEnabled>>

submitVerifyAndStore(dataHash, v, signature) ==
  LET signer == ecrecover(dataHash, v, signature) IN
    /\ Admitted(signer)
    /\ latestDataHash' = dataHash /\ latestSigner' = signer /\ latestSig' = signature
    /\ Emit([name |-> "DataVerifiedWithSig", dataHash |-> dataHash, signer |-> signer])
    /\ UNCHANGED <<registeredSigners, signerVerificationEnabled>>

Next ==
  \/ \E enabled \in BOOLEAN : setSignerVerification(enabled)
  \/ \E signer \in Address \cup {Nobody} : registerSigner(signer)
  \/ \E dataHash \in Hash, v \in BOOLEAN, signature \in EcdsaSignature :
       \/ submitAndVerify(dataHash, v, signature)
       \/ submitVerifyAndStore(dataHash, v, signature)

Spec == Init /\ [][Next]_vars

-----------------------------------------------------------------------------

Named(names) == {k \in DOMAIN events : events[k].name \in names}
Submissions == Named({"DataVerified", "DataVerifiedWithSig"})

\* The events alone tell which submissions were restricted: whatever order the
\* restriction is switched and signers are registered in, a submission made
\* while the last switch says `enabled' is of a signer registered before it.
RestrictedAreRegistered ==
  \A k \in Submissions :
    LET switches == {j \in Named({"SignerVerificationEnabled"}) : j < k} IN
      (\E j \in switches : events[j].enabled /\ \A l \in switches : l <= j)
        => \E j \in Named({"SignerRegistered"}) : j < k /\ events[j].signer = events[k].signer

\* The stored signature can be audited against the last submission that stored
\* one, which is the latest submission as long as both modes are not mixed: with
\* one of the two recovery bytes, which are not stored, it gives the signer.
StoredIsAuditable ==
  \A k \in Named({"DataVerifiedWithSig"}) :
    (\A j \in Named({"DataVerifiedWithSig"}) : j <= k)
      => \E v \in BOOLEAN :
           ecrecover(events[k].dataHash, v, latestSig) = events[k].signer

=============================================================================
