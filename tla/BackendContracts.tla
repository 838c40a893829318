-------------------------- MODULE BackendContracts --------------------------
(***************************************************************************)
(* The contracts that hardhat_backend.py, deploy_contracts, puts on one    *)
(* chain: DIDRegistry and MetaTxRelay, which calls it, for the relay path, *)
(* and ECDSAVerify for the direct path.  Transactions of the two paths     *)
(* come in any order.                                                      *)
(***************************************************************************)
EXTENDS MetaTxRelay

VARIABLES
  latestDataHash, latestSigner, latestSig,      \* of ECDSAVerify
  registeredSigners, signerVerificationEnabled, events

baseline == INSTANCE ECDSAVerify WITH Hash <- DataHash, MaxEvents <- MaxTransactions

baselineVars == <<latestDataHash, latestSigner, latestSig, registeredSigners,
                  signerVerificationEnabled, events>>

ChainInit == Init /\ baseline!Init

relayTransaction == Next /\ UNCHANGED baselineVars

baselineTransaction == baseline!Next /\ UNCHANGED <<dids, relayVars>>

\* The bound on transactions is one for both paths.
ChainNext ==
  /\ relayTransaction \/ baselineTransaction
  /\ Len(transactions') + Len(events') <= MaxTransactions

ChainSpec == ChainInit /\ [][ChainNext]_<<vars, baselineVars>>

-----------------------------------------------------------------------------

\* The baseline can be audited from its events, whatever the order in which
\* signers are registered and the restriction is switched on and off: what was
\* submitted under the restriction is of a signer registered before, and the
\* stored signature is that of the last submission that stored one ("Stores a
\* full ECDSA signature (r, s) on-chain for audit.").
BaselineAuditable == baseline!RestrictedAreRegistered /\ baseline!StoredIsAuditable
=============================================================================
