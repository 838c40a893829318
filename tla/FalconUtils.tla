---------------------------- MODULE FalconUtils -----------------------------
(***************************************************************************)
(* shared/falcon_utils.py: the library chosen when the module is imported, *)
(* and the one each call dispatches to.                                    *)
(*                                                                         *)
(* A host says what is installed: the platform, whether oqs can be         *)
(* imported, which mechanisms this build of it has, and whether pqcrypto   *)
(* can be imported.                                                        *)
(***************************************************************************)
EXTENDS Naturals

Host == [linux : BOOLEAN, oqs : BOOLEAN, mechanisms : SUBSET {"Falcon-512", "ML-DSA"},
         pqcrypto : BOOLEAN]

\* oqs is not imported at all on other platforms.
oqs_available(host) == host.linux /\ host.oqs /\ "Falcon-512" \in host.mechanisms

pqcrypto_available(host) == ~oqs_available(host) /\ host.pqcrypto

\* _BACKEND, get_backend().
get_backend(host) ==
  IF oqs_available(host) THEN "liboqs"
  ELSE IF pqcrypto_available(host) THEN "pqcrypto" ELSE "simulation"

\* The library falcon_keygen, falcon_sign and falcon_verify call: the flags
\* are looked at again in each of them.
dispatch(host) ==
  CASE oqs_available(host) -> "liboqs"
    [] ~oqs_available(host) /\ pqcrypto_available(host) -> "pqcrypto"
    [] OTHER -> "simulation"
=============================================================================
