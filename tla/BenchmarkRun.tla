---------------------------- MODULE BenchmarkRun ----------------------------
(***************************************************************************)
(* crypto_benchmark/benchmark.py, run_full_benchmark_suite: for each       *)
(* scheme a warm-up, then a pass of key generations, one of signatures and *)
(* one of verifications, each round of them measured.                      *)
(*                                                                         *)
(* A call for Falcon goes to the library falcon_utils chose; a call for    *)
(* Dilithium tries liboqs and falls back to pqcrypto, call by call; one    *)
(* for ECDSA goes to cryptography.  A call of liboqs may fail.  Keys and   *)
(* signatures are what they were made from and by which library.           *)
(***************************************************************************)
EXTENDS FalconUtils, Sequences, SequencesExt, FiniteSets

CONSTANTS
  Suites,      \* values of the argument schemes
  Iterations,  \* values of the argument iterations
  MaxFaults    \* bound on the calls of liboqs that fail

VARIABLES
  host, schemes, iterations,
  status,    \* "running", "returned" or "raised"
  current,   \* the scheme, as a place in schemes
  pass, i,   \* the loop of run_benchmark and its counter
  stage,     \* what the round does next
  pair, sig, \* pub and priv, and the last signature
  results,   \* of this run_benchmark
  all_results,
  faults

argVars == <<host, schemes, iterations>>
vars == <<argVars, status, current, pass, i, stage, pair, sig, results, all_results, faults>>

Init ==
  /\ host \in Host /\ schemes \in Suites /\ iterations \in Iterations
  /\ status = "running" /\ current = 0 /\ pass = "verify" /\ i = iterations
  /\ stage = "keygen" /\ pair = {} /\ sig = {}
  /\ results = <<>> /\ all_results = <<>> /\ faults = 0

name == schemes[current]
Supported == {"Falcon-512", "ECDSA", "Dilithium2", "Dilithium3"}

-----------------------------------------------------------------------------
\* The loops.

Passes == <<"warmup", "keygen", "sign", "verify">>

\* warmup=min(10, iterations // 10)
Rounds ==
  IF pass # "warmup" THEN iterations
  ELSE IF iterations \div 10 < 10 THEN iterations \div 10 ELSE 10

\* A mutated form of Stages: the signature is made once, before the pass.
SignOnce(p) ==
  CASE p = "warmup" -> <<"keygen", "sign", "verify">>
    [] p = "keygen" -> <<"keygen">>
    [] p = "sign" -> <<"sign">>
    [] p = "verify" -> <<"verify">>

\* What a round of each pass does.
Stages(p) ==
  CASE p = "warmup" -> <<"keygen", "sign", "verify">>
    [] p = "keygen" -> <<"keygen">>
    [] p = "sign" -> <<"sign">>
    [] p = "verify" -> <<"sign", "verify">>

LastStage == stage = Last(Stages(pass))

NextStage ==
  IF LastStage
  THEN i' = i + 1 /\ stage' = Head(Stages(pass))
  ELSE \E k \in DOMAIN Stages(pass) : k > 1 /\ Stages(pass)[k - 1] = stage
         /\ stage' = Stages(pass)[k] /\ i' = i

\* A pass is over: the next one, also if it has no rounds.
endPass ==
  /\ status = "running" /\ current > 0 /\ i >= Rounds /\ pass # "verify"
  /\ LET next == CHOOSE k \in 2 .. 4 : Passes[k - 1] = pass IN
       pass' = Passes[next] /\ stage' = Head(Stages(Passes[next]))
  /\ i' = 0
  /\ UNCHANGED <<argVars, status, current, pair, sig, results, all_results, faults>>

Collect == all_results \o results

\* run_benchmark returns, and the suite goes on to the next scheme or returns.
endScheme ==
  /\ status = "running" /\ pass = "verify" /\ i >= iterations
  /\ all_results' = Collect /\ results' = <<>>
  /\ IF current = Len(schemes)
     THEN /\ status' = "returned"
          /\ UNCHANGED <<current, pass, i, stage>>
     ELSE /\ current' = current + 1 /\ pass' = "warmup" /\ i' = 0 /\ stage' = "keygen"
          /\ status' = IF schemes[current + 1] \in Supported THEN status ELSE "raised"
  /\ UNCHANGED <<argVars, pair, sig, faults>>

-----------------------------------------------------------------------------
\* The calls of CryptoScheme.

OqsDoes == host.linux /\ host.oqs /\ "ML-DSA" \in host.mechanisms

\* The libraries that may do the next call, each with the faults that takes;
\* "raise" when the call raises.
Calls ==
  LET fallback == IF host.pqcrypto THEN "pqcrypto" ELSE "raise" IN
  CASE name = "ECDSA" -> {<<"cryptography", 0>>}
    [] name = "Falcon-512" ->
         {<<dispatch(host), 0>>}
           \cup {c \in {<<"raise", 1>>} : dispatch(host) = "liboqs"}
    [] name \in {"Dilithium2", "Dilithium3"} ->
         IF OqsDoes THEN {<<"liboqs", 0>>, <<fallback, 1>>} ELSE {<<fallback, 0>>}

Spend(c) == faults + c[2] <= MaxFaults /\ faults' = faults + c[2]

\* The exception leaves the suite, and with it all results.
raise ==
  /\ status' = "raised"
  /\ UNCHANGED <<i, stage, pair, sig, results>>

\* The label of a result is asked for once, by run_benchmark.
Record(operation, library, valid) ==
  results' = IF pass # operation THEN results
             ELSE Append(results,
               [scheme |-> name, operation |-> operation, iteration |-> i,
                library |-> library, backend |-> get_backend(host), valid |-> valid])

message == IF pass = "warmup" THEN <<"warmup", 0>> ELSE <<pass, i>>

keygen ==
  /\ stage = "keygen"
  /\ \E c \in Calls :
       /\ Spend(c)
       /\ \/ c[1] = "raise" /\ raise
          \/ /\ c[1] # "raise"
             /\ pair' = {[library |-> c[1], scheme |-> name, made |-> <<pass, i>>]}
             /\ Record("keygen", c[1], TRUE) /\ NextStage
             /\ UNCHANGED <<status, sig>>

sign ==
  /\ stage = "sign"
  /\ \E c \in Calls :
       /\ Spend(c)
       /\ \/ c[1] = "raise" /\ raise
          \/ /\ c[1] # "raise"
             /\ sig' = {[by |-> pair, message |-> message]}
             /\ Record("sign", c[1], TRUE) /\ NextStage
             /\ UNCHANGED <<status, pair>>

\* liboqs and pqcrypto implement the same ML-DSA: what one signs the other
\* verifies.
Valid == sig = {[by |-> pair, message |-> message]}

\* For Dilithium an import that fails is a signature that fails; the answer is
\* thrown away.
verify ==
  /\ stage = "verify"
  /\ \E c \in Calls :
       /\ Spend(c)
       /\ \/ c[1] = "raise" /\ name = "Falcon-512" /\ raise
          \/ /\ c[1] # "raise" \/ name # "Falcon-512"
             /\ Record("verify", c[1], c[1] # "raise" /\ Valid) /\ NextStage
             /\ UNCHANGED <<status, pair, sig>>

round ==
  /\ status = "running" /\ current > 0 /\ i < Rounds
  /\ keygen \/ sign \/ verify
  /\ UNCHANGED <<argVars, current, pass, all_results>>

Next == round \/ endPass \/ endScheme

Spec == Init /\ [][Next]_vars

-----------------------------------------------------------------------------

\* What is measured as a verification verifies: nobody looks at the answer, so
\* only a failing library may make it a measurement of something else.
VerifiesUnlessFault ==
  faults = 0 => \A r \in Range(all_results \o results) : r.valid

=============================================================================
