------------------------------- MODULE Gateway ------------------------------
(***************************************************************************)
(* relay_system/gateway.py: the gateway verifies the signature of a        *)
(* reading, counts it and keeps the verified ones in _batch.  The verdict  *)
(* of falcon_verify is a parameter.                                        *)
(***************************************************************************)
EXTENDS Naturals, Sequences

VARIABLES relayed_count, failed_count, batch

Init == relayed_count = 0 /\ failed_count = 0 /\ batch = <<>>

\* A mutated form of count: what fails is also counted as relayed.
countEverything(verified) ==
  /\ relayed_count' = relayed_count + 1
  /\ failed_count' = IF verified THEN failed_count ELSE failed_count + 1
  /\ UNCHANGED batch

\* The two statements of relay_data that change the gateway.  Each is atomic
\* under the interpreter (3.10 and later switch threads at calls and jumps
\* only); threads that share a gateway interleave between them.
count(verified) ==
  /\ relayed_count' = IF verified THEN relayed_count + 1 ELSE relayed_count
  /\ failed_count' = IF verified THEN failed_count ELSE failed_count + 1
  /\ UNCHANGED batch

keep(reading) ==
  /\ batch' = Append(batch, reading)
  /\ UNCHANGED <<relayed_count, failed_count>>

\* relay_data called by one thread.
relay_data(reading, verified) ==
  /\ relayed_count' = IF verified THEN relayed_count + 1 ELSE relayed_count
  /\ failed_count' = IF verified THEN failed_count ELSE failed_count + 1
  /\ batch' = IF verified THEN Append(batch, reading) ELSE batch
=============================================================================
