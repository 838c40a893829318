------------------------------ MODULE RelayNode -----------------------------
(***************************************************************************)
(* relay_system/relay.py: the relay node, and the SimulatedBlockchain of   *)
(* relay_system/iot_client.py it submits to.  Every transaction has a      *)
(* block of its own; hashes are unique (uuid4), gas and latency are left   *)
(* out.                                                                    *)
(***************************************************************************)
EXTENDS Naturals, Sequences

VARIABLES
  tx_order,        \* what was submitted, in the order of _tx_order
  transactions,    \* block number of each, as in _transactions
  block_number,
  submitted_count  \* of the relay node

Init ==
  /\ tx_order = <<>> /\ transactions = <<>> /\ block_number = 0
  /\ submitted_count = 0

\* SimulatedBlockchain.submit_meta_transaction: it cannot fail, an unverified
\* reading only costs less gas.
submit_meta_transaction(reading) ==
  /\ block_number' = block_number + 1
  /\ transactions' = Append(transactions, block_number + 1)
  /\ tx_order' = Append(tx_order, reading)

\* A mutated form of submit_verified_transaction: a submission that is not
\* counted.
submitUncounted(reading) ==
  submit_meta_transaction(reading) /\ UNCHANGED submitted_count

submit_verified_transaction(reading) ==
  /\ submit_meta_transaction(reading)
  /\ submitted_count' = submitted_count + 1
=============================================================================
