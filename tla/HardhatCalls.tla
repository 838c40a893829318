---------------------------- MODULE HardhatCalls ----------------------------
(***************************************************************************)
(* What a runner sees of relay_system/hardhat_backend.py when one thread   *)
(* uses it, one call after the other (module HardhatBackend has the        *)
(* backend itself, with its lock and its threads), and of the Hardhat node *)
(* behind it.                                                              *)
(*                                                                         *)
(* The node is a process of its own.  It may stop and be started again at  *)
(* any moment and then has an empty chain: a call of a contract that was   *)
(* on the old one reaches an address without code, succeeds and stores     *)
(* nothing.  A submission is sent, mined and answered in separate steps.   *)
(* Its caller may get an exception instead of each of them, and what was   *)
(* sent may be mined also after that.                                      *)
(***************************************************************************)
EXTENDS Naturals, Sequences

CONSTANT MaxOutages  \* bound on the times the node stops

VARIABLES
  node, outages,  \* whether the node answers
  code,           \* the contracts of the run: "none" yet, "there", or "gone"
  bc,             \* what they have stored, in order
  flight          \* of the last submission, until it is answered

Init ==
  /\ node \in {"up", "down"} /\ outages = 0
  /\ code = "none" /\ bc = <<>> /\ flight = "none"

-----------------------------------------------------------------------------
\* The node.

stop ==
  /\ node = "up" /\ outages < MaxOutages
  /\ node' = "down" /\ outages' = outages + 1
  /\ code' = IF code = "there" THEN "gone" ELSE code
  /\ bc' = <<>>
  /\ flight' = IF flight \in {"sent", "mined"} THEN "lost" ELSE flight

start ==
  /\ node = "down"
  /\ node' = "up"
  /\ UNCHANGED <<outages, code, bc, flight>>

\* What a submission of an item does to the contracts.
Stored(item) == IF code = "there" THEN Append(bc, item) ELSE bc

mine(item) ==
  /\ flight = "sent"
  /\ flight' = "mined" /\ bc' = Stored(item)
  /\ UNCHANGED <<node, outages, code>>

-----------------------------------------------------------------------------
\* The calls of the backend.

\* deploy_contracts: the step is the constructor whose contract is called
\* first; a node that stops before the others are deployed shows in the calls.
deploy_contracts ==
  /\ node = "up"
  /\ code' = "there"
  /\ UNCHANGED <<node, outages, bc, flight>>

\* submit_transaction and submit_meta_transaction: transact() and
\* wait_for_transaction_receipt().
send ==
  /\ node = "up" /\ flight = "none"
  /\ flight' = "sent"
  /\ UNCHANGED <<node, outages, code, bc>>

answer ==
  /\ node = "up" /\ flight = "mined"
  /\ flight' = "none"
  /\ UNCHANGED <<node, outages, code, bc>>

-----------------------------------------------------------------------------

\* The chain the contracts were deployed to is still there.
Intact == code # "gone"

\* Mined, and its caller does not know.
Unanswered == IF flight = "mined" THEN 1 ELSE 0
=============================================================================
