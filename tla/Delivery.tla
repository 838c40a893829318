------------------------------ MODULE Delivery ------------------------------
(***************************************************************************)
(* What a run of the relay system promises, whichever runner drives it:    *)
(* readings are accepted one after the other, the accepted ones are        *)
(* delivered to the chain in the order of acceptance, each once, and a run *)
(* that ends well has delivered all of them.  A run may be aborted by an   *)
(* exception at any moment; what was delivered stays, and the one reading  *)
(* handed over then may still be delivered.  The chain may be lost as a    *)
(* whole; nothing is promised of what it held.                             *)
(*                                                                         *)
(* The docstrings of run_relay_path (relay_system/runner.py:149-153) and   *)
(* of ScalabilityRunner.run (scalability/scalability_runner.py:125-137).   *)
(***************************************************************************)
EXTENDS Naturals, Sequences

VARIABLES
  accepted, delivered,
  outstanding,  \* the next reading was handed over and is not delivered
  intact,       \* the chain was never lost
  status

vars == <<accepted, delivered, outstanding, intact, status>>

Init ==
  /\ accepted = <<>> /\ delivered = <<>> /\ outstanding = FALSE
  /\ intact = TRUE /\ status = "running"

Accept(readings) ==
  /\ status = "running"
  /\ accepted' = accepted \o readings
  /\ UNCHANGED <<delivered, outstanding, intact, status>>

HandOver ==
  /\ status = "running" /\ ~outstanding
  /\ Len(delivered) < Len(accepted)
  /\ outstanding' = TRUE
  /\ UNCHANGED <<accepted, delivered, intact, status>>

\* In one step, or after it was handed over and whatever became of the run.
Deliver ==
  /\ status = "running" \/ outstanding
  /\ intact /\ Len(delivered) < Len(accepted)
  /\ delivered' = Append(delivered, accepted[Len(delivered) + 1])
  /\ outstanding' = FALSE
  /\ UNCHANGED <<accepted, intact, status>>

\* The chain is lost, or a reading handed over after that.
Lose ==
  /\ intact' = FALSE /\ delivered' = <<>> /\ outstanding' = FALSE
  /\ UNCHANGED <<accepted, status>>

Finish ==
  /\ status = "running" /\ ~outstanding
  /\ intact => delivered = accepted
  /\ status' = "done"
  /\ UNCHANGED <<accepted, delivered, outstanding, intact>>

Abort ==
  /\ status = "running"
  /\ status' = "aborted"
  /\ UNCHANGED <<accepted, delivered, outstanding, intact>>

\* An acceptance adds the readings after the ones accepted so far.
AcceptSome ==
  /\ Len(accepted') > Len(accepted)
  /\ Accept(SubSeq(accepted', Len(accepted) + 1, Len(accepted')))

Next == AcceptSome \/ HandOver \/ Deliver \/ Lose \/ Finish \/ Abort

Spec == Init /\ [][Next]_vars

=============================================================================
