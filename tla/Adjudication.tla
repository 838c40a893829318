---------------------------- MODULE Adjudication ----------------------------
(***************************************************************************)
(* What AccountableRelay promises about each record and each batch leaf,   *)
(* its case: it stands undecided until it is confirmed, which is not       *)
(* before its window has closed; until then it may be disputed any number  *)
(* of times, one dispute after the other; a dispute is decided by the      *)
(* first quorum of votes, or else by its deadline, against the accused     *)
(* relay.  Nobody votes twice in a dispute, nor about its own data; who    *)
(* voted "valid" in a dispute that cleared the relay stays liable as long  *)
(* as the case is undecided; a decision is final.                          *)
(*                                                                         *)
(* The header of AccountableRelay.sol and the comments of its functions    *)
(* (_openDispute, submitAttestation, expireDispute, _resolveFraud,         *)
(* _resolveSpurious, finalizeRecord, finalizeBatch).  There are no stakes, *)
(* counters, lists of disputes or batches here.                            *)
(***************************************************************************)
EXTENDS Naturals, FiniteSets

CONSTANTS Target, Address, ZeroAddress, quorum, challengePeriod

VARIABLES
  now,    \* the time
  cases   \* the case of each target

vars == <<now, cases>>

\* A case that is not in dispute.  window: when it may be confirmed; deadline,
\* fraud, valid: of the dispute in progress and its votes; liable: who vouched
\* in the disputes before.
Quiet(phase, accused, window, liable) ==
  [phase |-> phase, accused |-> accused, window |-> window,
   deadline |-> 0, fraud |-> {}, valid |-> {}, liable |-> liable]

Absent == Quiet("absent", ZeroAddress, 0, {})
Posted(a) == Quiet("undecided", a, now + challengePeriod, {})
Closed(case, phase, liable) == Quiet(phase, case.accused, case.window, liable)
Disputed(case) ==
  [case EXCEPT !.phase = "disputed", !.deadline = now + challengePeriod]

Init == now \in Nat /\ cases = [t \in Target |-> Absent]

\* The cases in the domain of new, and only they, become what it says.
Become(new) ==
  /\ UNCHANGED now
  /\ cases' = [t \in Target |-> IF t \in DOMAIN new THEN new[t] ELSE cases[t]]

\* A relay posts one target, or those of a batch together.
Post(S) ==
  /\ \A t \in S : cases[t] = Absent
  /\ \E a \in Address : Become([t \in S |-> Posted(a)])

\* What has stood its window is confirmed, the leaves of a batch together.
Confirm(S) ==
  /\ \A t \in S : cases[t].phase = "undecided" /\ now >= cases[t].window
  /\ Become([t \in S |-> Closed(cases[t], "confirmed", {})])

Dispute(t) ==
  /\ cases[t].phase = "undecided"
  /\ Become([u \in {t} |-> Disputed(cases[t])])

FraudVote(case, v) == [case EXCEPT !.fraud = @ \cup {v}]
ValidVote(case, v) == [case EXCEPT !.valid = @ \cup {v}]

\* A case after a vote: the quorum of fraud votes is asked for first.
Judged(case) ==
  IF Cardinality(case.fraud) >= quorum THEN Closed(case, "revoked", {})
  ELSE IF Cardinality(case.valid) >= quorum
  THEN Closed(case, "undecided", case.liable \cup case.valid)
  ELSE case

Vote(t, v) ==
  /\ cases[t].phase = "disputed" /\ now <= cases[t].deadline
  /\ v \notin cases[t].fraud \cup cases[t].valid \cup {cases[t].accused}
  /\ \/ Become([u \in {t} |-> Judged(FraudVote(cases[t], v))])
     \/ Become([u \in {t} |-> Judged(ValidVote(cases[t], v))])

Expire(t) ==
  /\ cases[t].phase = "disputed" /\ now > cases[t].deadline
  /\ Become([u \in {t} |-> Closed(cases[t], "revoked", {})])

Pass == now' > now /\ UNCHANGED cases

Next ==
  \/ Pass
  \/ \E t \in Target : Dispute(t) \/ Expire(t) \/ \E v \in Address : Vote(t, v)
  \/ \E S \in (SUBSET Target) \ {{}} : Post(S) \/ Confirm(S)

Spec == Init /\ [][Next]_vars
=============================================================================
