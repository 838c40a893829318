---------------------------- MODULE NonceSender -----------------------------
(***************************************************************************)
(* smart-contracts/scripts/base-sepolia-accountable-scalability.js, one    *)
(* configuration: a wave of registrations after the other, then a wave of  *)
(* submissions after the other, each transaction through sendWithNonce and *)
(* each wave awaited by Promise.all.                                       *)
(*                                                                         *)
(* The RPC is a set of nodes that lag behind: a count of transactions may  *)
(* be stale, and an accepted transaction may be answered by an error.      *)
(* Calls 1..n register the n devices, calls n+1..2n submit for them.       *)
(***************************************************************************)
EXTENDS Integers, Sequences, SequencesExt, FiniteSets

CONSTANTS
  n,                 \* devices of the configuration
  SEND_CONCURRENCY,  \* size of a wave
  MaxAttempts,       \* of sendWithNonce (8 in the code)
  MaxLag,            \* by how many transactions a node may lag behind
  MaxFaults          \* bound on lost answers and other errors

VARIABLES
  pool,      \* calls of the transactions accepted, by nonce
  mined,     \* how many of them are mined
  nextNonce, \* the tracked nonce, -1: null
  pc, call, attempt,
  sent,      \* of the current wave, as places in pool
  receipts,  \* of all waves before, likewise
  lost,      \* calls with an answer "already known"
  faults

chainVars == <<pool, mined>>
vars == <<chainVars, nextNonce, pc, call, attempt, sent, receipts, lost, faults>>

\* MaxLag transactions of the wallet precede the configuration.
Init ==
  /\ pool = <<>> /\ mined = 0
  /\ nextNonce = -1 /\ pc = "send" /\ call = 1 /\ attempt = 0
  /\ sent = <<>> /\ receipts = <<>> /\ lost = {} /\ faults = 0

Pending == MaxLag + Len(pool)

\* What a node may answer to getTransactionCount(..., "pending").
Views == Pending - MaxLag .. Pending

Registration(c) == c <= n

\* A second registration reverts; a second submission is a record like the
\* first one.
Succeeds(p) ==
  Registration(pool[p]) => \A q \in 1 .. p - 1 : pool[q] # pool[p]

-----------------------------------------------------------------------------
\* The chain.

mine ==
  /\ mined < Len(pool)
  /\ mined' = mined + 1
  /\ UNCHANGED <<pool, nextNonce, pc, call, attempt, sent, receipts, lost, faults>>

-----------------------------------------------------------------------------
\* sendWithNonce.

Fault == faults < MaxFaults /\ faults' = faults + 1

\* The last call of its wave: a phase ends with a wave of its own.
LastOfWave(c) == c % n = 0 \/ (((c - 1) % n) + 1) % SEND_CONCURRENCY = 0

\* An error that is not about nonces ends the script.
Throw == pc' = "failed" /\ UNCHANGED <<call, attempt, sent, nextNonce>>

\* A mutated form of SyncAgain: a transaction already known counts as sent.
TakeAsSent ==
  /\ pc' = IF LastOfWave(call) THEN "wait" ELSE "send"
  /\ call' = call + 1 /\ attempt' = 0
  /\ UNCHANGED <<sent, nextNonce>>

\* `continue' after the nonce was synchronised.
SyncAgain == pc' = "sync" /\ UNCHANGED <<call, attempt, sent, nextNonce>>

\* The function returns the transaction.
Sent ==
  /\ sent' = Append(sent, Len(pool) + 1)
  /\ nextNonce' = nextNonce + 1
  /\ pc' = IF LastOfWave(call) THEN "wait" ELSE "send"
  /\ call' = call + 1 /\ attempt' = 0

\* The calls are closures without a parameter: the overrides { nonce,
\* gasLimit } go nowhere, and the wallet asks a node for the nonce.
fn(nonce) ==
  \/ \* the node accepts the transaction
     /\ nonce = Pending
     /\ pool' = Append(pool, call)
     /\ \/ Sent /\ UNCHANGED <<lost, faults>>
        \/ SyncAgain /\ Fault /\ lost' = lost \cup {call}
        \/ Throw /\ Fault /\ UNCHANGED lost
  \/ \* nonce too low, or replacement underpriced
     /\ nonce < Pending
     /\ SyncAgain
     /\ UNCHANGED <<pool, lost, faults>>
  \/ \* the estimate of the gas meets a call that would revert
     /\ Registration(call) /\ Contains(pool, call)
     /\ Throw
     /\ UNCHANGED <<pool, lost, faults>>
  \/ \* any other error
     /\ Throw /\ Fault
     /\ UNCHANGED <<pool, lost>>

send ==
  /\ pc = "send" /\ nextNonce # -1
  /\ \E nonce \in Views : fn(nonce)
  /\ UNCHANGED <<mined, receipts>>

firstSync ==
  /\ pc = "send" /\ nextNonce = -1
  /\ \/ nextNonce' \in Views /\ UNCHANGED <<pc, faults>>
     \/ pc' = "failed" /\ Fault /\ UNCHANGED nextNonce
  /\ UNCHANGED <<chainVars, call, attempt, sent, receipts, lost>>

MoreAttempts == attempt + 1 < MaxAttempts

syncNonce ==
  /\ pc = "sync"
  /\ \/ /\ nextNonce' \in Views
        /\ pc' = IF MoreAttempts THEN "send" ELSE "failed"
        /\ attempt' = IF MoreAttempts THEN attempt + 1 ELSE attempt
        /\ UNCHANGED faults
     \/ pc' = "failed" /\ Fault /\ UNCHANGED <<nextNonce, attempt>>
  /\ UNCHANGED <<chainVars, call, sent, receipts, lost>>

-----------------------------------------------------------------------------
\* sendWave: Promise.all over the receipts.

\* A mutated form of AllMined: the receipts are not awaited.
NotAwaited == TRUE

AllMined == \A i \in DOMAIN sent : sent[i] <= mined

Rejected == \E i \in DOMAIN sent : sent[i] <= mined /\ ~Succeeds(sent[i])

sendWave ==
  /\ pc = "wait"
  /\ \/ Rejected /\ pc' = "failed" /\ UNCHANGED <<sent, receipts>>
     \/ /\ AllMined /\ ~Rejected
        /\ receipts' = receipts \o sent
        /\ sent' = <<>>
        /\ pc' = IF call > 2 * n THEN "done" ELSE "send"
  /\ UNCHANGED <<chainVars, nextNonce, call, attempt, lost, faults>>

script == firstSync \/ send \/ syncNonce \/ sendWave

Ended == pc \in {"done", "failed"}

Next == script \/ mine

\* The script runs on, and accepted transactions are mined.
Spec == Init /\ [][Next]_vars /\ WF_vars(script) /\ WF_vars(mine)

-----------------------------------------------------------------------------

Occurrences(c) == Cardinality({p \in DOMAIN pool : pool[p] = c})

\* The receipts are, call by call and in order, mined transactions that
\* succeeded; a run that is done has one for every call.
ReceiptsMatchCalls ==
  /\ \A i \in DOMAIN receipts :
       receipts[i] <= mined /\ pool[receipts[i]] = i /\ Succeeds(receipts[i])
  /\ pc = "done" => Len(receipts) = 2 * n

\* Stale counts cost attempts but repeat nothing: what is on the chain twice
\* had an answer "already known".
OnlyLostAnswersRepeat ==
  \A c \in 1 .. 2 * n : Occurrences(c) > 1 => c \in lost

\* A submission is accepted only after every device's registration is mined.
RegisteredBeforeSubmitted ==
  (\E p \in DOMAIN pool : ~Registration(pool[p]))
    => \A c \in 1 .. n : \E p \in 1 .. mined : pool[p] = c

\* Transactions carry the tracked nonce ("track nonces manually and re-sync
\* from the chain whenever the node reports a nonce error").
TrackedNonceUsed == [][Len(pool') > Len(pool) => nextNonce = Pending]_vars
=============================================================================
