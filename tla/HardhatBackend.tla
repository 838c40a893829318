--------------------------- MODULE HardhatBackend ---------------------------
(***************************************************************************)
(* relay_system/hardhat_backend.py: one object through which threads       *)
(* register DIDs and submit readings to a Hardhat node.                    *)
(*                                                                         *)
(* Every web3 call is made under self._lock; what a thread does with its   *)
(* receipt (_block_number, _transactions, _tx_order) is done after the     *)
(* lock is released, one Python statement per step here.  The interpreter  *)
(* may switch threads when max() returns, so the line that raises          *)
(* _block_number is a read and a write.                                    *)
(*                                                                         *)
(* The node mines a block per transaction: `chain' is its log, and the     *)
(* index of a transaction is its block number, its hash, and the address   *)
(* of the contract it creates.  A call that would revert fails when its    *)
(* gas is estimated: no block, an exception in the caller.  The answer of  *)
(* the node may be lost before or after mining.                            *)
(***************************************************************************)
EXTENDS Integers, Sequences, SequencesExt, FiniteSets

CONSTANTS
  Threads, NoThread,
  DID,             \* did_hash_bytes of the devices
  DataHash,        \* data_hash of the readings
  Unsigned,        \* readings handed over without signature_bytes
  MaxBatch,        \* bound on the items of a batch
  MaxCalls,        \* bound on the calls made
  MaxDeployments,  \* bound on the calls of deploy_contracts
  MaxLost          \* bound on the receipts lost

ASSUME ParameterAssumption ==
  /\ NoThread \notin Threads
  /\ Unsigned \subseteq DataHash
  /\ MaxBatch \in Nat /\ MaxCalls \in Nat /\ MaxDeployments \in Nat
  /\ MaxLost \in Nat

\* One submission: a meta-transaction or one of the two ECDSA baselines.
MetaItem == [kind : {"meta"}, dataHash : DataHash, did : DID]
EcdsaItem == [kind : {"ecdsa", "ecdsa_store"}, dataHash : DataHash, did : {0}]

Undeployed == [did_registry |-> 0, meta_tx_relay |-> 0, ecdsa_verify |-> 0]

VARIABLES
  chain,
  contracts,                    \* addresses bound by deploy_contracts, 0: None
  registered_dids,
  transactions,                 \* keys of the dict; its values follow the chain
  tx_order,
  block_number,
  lock,
  pc,        \* what each thread does next
  job,       \* the items each thread was called with
  tx_ids,    \* the ids collected for the items done
  receipt,   \* the block a thread waits for or has the receipt of
  seen,      \* the _block_number a thread has read
  lost,      \* blocks whose receipt never reached the caller
  deployments, calls  \* counted for the bounds

nodeVars == <<chain, lost>>
contractVars == <<contracts, deployments>>
bookVars == <<transactions, tx_order, block_number>>
threadVars == <<pc, job, tx_ids, receipt, seen, calls>>
vars == <<nodeVars, contractVars, registered_dids, bookVars, lock, threadVars>>

Init ==
  /\ chain = <<>> /\ lost = {}
  /\ contracts = Undeployed /\ deployments = 0
  /\ registered_dids = {}
  /\ transactions = {} /\ tx_order = <<>> /\ block_number = 0
  /\ lock = NoThread
  /\ pc = [t \in Threads |-> "idle"]
  /\ job = [t \in Threads |-> <<>>] /\ tx_ids = [t \in Threads |-> <<>>]
  /\ receipt = [t \in Threads |-> 0] /\ seen = [t \in Threads |-> 0]
  /\ calls = 0

-----------------------------------------------------------------------------
\* The contracts, as far as the backend meets them.

\* DIDRegistry at address a knows did.
KnownTo(a, did) ==
  \E n \in DOMAIN chain :
    chain[n].kind = "registerDID" /\ chain[n].to = a /\ chain[n].did = did

\* A mutated form of Used: no replay protection.
NeverUsed(a, item) == FALSE

\* MetaTxRelay at address a has used the commitment of this item.  A reading
\* without signature_bytes is signed with random bytes at every submission.
Used(a, item) ==
  /\ item.dataHash \notin Unsigned
  /\ \E n \in DOMAIN chain :
       /\ chain[n].kind = "meta" /\ chain[n].to = a
       /\ chain[n].did = item.did /\ chain[n].dataHash = item.dataHash

\* The contract an item is sent to.
Target(item) ==
  IF item.kind = "meta" THEN contracts.meta_tx_relay ELSE contracts.ecdsa_verify

\* The transaction of an item does not revert.
Executes(item) ==
  /\ Target(item) # 0
  /\ item.kind = "meta" =>
       /\ KnownTo(chain[Target(item)].to, item.did)
       /\ ~Used(Target(item), item)

\* The node mines a transaction in a block of its own.
Mine(block) == chain' = Append(chain, block)

-----------------------------------------------------------------------------
\* deploy_contracts: three constructors, one after the other, and only then
\* the attributes.  It takes no lock and is called with no other call running.

Bind(created, complete) ==
  IF complete
  THEN contracts' = [did_registry |-> Len(chain) + 1,
                     meta_tx_relay |-> Len(chain) + 2,
                     ecdsa_verify |-> Len(chain) + 3]
  ELSE UNCHANGED contracts

deploy_contracts(created, complete) ==
  LET registry == Len(chain) + 1
      constructors ==
        << [kind |-> "DIDRegistry", to |-> 0, dataHash |-> 0, did |-> 0],
           [kind |-> "MetaTxRelay", to |-> registry, dataHash |-> 0, did |-> 0],
           [kind |-> "ECDSAVerify", to |-> 0, dataHash |-> 0, did |-> 0] >>
  IN
  /\ deployments < MaxDeployments
  /\ \A t \in Threads : pc[t] = "idle"
  /\ complete => created = 3
  /\ chain' = chain \o SubSeq(constructors, 1, created)
  /\ Bind(created, complete)
  /\ deployments' = deployments + 1
  /\ UNCHANGED <<registered_dids, bookVars, lock, threadVars, lost>>

-----------------------------------------------------------------------------
\* The calls of a thread, statement by statement.

CurrentItem(t) == job[t][Len(tx_ids[t]) + 1]

\* A mutated form of Raise: acquire() without a release on the way out.
RaiseLocked(t) ==
  /\ pc' = [pc EXCEPT ![t] = "idle"]
  /\ receipt' = [receipt EXCEPT ![t] = 0]
  /\ UNCHANGED lock

\* An exception leaves the call; `with self._lock' releases the lock.
Raise(t) ==
  /\ pc' = [pc EXCEPT ![t] = "idle"]
  /\ receipt' = [receipt EXCEPT ![t] = 0]
  /\ lock' = IF lock = t THEN NoThread ELSE lock

FirstStep(item) == IF item.kind = "meta" THEN "ensure" ELSE "submit"

\* submit_transaction (one ECDSA item), submit_meta_transaction (one item) or
\* submit_batch_transaction (several) is called.
call(t, items) ==
  /\ pc[t] = "idle" /\ calls < MaxCalls
  /\ pc' = [pc EXCEPT ![t] = FirstStep(items[1])]
  /\ job' = [job EXCEPT ![t] = items]
  /\ tx_ids' = [tx_ids EXCEPT ![t] = <<>>]
  /\ calls' = calls + 1
  /\ UNCHANGED <<nodeVars, contractVars, registered_dids, bookVars, lock,
                 receipt, seen>>

\* _ensure_did_registered: the lock, and nothing more when the DID is cached.
ensure(t) ==
  /\ pc[t] = "ensure" /\ lock = NoThread
  /\ IF CurrentItem(t).did \in registered_dids
     THEN /\ pc' = [pc EXCEPT ![t] = "submit"]
          /\ UNCHANGED lock
     ELSE /\ pc' = [pc EXCEPT ![t] = "registering"]
          /\ lock' = t
  /\ UNCHANGED <<nodeVars, contractVars, registered_dids, bookVars, job, tx_ids,
                 receipt, seen, calls>>

\* A mutated form of CacheNow: the DID is cached when it is sent.
CacheEarly(t) == registered_dids' = registered_dids \cup {CurrentItem(t).did}

CacheNow(t) == UNCHANGED registered_dids

\* The registration is sent; it reverts when the registry knows the DID.
register(t) ==
  LET did == CurrentItem(t).did IN
  /\ pc[t] = "registering"
  /\ CacheNow(t)
  /\ \/ /\ contracts.did_registry # 0
        /\ ~KnownTo(contracts.did_registry, did)
        /\ Mine([kind |-> "registerDID", to |-> contracts.did_registry,
                 dataHash |-> 0, did |-> did])
        /\ pc' = [pc EXCEPT ![t] = "awaitRegistered"]
        /\ receipt' = [receipt EXCEPT ![t] = Len(chain) + 1]
        /\ UNCHANGED lock
     \/ Raise(t) /\ UNCHANGED chain
  /\ UNCHANGED <<lost, contractVars, bookVars, job, tx_ids, seen, calls>>

\* wait_for_transaction_receipt of the registration, and the cache.
registered(t) ==
  /\ pc[t] = "awaitRegistered"
  /\ \/ /\ registered_dids' = registered_dids \cup {CurrentItem(t).did}
        /\ pc' = [pc EXCEPT ![t] = "submit"]
        /\ receipt' = [receipt EXCEPT ![t] = 0]
        /\ lock' = NoThread
        /\ UNCHANGED lost
     \/ /\ Cardinality(lost) < MaxLost
        /\ lost' = lost \cup {receipt[t]}
        /\ Raise(t)
        /\ UNCHANGED registered_dids
  /\ UNCHANGED <<chain, contractVars, bookVars, job, tx_ids, seen, calls>>

\* `with self._lock' around the submission.
acquire(t) ==
  /\ pc[t] = "submit" /\ lock = NoThread
  /\ lock' = t
  /\ pc' = [pc EXCEPT ![t] = "sending"]
  /\ UNCHANGED <<nodeVars, contractVars, registered_dids, bookVars, job, tx_ids,
                 receipt, seen, calls>>

\* The submission is sent: submitTransaction, submitAndVerify or
\* submitVerifyAndStore.
send(t) ==
  LET item == CurrentItem(t) IN
  /\ pc[t] = "sending"
  /\ \/ /\ Executes(item)
        /\ Mine([kind |-> item.kind, to |-> Target(item),
                 dataHash |-> item.dataHash, did |-> item.did])
        /\ pc' = [pc EXCEPT ![t] = "waiting"]
        /\ receipt' = [receipt EXCEPT ![t] = Len(chain) + 1]
        /\ UNCHANGED lock
     \/ Raise(t) /\ UNCHANGED chain
  /\ UNCHANGED <<lost, contractVars, registered_dids, bookVars, job, tx_ids,
                 seen, calls>>

\* wait_for_transaction_receipt of the submission; the lock is released.
wait(t) ==
  /\ pc[t] = "waiting"
  /\ \/ /\ pc' = [pc EXCEPT ![t] = "readBlock"]
        /\ lock' = NoThread
        /\ UNCHANGED <<lost, receipt>>
     \/ /\ Cardinality(lost) < MaxLost
        /\ lost' = lost \cup {receipt[t]}
        /\ Raise(t)
  /\ UNCHANGED <<chain, contractVars, registered_dids, bookVars, job, tx_ids,
                 seen, calls>>

\* self._block_number = max(self._block_number, receipt.blockNumber)
readBlock(t) ==
  /\ pc[t] = "readBlock"
  /\ seen' = [seen EXCEPT ![t] = block_number]
  /\ pc' = [pc EXCEPT ![t] = "writeBlock"]
  /\ UNCHANGED <<nodeVars, contractVars, registered_dids, bookVars, lock, job,
                 tx_ids, receipt, calls>>

writeBlock(t) ==
  /\ pc[t] = "writeBlock"
  /\ block_number' = IF seen[t] > receipt[t] THEN seen[t] ELSE receipt[t]
  /\ seen' = [seen EXCEPT ![t] = 0]
  /\ pc' = [pc EXCEPT ![t] = "record"]
  /\ UNCHANGED <<nodeVars, contractVars, registered_dids, transactions, tx_order,
                 lock, job, tx_ids, receipt, calls>>

\* A mutated form of Book: a transaction is recorded and never listed.
NeverListed(statement, id) ==
  transactions' = transactions \cup {id} /\ UNCHANGED tx_order

Book(statement, id) ==
  IF statement = "record"
  THEN transactions' = transactions \cup {id} /\ UNCHANGED tx_order
  ELSE tx_order' = Append(tx_order, id) /\ UNCHANGED transactions

\* self._transactions[tx_id] = {...}
record(t) ==
  /\ pc[t] = "record"
  /\ Book("record", receipt[t])
  /\ pc' = [pc EXCEPT ![t] = "list"]
  /\ UNCHANGED <<nodeVars, contractVars, registered_dids, block_number, lock, job,
                 tx_ids, receipt, seen, calls>>

\* self._tx_order.append(tx_id), and the id is returned; a batch goes on with
\* its next item.
list(t) ==
  /\ pc[t] = "list"
  /\ Book("list", receipt[t])
  /\ tx_ids' = [tx_ids EXCEPT ![t] = Append(@, receipt[t])]
  /\ pc' = [pc EXCEPT ![t] =
       IF Len(tx_ids'[t]) < Len(job[t]) THEN FirstStep(job[t][Len(tx_ids'[t]) + 1])
                                        ELSE "idle"]
  /\ receipt' = [receipt EXCEPT ![t] = 0]
  /\ UNCHANGED <<nodeVars, contractVars, registered_dids, block_number, lock, job,
                 seen, calls>>

-----------------------------------------------------------------------------

\* What a caller can ask for: one item of any kind, or a batch of readings.
Jobs == {<<i>> : i \in EcdsaItem} \cup UNION {[1 .. n -> MetaItem] : n \in 1 .. MaxBatch}

step(t) ==
  \/ ensure(t) \/ register(t) \/ registered(t) \/ acquire(t) \/ send(t)
  \/ wait(t) \/ readBlock(t) \/ writeBlock(t) \/ record(t) \/ list(t)

Next ==
  \/ \E created \in 0 .. 3, complete \in BOOLEAN : deploy_contracts(created, complete)
  \/ \E t \in Threads : (\E items \in Jobs : call(t, items)) \/ step(t)

Spec == Init /\ [][Next]_vars
-----------------------------------------------------------------------------
\* What the getters return.

\* transaction_count() and block_number() are Len(tx_order) and block_number.
\* get_gas_decomposition() walks _tx_order and reads _transactions.get(id, {}):
\* an id without a record is in no class.  The averages are left out.
get_gas_decomposition ==
  [kind \in {"meta", "ecdsa", "ecdsa_store"} |->
     Cardinality({i \in DOMAIN tx_order :
                    tx_order[i] \in transactions /\ chain[tx_order[i]].kind = kind})]

Submissions == {n \in DOMAIN chain : chain[n].kind \in {"meta", "ecdsa", "ecdsa_store"}}

\* The block of a submission a thread has yet to book.
InHand(t) == IF pc[t] \in {"waiting", "readBlock", "writeBlock", "record"}
             THEN {receipt[t]} ELSE {}

\* The gas decomposition, read by any thread between any two statements of
\* the others, counts every transaction that transaction_count() counts.
DecompositionComplete ==
  get_gas_decomposition["meta"] + get_gas_decomposition["ecdsa"]
    + get_gas_decomposition["ecdsa_store"] = Len(tx_order)

\* Nothing mined is forgotten and nothing is booked twice, though the books
\* are kept after the lock was released: every submission on the chain has a
\* record, or is in the hands of one thread, or its receipt was lost and its
\* caller got an exception; and what is listed is in the decomposition.
EverySubmissionAccounted ==
  /\ Submissions = transactions \cup (lost \cap Submissions) \cup UNION {InHand(t) : t \in Threads}
  /\ transactions \cap lost = {}
  /\ \A i, j \in DOMAIN tx_order : tx_order[i] = tx_order[j] => i = j
  /\ (\A t \in Threads : pc[t] = "idle") => transactions = ToSet(tx_order)
  /\ DecompositionComplete

\* The ids collected are of transactions that carry the items of the call, in
\* this order on the chain; a batch that fails half-way has done a prefix.
IdsMatchItems ==
  \A t \in Threads : \A i \in DOMAIN tx_ids[t] :
    /\ i <= Len(job[t])
    /\ chain[tx_ids[t][i]].kind = job[t][i].kind
    /\ chain[tx_ids[t][i]].dataHash = job[t][i].dataHash
    /\ i > 1 => tx_ids[t][i - 1] < tx_ids[t][i]

\* The lock is held only by a thread that is about to send or to be answered:
\* no exception leaves it behind for the others to wait for.
LockIsInUse ==
  lock # NoThread =>
    pc[lock] \in {"registering", "awaitRegistered", "sending", "waiting"}

\* However a call ends, half-way through its batch and with an exception
\* under the lock or not, what it did is a prefix of what it was asked to do
\* and the other threads can go on.
CallsEndClean == IdsMatchItems /\ LockIsInUse

\* Retries: a signed reading is acknowledged at most once by a relay contract,
\* whichever threads submit it, and never once its receipt was lost.
AcknowledgedOnce ==
  \A m, n \in transactions \cup lost :
    (/\ chain[m].kind = "meta" /\ chain[m].dataHash \notin Unsigned
     /\ chain[m] = chain[n]) => m = n

\* A thread that comes back from _ensure_did_registered has its DID registered
\* in the registry the relay contract reads ("Register a DID on-chain if not
\* already registered (thread-safe)").
EnsuredIsRegistered ==
  \A t \in Threads :
    pc[t] \in {"submit", "sending"} /\ CurrentItem(t).kind = "meta" =>
      KnownTo(contracts.did_registry, CurrentItem(t).did)
=============================================================================
