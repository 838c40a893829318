------------------------ MODULE HardhatBackendProofs ------------------------
(***************************************************************************)
(* Theorems about HardhatBackend: whatever the number of threads and       *)
(* however their statements interleave, a call ends cleanly, the books     *)
(* account for every submission, a signed reading is acknowledged once,    *)
(* and a thread that submits a reading has its DID registered.             *)
(***************************************************************************)
EXTENDS HardhatBackend, FiniteSetTheorems, SequenceTheorems, TLAPS

-----------------------------------------------------------------------------
(* The inductive invariant, part by part.                                  *)

\* The kinds of the submissions, and the blocks of the chain.
SubmissionKind == {"meta", "ecdsa", "ecdsa_store"}
Constructor == {"DIDRegistry", "MetaTxRelay", "ECDSAVerify"}
Block == [kind : SubmissionKind \cup Constructor \cup {"registerDID"},
          to : Nat, dataHash : DataHash \cup {0}, did : DID \cup {0}]
Item == MetaItem \cup EcdsaItem

\* Where a thread may be, and where it holds the lock, or a mined submission.
UnderLock == {"registering", "awaitRegistered", "sending", "waiting"}
HasMined == {"waiting", "readBlock", "writeBlock", "record", "list"}
Registering == {"ensure", "registering", "awaitRegistered"}
Steps == {"idle", "submit"} \cup UnderLock \cup HasMined \cup Registering

\* The type of every variable.
ChainTypes ==
  /\ chain \in Seq(Block)
  /\ contracts \in [did_registry : Nat, meta_tx_relay : Nat, ecdsa_verify : Nat]
  /\ tx_order \in Seq(Nat)
  /\ lock \in Threads \cup {NoThread}
  /\ deployments \in Nat

ThreadTypes ==
  /\ pc \in [Threads -> Steps]
  /\ job \in [Threads -> Seq(Item)]
  /\ tx_ids \in [Threads -> Seq(Nat)]
  /\ receipt \in [Threads -> Nat]

\* A thread that is at work has an item left, and registers only for readings.
AtWork ==
  \A t \in Threads :
    pc[t] # "idle" =>
      /\ Len(tx_ids[t]) < Len(job[t])
      /\ pc[t] \in Registering => CurrentItem(t).kind = "meta"

\* The lock belongs to the one thread that talks to the node.
LockDiscipline == \A t \in Threads : pc[t] \in UnderLock <=> lock = t

\* The block a thread waits for, or has the receipt of, carries its item, and
\* comes after all the blocks of the items before it.
CarriesItem(n, item) ==
  /\ n \in DOMAIN chain
  /\ chain[n].kind = item.kind /\ chain[n].dataHash = item.dataHash

ReceiptsMatch ==
  \A t \in Threads :
    /\ pc[t] \in HasMined =>
         /\ CarriesItem(receipt[t], CurrentItem(t))
         /\ \A i \in DOMAIN tx_ids[t] : tx_ids[t][i] < receipt[t]
    /\ pc[t] = "awaitRegistered" =>
         /\ receipt[t] \in DOMAIN chain
         /\ chain[receipt[t]].kind = "registerDID"

\* The ids collected are of blocks that carry the items, in their order.
IdsCarryItems ==
  \A t \in Threads :
    /\ Len(tx_ids[t]) <= Len(job[t])
    /\ \A i \in DOMAIN tx_ids[t] : CarriesItem(tx_ids[t][i], job[t][i])
    /\ \A i \in DOMAIN tx_ids[t] : i > 1 => tx_ids[t][i - 1] < tx_ids[t][i]

\* What has a record and what was lost: blocks of the chain, and never the
\* same.
Recorded ==
  /\ transactions \subseteq Submissions
  /\ lost \subseteq DOMAIN chain
  /\ transactions \cap lost = {}

\* What threads have in hand is theirs alone, and neither recorded nor lost.
InHandApart ==
  /\ \A t, u \in Threads : t # u => InHand(t) \cap InHand(u) = {}
  /\ \A t \in Threads : InHand(t) \cap (transactions \cup lost) = {}

\* Every submission is somewhere.
NothingForgotten ==
  \A n \in Submissions :
    n \in transactions \cup lost \/ \E t \in Threads : n \in InHand(t)

\* A recorded transaction is listed, once, or is about to be by one thread.
ToList(t) == IF pc[t] = "list" THEN {receipt[t]} ELSE {}

ListedOnce ==
  /\ transactions = ToSet(tx_order) \cup UNION {ToList(t) : t \in Threads}
  /\ \A i, j \in DOMAIN tx_order : tx_order[i] = tx_order[j] => i = j
  /\ \A t \in Threads : ToList(t) \cap ToSet(tx_order) = {}
  /\ \A t, u \in Threads : t # u => ToList(t) \cap ToList(u) = {}

\* A signed reading is mined at most once by a relay contract.
MinedOnce ==
  \A m, n \in DOMAIN chain :
    (/\ chain[m].kind = "meta" /\ chain[m].dataHash \notin Unsigned
     /\ chain[m] = chain[n]) => m = n

Types == ChainTypes /\ ThreadTypes
CallsInvariant == AtWork /\ LockDiscipline /\ ReceiptsMatch /\ IdsCarryItems
BooksInvariant == Recorded /\ InHandApart /\ NothingForgotten /\ ListedOnce

\* What the threads rely on about the registry.
RegistryRead ==
  /\ \A n \in DOMAIN chain : chain[n].kind = "registerDID" => chain[n].to # 0
  /\ \A did \in registered_dids : KnownTo(contracts.did_registry, did)
  /\ \A t \in Threads :
       /\ pc[t] \in {"submit", "sending"} /\ CurrentItem(t).kind = "meta" =>
            KnownTo(contracts.did_registry, CurrentItem(t).did)
       /\ pc[t] = "awaitRegistered" =>
            /\ chain[receipt[t]].to = contracts.did_registry
            /\ chain[receipt[t]].did = CurrentItem(t).did
  /\ deployments = 0 => contracts = Undeployed

-----------------------------------------------------------------------------
(* Types.                                                                  *)

\* The chain is a log: what is on it stays where it is.
Grows ==
  /\ chain' \in Seq(Block)
  /\ DOMAIN chain \subseteq DOMAIN chain'
  /\ \A n \in DOMAIN chain : chain'[n] = chain[n]

\* A mined block is the next one.
LEMMA Mined ==
  ASSUME ChainTypes, NEW b \in Block, Mine(b), NEW n, n = Len(chain) + 1
  PROVE  /\ Grows /\ chain'[n] = b /\ n \in Nat /\ n # 0
         /\ DOMAIN chain' = DOMAIN chain \cup {n}
         /\ \A m \in DOMAIN chain : m \in Nat /\ m < n
<1>1. chain \in Seq(Block) /\ chain' = Append(chain, b)
      BY DEF ChainTypes, Mine
<1>2. chain' \in Seq(Block) /\ Len(chain') = n /\ Len(chain) \in Nat
      /\ chain'[n] = b /\ \A m \in 1 .. Len(chain) : chain'[m] = chain[m]
      BY <1>1
<1>3. DOMAIN chain = 1 .. Len(chain) /\ DOMAIN chain' = 1 .. n BY <1>1, <1>2
<1>4. QED BY <1>2, <1>3 DEF Grows

\* A deployment adds constructors only.
LEMMA Deployed ==
  ASSUME ChainTypes, NEW created \in 0 .. 3, NEW complete \in BOOLEAN,
         deploy_contracts(created, complete)
  PROVE  /\ Grows
         /\ \A n \in DOMAIN chain' \ DOMAIN chain : chain'[n].kind \in Constructor
<1> DEFINE registry == Len(chain) + 1
           made ==
             << [kind |-> "DIDRegistry", to |-> 0, dataHash |-> 0, did |-> 0],
                [kind |-> "MetaTxRelay", to |-> registry, dataHash |-> 0, did |-> 0],
                [kind |-> "ECDSAVerify", to |-> 0, dataHash |-> 0, did |-> 0] >>
           part == SubSeq(made, 1, created)
<1>1. chain \in Seq(Block) /\ Len(chain) \in Nat /\ registry \in Nat
      BY DEF ChainTypes
<1>2. /\ made \in Seq(Block) /\ Len(made) = 3
      /\ \A k \in 1 .. 3 : made[k] \in Block /\ made[k].kind \in Constructor
  <2>1. /\ made[1] \in Block /\ made[2] \in Block /\ made[3] \in Block
        BY <1>1 DEF Block, Constructor
  <2>2. /\ made[1].kind \in Constructor /\ made[2].kind \in Constructor
        /\ made[3].kind \in Constructor
        BY DEF Constructor
  <2>3. Len(made) = 3 /\ DOMAIN made = 1 .. 3 OBVIOUS
  <2>4. made \in Seq({made[1], made[2], made[3]}) OBVIOUS
  <2>5. {made[1], made[2], made[3]} \subseteq Block BY <2>1
  <2> HIDE DEF made
  <2>6. \A k \in 1 .. 3 : k = 1 \/ k = 2 \/ k = 3 OBVIOUS
  <2>7. \A k \in 1 .. 3 : made[k] \in Block /\ made[k].kind \in Constructor
        BY <2>1, <2>2, <2>6
  <2>8. made = [k \in 1 .. 3 |-> made[k]] BY <2>3, <2>4
  <2>9. made \in Seq(Block) BY <2>3, <2>7, <2>8
  <2>10. QED BY <2>3, <2>7, <2>9
<1>3. chain' = chain \o part BY DEF deploy_contracts
<1> HIDE DEF made
<1>4. /\ part \in Seq(Block) /\ Len(part) = created
      /\ \A k \in 1 .. created : part[k] = made[k]
  <2>1. 1 \in Int /\ created \in Int /\ \A k \in 1 .. created : made[k] \in Block
        BY <1>2
  <2>2. /\ part \in Seq(Block)
        /\ Len(part) = IF 1 <= created THEN created - 1 + 1 ELSE 0
        /\ \A k \in 1 .. created - 1 + 1 : part[k] = made[1 + k - 1]
        BY <2>1, SubSeqProperties, SMTT(30)
  <2>3. created - 1 + 1 = created /\ \A k \in 1 .. created : 1 + k - 1 = k OBVIOUS
  <2>4. QED BY <2>2, <2>3
<1> HIDE DEF part
<1>5. /\ chain' \in Seq(Block) /\ Len(chain') = Len(chain) + created
      /\ \A n \in 1 .. Len(chain) : chain'[n] = chain[n]
      /\ \A n \in 1 .. Len(chain) + created :
           n > Len(chain) => chain'[n] = part[n - Len(chain)]
      BY <1>1, <1>3, <1>4
<1>6. DOMAIN chain = 1 .. Len(chain) /\ DOMAIN chain' = 1 .. Len(chain) + created
      BY <1>1, <1>5
<1>7. ASSUME NEW n \in DOMAIN chain' \ DOMAIN chain
      PROVE  chain'[n].kind \in Constructor
  <2>1. n \in 1 .. Len(chain) + created /\ n > Len(chain) BY <1>1, <1>6
  <2>2. PICK k : k = n - Len(chain) OBVIOUS
  <2>3. k \in 1 .. created /\ k \in 1 .. 3 BY <1>1, <2>1, <2>2
  <2>4. chain'[n] = made[k] BY <1>4, <1>5, <2>1, <2>2, <2>3
  <2>5. QED BY <1>2, <2>3, <2>4
<1>8. QED BY <1>1, <1>5, <1>6, <1>7 DEF Grows

\* Items are readings or baselines.
LEMMA ItemKinds ==
  ASSUME NEW item \in Item
  PROVE  /\ item.kind \in SubmissionKind /\ item.dataHash \in DataHash
         /\ item.did \in DID \cup {0}
         /\ FirstStep(item) \in {"ensure", "submit"}
         /\ FirstStep(item) = "ensure" <=> item.kind = "meta"
BY DEF Item, MetaItem, EcdsaItem, SubmissionKind, FirstStep

\* The item a thread is at is one of those it was called with.
LEMMA CurrentIsItem ==
  ASSUME ThreadTypes, AtWork, NEW t \in Threads, pc[t] # "idle"
  PROVE  CurrentItem(t) \in Item
<1>1. job[t] \in Seq(Item) /\ tx_ids[t] \in Seq(Nat) BY DEF ThreadTypes
<1>2. Len(tx_ids[t]) < Len(job[t]) BY DEF AtWork
<1>3. Len(tx_ids[t]) + 1 \in 1 .. Len(job[t]) BY <1>1, <1>2
<1>4. QED BY <1>1, <1>3 DEF CurrentItem

\* What is sent is a block.
LEMMA SentIsBlock ==
  ASSUME ChainTypes, NEW item \in Item
  PROVE  /\ [kind |-> item.kind, to |-> Target(item), dataHash |-> item.dataHash,
             did |-> item.did] \in Block
         /\ [kind |-> "registerDID", to |-> contracts.did_registry,
             dataHash |-> 0, did |-> item.did] \in Block
<1>1. Target(item) \in Nat /\ contracts.did_registry \in Nat
      BY DEF ChainTypes, Target
<1>2. QED BY <1>1, ItemKinds DEF Block, SubmissionKind

\* A call is made with items.
LEMMA JobItems ==
  ASSUME NEW items \in Jobs
  PROVE  items \in Seq(Item) /\ Len(items) > 0 /\ items[1] \in Item
<1>1. ASSUME NEW i \in EcdsaItem, items = <<i>>
      PROVE  items \in Seq(Item) /\ Len(items) > 0 /\ items[1] \in Item
  <2>1. i \in Item BY DEF Item
  <2>2. QED BY <1>1, <2>1
<1>2. ASSUME NEW n \in 1 .. MaxBatch, items \in [1 .. n -> MetaItem]
      PROVE  items \in Seq(Item) /\ Len(items) > 0 /\ items[1] \in Item
  <2>1. n \in Nat /\ n > 0 BY ParameterAssumption
  <2>2. items \in [1 .. n -> Item] BY <1>2 DEF Item
  <2>3. items \in Seq(Item) /\ Len(items) = n BY <2>1, <2>2
  <2>4. QED BY <2>1, <2>2, <2>3
<1>3. QED BY <1>1, <1>2 DEF Jobs

\* Thread t goes to step s, with n for the block it waits for or has.
Moves(t, s, n) ==
  /\ pc' = [pc EXCEPT ![t] = s]
  /\ receipt' = [receipt EXCEPT ![t] = n]

\* A step that stays within its item moves its thread alone.
LEMMA Moved ==
  ASSUME ThreadTypes, NEW t \in Threads, NEW s \in Steps, NEW n \in Nat, Moves(t, s, n),
         UNCHANGED <<job, tx_ids>>
  PROVE  /\ ThreadTypes'
         /\ pc'[t] = s /\ receipt'[t] = n /\ CurrentItem(t)' = CurrentItem(t)
         /\ \A u \in Threads : u # t => /\ pc'[u] = pc[u] /\ receipt'[u] = receipt[u]
                                        /\ CurrentItem(u)' = CurrentItem(u)
BY DEF ThreadTypes, Moves, CurrentItem

\* The variables other than the chain keep their types in each step of a thread.
LEMMA StepThreadTypes ==
  ASSUME Types, AtWork, NEW t \in Threads,
         step(t) \/ \E items \in Jobs : call(t, items)
  PROVE  ThreadTypes'
<1>0. ThreadTypes BY DEF Types
<1>1. /\ pc \in [Threads -> Steps] /\ job \in [Threads -> Seq(Item)]
      /\ tx_ids \in [Threads -> Seq(Nat)] /\ receipt \in [Threads -> Nat]
      /\ chain \in Seq(Block)
      BY DEF Types, ThreadTypes, ChainTypes
<1>3. /\ "idle" \in Steps /\ "ensure" \in Steps /\ "submit" \in Steps
      /\ "registering" \in Steps /\ "awaitRegistered" \in Steps /\ "sending" \in Steps
      /\ "waiting" \in Steps /\ "readBlock" \in Steps /\ "writeBlock" \in Steps
      /\ "record" \in Steps /\ "list" \in Steps
      BY DEF Steps, UnderLock, HasMined, Registering
<1>4. Len(chain) + 1 \in Nat /\ 0 \in Nat BY <1>1
<1>5. ASSUME NEW items \in Jobs, call(t, items) PROVE ThreadTypes'
  <2>1. items \in Seq(Item) /\ FirstStep(items[1]) \in Steps
        BY <1>3, JobItems, ItemKinds
  <2>2. <<>> \in Seq(Nat) OBVIOUS
  <2>3. QED BY <1>1, <1>3, <1>5, <2>1, <2>2 DEF ThreadTypes, call
<1>6. CASE ensure(t) BY <1>1, <1>3, <1>6 DEF ThreadTypes, ensure
<1>7. CASE register(t)
  <2>1. \/ Moves(t, "awaitRegistered", Len(chain) + 1) \/ Moves(t, "idle", 0)
        BY <1>7 DEF register, Raise, Moves
  <2>2. UNCHANGED <<job, tx_ids>> BY <1>7 DEF register
  <2>3. QED BY <1>0, <1>3, <1>4, <2>1, <2>2, Moved
<1>8. CASE registered(t)
  <2>1. \/ Moves(t, "submit", 0) \/ Moves(t, "idle", 0)
        BY <1>8 DEF registered, Raise, Moves
  <2>2. UNCHANGED <<job, tx_ids>> BY <1>8 DEF registered
  <2>3. QED BY <1>0, <1>3, <1>4, <2>1, <2>2, Moved
<1>9. CASE acquire(t) BY <1>1, <1>3, <1>9 DEF ThreadTypes, acquire
<1>10. CASE send(t)
  <2>1. \/ Moves(t, "waiting", Len(chain) + 1) \/ Moves(t, "idle", 0)
        BY <1>10 DEF send, Raise, Moves
  <2>2. UNCHANGED <<job, tx_ids>> BY <1>10 DEF send
  <2>3. QED BY <1>0, <1>3, <1>4, <2>1, <2>2, Moved
<1>11. CASE wait(t)
  <2>1. \/ pc' = [pc EXCEPT ![t] = "readBlock"] /\ UNCHANGED receipt
        \/ Moves(t, "idle", 0)
        BY <1>11 DEF wait, Raise, Moves
  <2>2. UNCHANGED <<job, tx_ids>> BY <1>11 DEF wait
  <2>3. CASE pc' = [pc EXCEPT ![t] = "readBlock"] /\ UNCHANGED receipt
        BY <1>1, <1>3, <2>2, <2>3 DEF ThreadTypes
  <2>4. CASE Moves(t, "idle", 0) BY <1>0, <1>3, <1>4, <2>2, <2>4, Moved
  <2>5. QED BY <2>1, <2>3, <2>4
<1>12. CASE readBlock(t) BY <1>1, <1>3, <1>12 DEF ThreadTypes, readBlock
<1>13. CASE writeBlock(t) BY <1>1, <1>3, <1>13 DEF ThreadTypes, writeBlock
<1>14. CASE record(t) BY <1>1, <1>3, <1>14 DEF ThreadTypes, record
<1>15. CASE list(t)
  <2>1. PICK ids : ids = Append(tx_ids[t], receipt[t]) OBVIOUS
  <2>2. ids \in Seq(Nat) BY <1>1, <2>1
  <2>3. /\ tx_ids' = [tx_ids EXCEPT ![t] = ids]
        /\ receipt' = [receipt EXCEPT ![t] = 0] /\ UNCHANGED job
        BY <1>15, <2>1 DEF list
  <2>4. tx_ids'[t] = ids BY <1>1, <2>3
  <2>5. pc' = [pc EXCEPT ![t] = IF Len(ids) < Len(job[t])
                                THEN FirstStep(job[t][Len(ids) + 1]) ELSE "idle"]
    <3>1. pc' = [pc EXCEPT ![t] = IF Len(tx_ids'[t]) < Len(job[t])
                                  THEN FirstStep(job[t][Len(tx_ids'[t]) + 1]) ELSE "idle"]
          BY <1>15 DEF list
    <3>2. QED BY <2>4, <3>1, Zenon
  <2>6. Len(ids) < Len(job[t]) => job[t][Len(ids) + 1] \in Item
    <3>1. Len(ids) \in Nat /\ job[t] \in Seq(Item) BY <1>1, <2>2
    <3>2. Len(ids) < Len(job[t]) => Len(ids) + 1 \in 1 .. Len(job[t]) BY <3>1
    <3>3. QED BY <3>1, <3>2
  <2>7. Len(ids) < Len(job[t]) => FirstStep(job[t][Len(ids) + 1]) \in Steps
        BY <1>3, <2>6, ItemKinds
  <2>8. pc' \in [Threads -> Steps] BY <1>1, <1>3, <2>5, <2>7
  <2>9. QED BY <1>1, <2>2, <2>3, <2>8 DEF ThreadTypes
<1>16. QED
       BY <1>5, <1>6, <1>7, <1>8, <1>9, <1>10, <1>11, <1>12, <1>13, <1>14, <1>15
       DEF step

\* The chain only grows.
LEMMA NextGrows ==
  ASSUME Types, AtWork, [Next]_vars
  PROVE  Grows
<1>1. ChainTypes /\ ThreadTypes BY DEF Types
<1>2. UNCHANGED chain => Grows BY <1>1 DEF Grows, ChainTypes
<1>3. ASSUME NEW created \in 0 .. 3, NEW complete \in BOOLEAN,
             deploy_contracts(created, complete)
      PROVE  Grows
      BY <1>1, <1>3, Deployed
<1>4. ASSUME NEW t \in Threads, register(t) PROVE Grows
  <2>1. CurrentItem(t) \in Item BY <1>1, <1>4, CurrentIsItem DEF register
  <2>2. \/ Mine([kind |-> "registerDID", to |-> contracts.did_registry,
                 dataHash |-> 0, did |-> CurrentItem(t).did])
        \/ UNCHANGED chain
        BY <1>4 DEF register
  <2>3. QED BY <1>1, <1>2, <2>1, <2>2, SentIsBlock, Mined
<1>5. ASSUME NEW t \in Threads, send(t) PROVE Grows
  <2>1. PICK item : item = CurrentItem(t) OBVIOUS
  <2>2. item \in Item BY <1>1, <1>5, <2>1, CurrentIsItem DEF send
  <2>3. \/ Mine([kind |-> item.kind, to |-> Target(item),
                 dataHash |-> item.dataHash, did |-> item.did])
        \/ UNCHANGED chain
        BY <1>5, <2>1 DEF send
  <2>4. QED BY <1>1, <1>2, <2>2, <2>3, SentIsBlock, Mined
<1>6. ASSUME NEW t \in Threads,
             \/ \E items \in Jobs : call(t, items)
             \/ ensure(t) \/ registered(t) \/ acquire(t) \/ wait(t) \/ readBlock(t)
             \/ writeBlock(t) \/ record(t) \/ list(t)
      PROVE  UNCHANGED chain
      BY <1>6 DEF call, ensure, registered, acquire, wait, readBlock, writeBlock,
                  record, list, nodeVars
<1>7. CASE UNCHANGED vars BY <1>2, <1>7 DEF vars, nodeVars
<1>8. QED BY <1>2, <1>3, <1>4, <1>5, <1>6, <1>7 DEF Next, step

\* Every variable keeps its type.
LEMMA NextTypes ==
  ASSUME Types, AtWork, [Next]_vars
  PROVE  Types'
<1>0. Grows BY NextGrows
<1>1. /\ contracts \in [did_registry : Nat, meta_tx_relay : Nat, ecdsa_verify : Nat]
      /\ tx_order \in Seq(Nat) /\ lock \in Threads \cup {NoThread}
      /\ deployments \in Nat /\ chain \in Seq(Block)
      /\ receipt \in [Threads -> Nat]
      BY DEF Types, ChainTypes, ThreadTypes
<1>2. ASSUME NEW created \in 0 .. 3, NEW complete \in BOOLEAN,
             deploy_contracts(created, complete)
      PROVE  Types'
  <2>1. contracts' \in [did_registry : Nat, meta_tx_relay : Nat, ecdsa_verify : Nat]
    <3>1. Len(chain) \in Nat BY <1>1
    <3>2. Len(chain) + 1 \in Nat /\ Len(chain) + 2 \in Nat /\ Len(chain) + 3 \in Nat
          BY <3>1
    <3>3. QED BY <1>1, <1>2, <3>2 DEF deploy_contracts, Bind
  <2>2. UNCHANGED <<tx_order, lock, pc, job, tx_ids, receipt>>
        /\ deployments' = deployments + 1
        BY <1>2 DEF deploy_contracts, bookVars, threadVars
  <2>3. QED BY <1>0, <1>1, <2>1, <2>2 DEF Types, ChainTypes, ThreadTypes, Grows
<1>3. ASSUME NEW t \in Threads, step(t) \/ \E items \in Jobs : call(t, items)
      PROVE  Types'
  <2>1. ThreadTypes' BY <1>3, StepThreadTypes
  <2>2. UNCHANGED <<contracts, deployments>>
        BY <1>3 DEF step, call, ensure, register, registered, acquire, send, wait,
                    readBlock, writeBlock, record, list, contractVars
  <2>3. lock' \in Threads \cup {NoThread}
        BY <1>1, <1>3 DEF step, call, ensure, register, registered, acquire, send,
                          wait, readBlock, writeBlock, record, list, Raise
  <2>4. tx_order' \in Seq(Nat)
    <3>1. tx_order' = tx_order \/ tx_order' = Append(tx_order, receipt[t])
          BY <1>3 DEF step, call, ensure, register, registered, acquire, send, wait,
                      readBlock, writeBlock, record, list, Book, bookVars
    <3>2. receipt[t] \in Nat BY <1>1
    <3>3. CASE tx_order' = Append(tx_order, receipt[t])
          BY <1>1, <3>2, <3>3, AppendProperties
    <3>4. QED BY <1>1, <3>1, <3>3
  <2>5. QED BY <1>0, <1>1, <2>1, <2>2, <2>3, <2>4 DEF Types, ChainTypes, Grows
<1>4. CASE UNCHANGED vars
      BY <1>4 DEF vars, nodeVars, contractVars, bookVars, threadVars, Types,
                  ChainTypes, ThreadTypes
<1>5. QED BY <1>2, <1>3, <1>4 DEF Next

-----------------------------------------------------------------------------
(* The steps of a thread.                                                  *)

\* Thread t goes to step s within its item, and leaves the lock with l.
Goes(t, s, n, l) ==
  /\ Moves(t, s, n)
  /\ UNCHANGED <<job, tx_ids>>
  /\ lock' = l

\* It does so on its own: nothing is sent, nothing is lost.
Passes(t, from, s, l) ==
  /\ pc[t] = from
  /\ Goes(t, s, receipt[t], l)
  /\ UNCHANGED <<chain, lost, tx_order>>
  /\ transactions' = IF from = "record" THEN transactions \cup {receipt[t]}
                                        ELSE transactions

\* It sends a block.
Sends(t, from, s, block) ==
  /\ pc[t] = from
  /\ Goes(t, s, Len(chain) + 1, lock)
  /\ Mine(block)
  /\ UNCHANGED <<lost, tx_order, transactions>>

\* It has registered the DID of its reading.
EndsRegistration(t) ==
  /\ pc[t] = "awaitRegistered"
  /\ Goes(t, "submit", 0, NoThread)
  /\ UNCHANGED <<chain, lost, tx_order, transactions>>

\* An exception ends its call; what it was waiting for may be lost.
Fails(t) ==
  /\ pc[t] \in UnderLock
  /\ Goes(t, "idle", 0, IF lock = t THEN NoThread ELSE lock)
  /\ UNCHANGED <<chain, tx_order, transactions>>
  /\ lost' = IF pc[t] \in {"awaitRegistered", "waiting"} THEN lost \cup {receipt[t]}
                                                         ELSE lost

RegistrationBlock(did) ==
  [kind |-> "registerDID", to |-> contracts.did_registry, dataHash |-> 0, did |-> did]
ItemBlock(item) ==
  [kind |-> item.kind, to |-> Target(item), dataHash |-> item.dataHash, did |-> item.did]

\* Every step of a thread but the last of an item is one of these.
LEMMA Edges ==
  ASSUME Types, NEW t \in Threads, step(t), ~list(t)
  PROVE  \/ Passes(t, "ensure", "submit", lock) /\ CurrentItem(t).did \in registered_dids
         \/ Passes(t, "ensure", "registering", t) /\ lock = NoThread
         \/ Passes(t, "submit", "sending", t) /\ lock = NoThread
         \/ Passes(t, "waiting", "readBlock", NoThread)
         \/ Passes(t, "readBlock", "writeBlock", lock)
         \/ Passes(t, "writeBlock", "record", lock)
         \/ Passes(t, "record", "list", lock)
         \/ /\ Sends(t, "registering", "awaitRegistered", RegistrationBlock(CurrentItem(t).did))
            /\ contracts.did_registry # 0
         \/ /\ Sends(t, "sending", "waiting", ItemBlock(CurrentItem(t)))
            /\ Executes(CurrentItem(t))
         \/ EndsRegistration(t) /\ registered_dids' = registered_dids \cup {CurrentItem(t).did}
         \/ Fails(t)
<1>1. receipt \in [Threads -> Nat] BY DEF Types, ThreadTypes
<1>2. receipt = [receipt EXCEPT ![t] = receipt[t]] BY <1>1
<1>3. CASE ensure(t)
  <2>1. CASE CurrentItem(t).did \in registered_dids
    <3>1. Passes(t, "ensure", "submit", lock)
          BY <1>2, <1>3, <2>1 DEF ensure, Passes, Goes, Moves, nodeVars, bookVars
    <3>2. QED BY <2>1, <3>1
  <2>2. CASE CurrentItem(t).did \notin registered_dids
    <3>1. Passes(t, "ensure", "registering", t)
          BY <1>2, <1>3, <2>2 DEF ensure, Passes, Goes, Moves, nodeVars, bookVars
    <3>2. lock = NoThread BY <1>3 DEF ensure
    <3>3. QED BY <3>1, <3>2
  <2>3. QED BY <2>1, <2>2
<1>4. CASE register(t)
  <2>1. /\ pc[t] = "registering" /\ UNCHANGED <<lost, bookVars, job, tx_ids>>
        /\ \/ /\ contracts.did_registry # 0
              /\ Mine(RegistrationBlock(CurrentItem(t).did))
              /\ pc' = [pc EXCEPT ![t] = "awaitRegistered"]
              /\ receipt' = [receipt EXCEPT ![t] = Len(chain) + 1]
              /\ UNCHANGED lock
           \/ Raise(t) /\ UNCHANGED chain
        BY <1>4 DEF register, RegistrationBlock
  <2>2. CASE Raise(t) /\ UNCHANGED chain
    <3>1. Fails(t)
          BY <2>1, <2>2 DEF Raise, Fails, Goes, Moves, bookVars, UnderLock
    <3>2. QED BY <3>1
  <2>3. CASE /\ contracts.did_registry # 0
             /\ Mine(RegistrationBlock(CurrentItem(t).did))
             /\ pc' = [pc EXCEPT ![t] = "awaitRegistered"]
             /\ receipt' = [receipt EXCEPT ![t] = Len(chain) + 1]
             /\ UNCHANGED lock
    <3>1. Sends(t, "registering", "awaitRegistered", RegistrationBlock(CurrentItem(t).did))
          BY <2>1, <2>3 DEF Sends, Goes, Moves, bookVars
    <3>2. QED BY <2>3, <3>1
  <2>4. QED BY <2>1, <2>2, <2>3
<1>5. CASE registered(t)
  <2>1. /\ pc[t] = "awaitRegistered" /\ UNCHANGED <<chain, bookVars, job, tx_ids>>
        /\ \/ /\ registered_dids' = registered_dids \cup {CurrentItem(t).did}
              /\ pc' = [pc EXCEPT ![t] = "submit"]
              /\ receipt' = [receipt EXCEPT ![t] = 0]
              /\ lock' = NoThread
              /\ UNCHANGED lost
           \/ lost' = lost \cup {receipt[t]} /\ Raise(t)
        BY <1>5 DEF registered
  <2>2. CASE lost' = lost \cup {receipt[t]} /\ Raise(t)
    <3>1. Fails(t)
          BY <2>1, <2>2 DEF Raise, Fails, Goes, Moves, bookVars, UnderLock
    <3>2. QED BY <3>1
  <2>3. CASE /\ registered_dids' = registered_dids \cup {CurrentItem(t).did}
             /\ pc' = [pc EXCEPT ![t] = "submit"]
             /\ receipt' = [receipt EXCEPT ![t] = 0]
             /\ lock' = NoThread
             /\ UNCHANGED lost
    <3>1. EndsRegistration(t)
          BY <2>1, <2>3 DEF EndsRegistration, Goes, Moves, bookVars
    <3>2. QED BY <2>3, <3>1
  <2>4. QED BY <2>1, <2>2, <2>3
<1>6. CASE acquire(t)
  <2>1. Passes(t, "submit", "sending", t)
        BY <1>2, <1>6 DEF acquire, Passes, Goes, Moves, nodeVars, bookVars
  <2>2. lock = NoThread BY <1>6 DEF acquire
  <2>3. QED BY <2>1, <2>2
<1>7. CASE send(t)
  <2>1. /\ pc[t] = "sending" /\ UNCHANGED <<lost, bookVars, job, tx_ids>>
        /\ \/ /\ Executes(CurrentItem(t)) /\ Mine(ItemBlock(CurrentItem(t)))
              /\ pc' = [pc EXCEPT ![t] = "waiting"]
              /\ receipt' = [receipt EXCEPT ![t] = Len(chain) + 1]
              /\ UNCHANGED lock
           \/ Raise(t) /\ UNCHANGED chain
        BY <1>7 DEF send, ItemBlock
  <2>2. CASE Raise(t) /\ UNCHANGED chain
    <3>1. Fails(t)
          BY <2>1, <2>2 DEF Raise, Fails, Goes, Moves, bookVars, UnderLock
    <3>2. QED BY <3>1
  <2>3. CASE /\ Executes(CurrentItem(t)) /\ Mine(ItemBlock(CurrentItem(t)))
             /\ pc' = [pc EXCEPT ![t] = "waiting"]
             /\ receipt' = [receipt EXCEPT ![t] = Len(chain) + 1]
             /\ UNCHANGED lock
    <3>1. Sends(t, "sending", "waiting", ItemBlock(CurrentItem(t)))
          BY <2>1, <2>3 DEF Sends, Goes, Moves, bookVars
    <3>2. QED BY <2>3, <3>1
  <2>4. QED BY <2>1, <2>2, <2>3
<1>8. CASE wait(t)
  <2>1. /\ pc[t] = "waiting" /\ UNCHANGED <<chain, bookVars, job, tx_ids>>
        /\ \/ /\ pc' = [pc EXCEPT ![t] = "readBlock"]
              /\ lock' = NoThread
              /\ UNCHANGED <<lost, receipt>>
           \/ lost' = lost \cup {receipt[t]} /\ Raise(t)
        BY <1>8 DEF wait
  <2>2. CASE lost' = lost \cup {receipt[t]} /\ Raise(t)
    <3>1. Fails(t)
          BY <2>1, <2>2 DEF Raise, Fails, Goes, Moves, bookVars, UnderLock
    <3>2. QED BY <3>1
  <2>3. CASE /\ pc' = [pc EXCEPT ![t] = "readBlock"]
             /\ lock' = NoThread
             /\ UNCHANGED <<lost, receipt>>
    <3>1. Passes(t, "waiting", "readBlock", NoThread)
          BY <1>2, <2>1, <2>3 DEF Passes, Goes, Moves, bookVars
    <3>2. QED BY <3>1
  <2>4. QED BY <2>1, <2>2, <2>3
<1>9. CASE readBlock(t)
  <2>1. Passes(t, "readBlock", "writeBlock", lock)
        BY <1>2, <1>9 DEF readBlock, Passes, Goes, Moves, nodeVars, bookVars
  <2>2. QED BY <2>1
<1>10. CASE writeBlock(t)
  <2>1. Passes(t, "writeBlock", "record", lock)
        BY <1>2, <1>10 DEF writeBlock, Passes, Goes, Moves, nodeVars
  <2>2. QED BY <2>1
<1>11. CASE record(t)
  <2>1. Passes(t, "record", "list", lock)
        BY <1>2, <1>11 DEF record, Book, Passes, Goes, Moves, nodeVars
  <2>2. QED BY <2>1
<1>12. QED BY <1>3, <1>4, <1>5, <1>6, <1>7, <1>8, <1>9, <1>10, <1>11 DEF step

\* Thread t lists its transaction, and turns to its next item or is done.
Lists(t, ids, s) ==
  /\ pc[t] = "list"
  /\ Moves(t, s, 0)
  /\ ids = Append(tx_ids[t], receipt[t])
  /\ tx_ids' = [tx_ids EXCEPT ![t] = ids]
  /\ tx_order' = Append(tx_order, receipt[t])
  /\ UNCHANGED <<chain, lost, transactions, job, lock>>
  /\ s \in {"idle", "ensure", "submit"}
  /\ s # "idle" => /\ Len(ids) < Len(job[t])
                   /\ s = "ensure" <=> job[t][Len(ids) + 1].kind = "meta"

\* The last step of an item is this one.
LEMMA ListEdge ==
  ASSUME Types, NEW t \in Threads, list(t)
  PROVE  \E ids \in Seq(Nat), s \in Steps : Lists(t, ids, s)
<1>1. /\ job \in [Threads -> Seq(Item)] /\ tx_ids \in [Threads -> Seq(Nat)]
      /\ receipt \in [Threads -> Nat]
      BY DEF Types, ThreadTypes
<1>2. PICK ids : ids = Append(tx_ids[t], receipt[t]) OBVIOUS
<1>3. ids \in Seq(Nat) BY <1>1, <1>2
<1>4. /\ tx_ids' = [tx_ids EXCEPT ![t] = ids] /\ receipt' = [receipt EXCEPT ![t] = 0]
      /\ tx_order' = Append(tx_order, receipt[t]) /\ pc[t] = "list"
      /\ UNCHANGED <<chain, lost, transactions, job, lock>>
      BY <1>2 DEF list, Book, nodeVars
<1>5. tx_ids'[t] = ids BY <1>1, <1>4
<1>6. PICK s : s = IF Len(ids) < Len(job[t]) THEN FirstStep(job[t][Len(ids) + 1])
                                             ELSE "idle"
      OBVIOUS
<1>7. pc' = [pc EXCEPT ![t] = s]
  <2>1. pc' = [pc EXCEPT ![t] = IF Len(tx_ids'[t]) < Len(job[t])
                                THEN FirstStep(job[t][Len(tx_ids'[t]) + 1]) ELSE "idle"]
        BY DEF list
  <2>2. QED BY <1>5, <1>6, <2>1, Zenon
<1>8. Len(ids) < Len(job[t]) => job[t][Len(ids) + 1] \in Item
  <2>1. Len(ids) \in Nat /\ job[t] \in Seq(Item) BY <1>1, <1>3
  <2>2. Len(ids) < Len(job[t]) => Len(ids) + 1 \in 1 .. Len(job[t]) BY <2>1
  <2>3. QED BY <2>1, <2>2
<1>9. CASE Len(ids) < Len(job[t])
  <2>1. PICK item \in Item : item = job[t][Len(ids) + 1] BY <1>8, <1>9
  <2>2. s = FirstStep(item) BY <1>6, <1>9, <2>1
  <2>3. s \in {"ensure", "submit"} /\ (s = "ensure" <=> item.kind = "meta")
        BY <2>2, ItemKinds
  <2>4. Lists(t, ids, s)
        BY <1>2, <1>4, <1>7, <1>9, <2>1, <2>3 DEF Lists, Moves
  <2>5. s \in Steps BY <2>3 DEF Steps, Registering
  <2>6. QED BY <1>3, <2>4, <2>5
<1>10. CASE ~(Len(ids) < Len(job[t]))
  <2>1. s = "idle" BY <1>6, <1>10
  <2>2. Lists(t, ids, s) BY <1>2, <1>4, <1>7, <2>1 DEF Lists, Moves
  <2>3. s \in Steps BY <2>1 DEF Steps
  <2>4. QED BY <1>3, <2>2, <2>3
<1>11. QED BY <1>9, <1>10

-----------------------------------------------------------------------------
(* The calls.                                                              *)

\* A thread that moves within its item keeps what a call relies on.
LEMMA GoesCalls ==
  ASSUME Types, CallsInvariant, Grows, NEW t \in Threads, NEW s \in Steps, NEW n \in Nat,
         NEW l, Goes(t, s, n, l), pc[t] # "idle",
         s \in Registering => pc[t] \in Registering,
         s \in UnderLock <=> l = t,
         \A u \in Threads : u # t => (l = u <=> lock = u),
         s \in HasMined =>
           /\ n \in DOMAIN chain' /\ chain'[n].kind = CurrentItem(t).kind
           /\ chain'[n].dataHash = CurrentItem(t).dataHash
           /\ \A i \in DOMAIN tx_ids[t] : tx_ids[t][i] < n,
         s = "awaitRegistered" => n \in DOMAIN chain' /\ chain'[n].kind = "registerDID"
  PROVE  CallsInvariant'
<1>1. ThreadTypes /\ AtWork /\ LockDiscipline /\ ReceiptsMatch /\ IdsCarryItems
      BY DEF Types, CallsInvariant
<1>2. Moves(t, s, n) /\ UNCHANGED <<job, tx_ids>> /\ lock' = l BY DEF Goes
<1>3. /\ pc'[t] = s /\ receipt'[t] = n /\ CurrentItem(t)' = CurrentItem(t)
      /\ \A u \in Threads : u # t => /\ pc'[u] = pc[u] /\ receipt'[u] = receipt[u]
                                     /\ CurrentItem(u)' = CurrentItem(u)
      BY <1>1, <1>2, Moved
<1>4. AtWork'
  <2>1. ASSUME NEW u \in Threads, pc'[u] # "idle"
        PROVE  /\ Len(tx_ids'[u]) < Len(job'[u])
               /\ pc'[u] \in Registering => CurrentItem(u)'.kind = "meta"
    <3>1. pc[u] # "idle" /\ (pc'[u] \in Registering => pc[u] \in Registering)
          BY <1>3, <2>1
    <3>2. CurrentItem(u)' = CurrentItem(u) BY <1>3
    <3>3. QED BY <1>1, <1>2, <3>1, <3>2 DEF AtWork
  <2>2. QED BY <2>1 DEF AtWork
<1>5. LockDiscipline' BY <1>1, <1>2, <1>3 DEF LockDiscipline
<1>6. ReceiptsMatch'
  <2>1. ASSUME NEW u \in Threads
        PROVE  /\ pc'[u] \in HasMined =>
                    /\ receipt'[u] \in DOMAIN chain'
                    /\ chain'[receipt'[u]].kind = CurrentItem(u)'.kind
                    /\ chain'[receipt'[u]].dataHash = CurrentItem(u)'.dataHash
                    /\ \A i \in DOMAIN tx_ids'[u] : tx_ids'[u][i] < receipt'[u]
               /\ pc'[u] = "awaitRegistered" =>
                    /\ receipt'[u] \in DOMAIN chain'
                    /\ chain'[receipt'[u]].kind = "registerDID"
    <3>1. CASE u = t BY <1>2, <1>3, <3>1
    <3>2. CASE u # t
      <4>1. /\ pc'[u] = pc[u] /\ receipt'[u] = receipt[u]
            /\ CurrentItem(u)' = CurrentItem(u) /\ tx_ids' = tx_ids
            BY <1>2, <1>3, <3>2
      <4>2. /\ pc[u] \in HasMined =>
                 /\ receipt[u] \in DOMAIN chain
                 /\ chain[receipt[u]].kind = CurrentItem(u).kind
                 /\ chain[receipt[u]].dataHash = CurrentItem(u).dataHash
                 /\ \A i \in DOMAIN tx_ids[u] : tx_ids[u][i] < receipt[u]
            /\ pc[u] = "awaitRegistered" =>
                 /\ receipt[u] \in DOMAIN chain
                 /\ chain[receipt[u]].kind = "registerDID"
            BY <1>1 DEF ReceiptsMatch, CarriesItem
      <4>3. receipt[u] \in DOMAIN chain =>
              receipt[u] \in DOMAIN chain' /\ chain'[receipt[u]] = chain[receipt[u]]
            BY DEF Grows
      <4>4. QED BY <4>1, <4>2, <4>3
    <3>3. QED BY <3>1, <3>2
  <2>2. QED BY <2>1 DEF ReceiptsMatch, CarriesItem
<1>7. IdsCarryItems' BY <1>1, <1>2 DEF IdsCarryItems, CarriesItem, Grows
<1>8. QED BY <1>4, <1>5, <1>6, <1>7 DEF CallsInvariant

\* A thread that passes on keeps what a call relies on.
LEMMA PassesCalls ==
  ASSUME Types, CallsInvariant, Grows, NEW t \in Threads, NEW from, NEW s \in Steps,
         NEW l, Passes(t, from, s, l), from # "idle", s # "awaitRegistered",
         s \in Registering => from \in Registering,
         s \in HasMined => from \in HasMined,
         s \in UnderLock <=> l = t,
         \A u \in Threads : u # t => (l = u <=> lock = u)
  PROVE  CallsInvariant'
<1>1. pc[t] = from /\ Goes(t, s, receipt[t], l) /\ UNCHANGED chain BY DEF Passes
<1>2. PICK n \in Nat : n = receipt[t] BY DEF Types, ThreadTypes
<1>3. s \in HasMined =>
        /\ n \in DOMAIN chain' /\ chain'[n].kind = CurrentItem(t).kind
        /\ chain'[n].dataHash = CurrentItem(t).dataHash
        /\ \A i \in DOMAIN tx_ids[t] : tx_ids[t][i] < n
      BY <1>1, <1>2 DEF CallsInvariant, ReceiptsMatch, CarriesItem
<1>4. Goes(t, s, n, l) BY <1>1, <1>2
<1>5. QED BY <1>1, <1>3, <1>4, GoesCalls

\* A thread that sends a block that carries its item does too.
LEMMA SendsCalls ==
  ASSUME Types, CallsInvariant, NEW t \in Threads, NEW from \in UnderLock,
         NEW s \in {"awaitRegistered", "waiting"}, NEW b \in Block, Sends(t, from, s, b),
         s = "awaitRegistered" => from \in Registering /\ b.kind = "registerDID",
         s = "waiting" => /\ b.kind = CurrentItem(t).kind
                          /\ b.dataHash = CurrentItem(t).dataHash
  PROVE  CallsInvariant'
<1>1. pc[t] = from /\ Goes(t, s, Len(chain) + 1, lock) /\ Mine(b) BY DEF Sends
<1>2. PICK n : n = Len(chain) + 1 OBVIOUS
<1>3. /\ Grows /\ chain'[n] = b /\ n \in Nat /\ DOMAIN chain' = DOMAIN chain \cup {n}
      /\ \A m \in DOMAIN chain : m \in Nat /\ m < n
      BY <1>1, <1>2, Mined DEF Types
<1>4. \A i \in DOMAIN tx_ids[t] : tx_ids[t][i] < n
      BY <1>3 DEF CallsInvariant, IdsCarryItems, CarriesItem, Types, ThreadTypes
<1>5. Goes(t, s, n, lock) BY <1>1, <1>2
<1>6. lock = t BY <1>1 DEF CallsInvariant, LockDiscipline
<1>7. s \in Steps /\ s \in UnderLock /\ from # "idle"
      BY DEF Steps, UnderLock, HasMined, Registering
<1>8. s \in Registering => from \in Registering BY DEF Registering
<1>9. s \in HasMined => s = "waiting" BY DEF HasMined
<1>10. n \in DOMAIN chain' BY <1>3
<1>11. s \in UnderLock <=> lock = t BY <1>6, <1>7
<1>12. s \in HasMined =>
         /\ n \in DOMAIN chain' /\ chain'[n].kind = CurrentItem(t).kind
         /\ chain'[n].dataHash = CurrentItem(t).dataHash
         /\ \A i \in DOMAIN tx_ids[t] : tx_ids[t][i] < n
       BY <1>3, <1>4, <1>9, <1>10
<1>13. s = "awaitRegistered" => n \in DOMAIN chain' /\ chain'[n].kind = "registerDID"
       BY <1>3, <1>10
<1>14. QED
       BY <1>1, <1>3, <1>5, <1>7, <1>8, <1>11, <1>12, <1>13, GoesCalls

\* The steps within an item keep what a call relies on.
LEMMA EdgesCalls ==
  ASSUME Types, CallsInvariant, Grows, NEW t \in Threads, step(t), ~list(t)
  PROVE  CallsInvariant'
<1>1. /\ "idle" \in Steps /\ "submit" \in Steps
      /\ "registering" \in Steps /\ "sending" \in Steps /\ "readBlock" \in Steps
      /\ "writeBlock" \in Steps /\ "record" \in Steps /\ "list" \in Steps
      BY DEF Steps, UnderLock, HasMined, Registering
<1>2. \A u \in Threads : (pc[u] \in UnderLock <=> lock = u) /\ u # NoThread
      BY ParameterAssumption DEF CallsInvariant, LockDiscipline
<1>3. CASE Passes(t, "ensure", "submit", lock)
  <2>1. lock # t BY <1>2, <1>3 DEF Passes, UnderLock
  <2>2. QED BY <1>1, <1>3, <2>1, PassesCalls DEF UnderLock, HasMined, Registering
<1>4. CASE Passes(t, "ensure", "registering", t) /\ lock = NoThread
      BY <1>1, <1>2, <1>4, PassesCalls DEF UnderLock, HasMined, Registering
<1>5. CASE Passes(t, "submit", "sending", t) /\ lock = NoThread
      BY <1>1, <1>2, <1>5, PassesCalls DEF UnderLock, HasMined, Registering
<1>6. CASE Passes(t, "waiting", "readBlock", NoThread)
  <2>1. lock = t BY <1>2, <1>6 DEF Passes, UnderLock
  <2>2. QED BY <1>1, <1>2, <1>6, <2>1, PassesCalls DEF UnderLock, HasMined, Registering
<1>7. CASE Passes(t, "readBlock", "writeBlock", lock)
  <2>1. lock # t BY <1>2, <1>7 DEF Passes, UnderLock
  <2>2. QED BY <1>1, <1>7, <2>1, PassesCalls DEF UnderLock, HasMined, Registering
<1>8. CASE Passes(t, "writeBlock", "record", lock)
  <2>1. lock # t BY <1>2, <1>8 DEF Passes, UnderLock
  <2>2. QED BY <1>1, <1>8, <2>1, PassesCalls DEF UnderLock, HasMined, Registering
<1>9. CASE Passes(t, "record", "list", lock)
  <2>1. lock # t BY <1>2, <1>9 DEF Passes, UnderLock
  <2>2. QED BY <1>1, <1>9, <2>1, PassesCalls DEF UnderLock, HasMined, Registering
<1>10. CASE Sends(t, "registering", "awaitRegistered",
                  RegistrationBlock(CurrentItem(t).did))
  <2>1. pc[t] = "registering" BY <1>10 DEF Sends
  <2>2. CurrentItem(t) \in Item BY <2>1, CurrentIsItem DEF Types, CallsInvariant
  <2>3. PICK b : b = RegistrationBlock(CurrentItem(t).did) OBVIOUS
  <2>4. b \in Block /\ b.kind = "registerDID"
        BY <2>2, <2>3, SentIsBlock DEF Types, RegistrationBlock
  <2>5. Sends(t, "registering", "awaitRegistered", b) BY <1>10, <2>3
  <2>6. QED BY <2>4, <2>5, SendsCalls DEF UnderLock, Registering
<1>11. CASE Sends(t, "sending", "waiting", ItemBlock(CurrentItem(t)))
  <2>1. pc[t] = "sending" BY <1>11 DEF Sends
  <2>2. CurrentItem(t) \in Item BY <2>1, CurrentIsItem DEF Types, CallsInvariant
  <2>3. PICK b : b = ItemBlock(CurrentItem(t)) OBVIOUS
  <2>4. /\ b \in Block /\ b.kind = CurrentItem(t).kind
        /\ b.dataHash = CurrentItem(t).dataHash
        BY <2>2, <2>3, SentIsBlock DEF Types, ItemBlock
  <2>5. Sends(t, "sending", "waiting", b) BY <1>11, <2>3
  <2>6. QED BY <2>4, <2>5, SendsCalls DEF UnderLock
<1>12. CASE EndsRegistration(t)
  <2>1. pc[t] = "awaitRegistered" /\ Goes(t, "submit", 0, NoThread)
        BY <1>12 DEF EndsRegistration
  <2>2. lock = t BY <1>2, <2>1 DEF UnderLock
  <2>3. \A u \in Threads : u # t => (NoThread = u <=> lock = u) BY <1>2, <2>2
  <2>4. NoThread # t /\ "submit" \notin UnderLock /\ "submit" \notin HasMined
        /\ "submit" \notin Registering
        BY <1>2 DEF UnderLock, HasMined, Registering
  <2>5. QED BY <1>1, <2>1, <2>3, <2>4, GoesCalls
<1>13. CASE Fails(t)
  <2>1. PICK l : l = IF lock = t THEN NoThread ELSE lock OBVIOUS
  <2>2. pc[t] \in UnderLock /\ Goes(t, "idle", 0, l) BY <1>13, <2>1 DEF Fails
  <2>3. l = NoThread /\ lock = t BY <1>2, <2>1, <2>2
  <2>4. \A u \in Threads : u # t => (l = u <=> lock = u) BY <1>2, <2>3
  <2>5. l # t /\ "idle" \notin UnderLock /\ "idle" \notin HasMined
        /\ "idle" \notin Registering /\ pc[t] # "idle"
        BY <1>2, <2>2, <2>3 DEF UnderLock, HasMined, Registering
  <2>6. QED BY <1>1, <2>2, <2>4, <2>5, GoesCalls
<1>14. QED
       BY <1>3, <1>4, <1>5, <1>6, <1>7, <1>8, <1>9, <1>10, <1>11, <1>12, <1>13, Edges

\* So does the end of an item.
LEMMA ListCalls ==
  ASSUME Types, CallsInvariant, NEW t \in Threads, list(t)
  PROVE  CallsInvariant'
<1>1. PICK ids \in Seq(Nat), s \in Steps : Lists(t, ids, s) BY ListEdge
<1>2. /\ pc \in [Threads -> Steps] /\ job \in [Threads -> Seq(Item)]
      /\ tx_ids \in [Threads -> Seq(Nat)] /\ receipt \in [Threads -> Nat]
      BY DEF Types, ThreadTypes
<1>3. /\ pc[t] = "list" /\ pc' = [pc EXCEPT ![t] = s]
      /\ receipt' = [receipt EXCEPT ![t] = 0] /\ tx_ids' = [tx_ids EXCEPT ![t] = ids]
      /\ ids = Append(tx_ids[t], receipt[t]) /\ job' = job /\ chain' = chain
      /\ lock' = lock /\ s \in {"idle", "ensure", "submit"}
      /\ s # "idle" => /\ Len(ids) < Len(job[t])
                       /\ s = "ensure" => job[t][Len(ids) + 1].kind = "meta"
      BY <1>1 DEF Lists, Moves
<1>4. /\ pc'[t] = s /\ tx_ids'[t] = ids
      /\ \A u \in Threads : u # t => /\ pc'[u] = pc[u] /\ receipt'[u] = receipt[u]
                                     /\ tx_ids'[u] = tx_ids[u]
      BY <1>2, <1>3
<1>5. \A u \in Threads : CurrentItem(u)' = job[u][Len(tx_ids'[u]) + 1]
      BY <1>3 DEF CurrentItem
<1>6. \A u \in Threads : u # t => CurrentItem(u)' = CurrentItem(u)
      BY <1>3, <1>4 DEF CurrentItem
<1>7. AtWork'
  <2>1. ASSUME NEW u \in Threads, pc'[u] # "idle"
        PROVE  /\ Len(tx_ids'[u]) < Len(job'[u])
               /\ pc'[u] \in Registering => CurrentItem(u)'.kind = "meta"
    <3>1. CASE u = t
      <4>1. s # "idle" /\ (s \in Registering => s = "ensure")
            BY <1>3, <1>4, <2>1, <3>1 DEF Registering
      <4>2. QED BY <1>3, <1>4, <1>5, <3>1, <4>1
    <3>2. CASE u # t
      <4>1. pc[u] # "idle" BY <1>4, <2>1, <3>2
      <4>2. QED BY <1>3, <1>4, <1>6, <3>2, <4>1 DEF CallsInvariant, AtWork
    <3>3. QED BY <3>1, <3>2
  <2>2. QED BY <2>1 DEF AtWork
<1>8. LockDiscipline'
  <2>1. pc[t] \notin UnderLock /\ s \notin UnderLock BY <1>3 DEF UnderLock
  <2>2. QED BY <1>3, <1>4, <2>1 DEF CallsInvariant, LockDiscipline
<1>9. ReceiptsMatch'
  <2>1. s \notin HasMined /\ s # "awaitRegistered" BY <1>3 DEF HasMined
  <2>2. QED BY <1>3, <1>4, <1>6, <2>1 DEF CallsInvariant, ReceiptsMatch, CarriesItem
<1>10. IdsCarryItems'
  <2>1. PICK n \in Nat, k \in Nat : n = receipt[t] /\ k = Len(tx_ids[t])
        BY <1>2
  <2>2. /\ n \in DOMAIN chain /\ chain[n].kind = job[t][k + 1].kind
        /\ chain[n].dataHash = job[t][k + 1].dataHash
        /\ \A i \in DOMAIN tx_ids[t] : tx_ids[t][i] < n
        BY <1>3, <2>1 DEF CallsInvariant, ReceiptsMatch, CarriesItem, CurrentItem, HasMined
  <2>3. k < Len(job[t]) BY <1>3, <2>1 DEF CallsInvariant, AtWork
  <2>4. /\ DOMAIN ids = 1 .. k + 1 /\ Len(ids) = k + 1 /\ ids[k + 1] = n
        /\ DOMAIN tx_ids[t] = 1 .. k /\ \A i \in 1 .. k : ids[i] = tx_ids[t][i]
        BY <1>2, <1>3, <2>1
  <2>5. /\ \A i \in DOMAIN tx_ids[t] : CarriesItem(tx_ids[t][i], job[t][i])
        /\ \A i \in DOMAIN tx_ids[t] : i > 1 => tx_ids[t][i - 1] < tx_ids[t][i]
        BY DEF CallsInvariant, IdsCarryItems
  <2>6. Len(ids) <= Len(job[t])
    <3>1. Len(job[t]) \in Nat BY <1>2
    <3>2. QED BY <2>3, <2>4, <3>1
  <2>7. ASSUME NEW i \in DOMAIN ids
        PROVE  /\ ids[i] \in DOMAIN chain /\ chain[ids[i]].kind = job[t][i].kind
               /\ chain[ids[i]].dataHash = job[t][i].dataHash
               /\ i > 1 => ids[i - 1] < ids[i]
    <3>1. CASE i = k + 1
      <4>1. i > 1 => i - 1 \in 1 .. k BY <2>4, <3>1
      <4>2. i > 1 => ids[i - 1] = tx_ids[t][i - 1] /\ tx_ids[t][i - 1] < n
            BY <2>2, <2>4, <4>1
      <4>3. QED BY <2>2, <2>4, <3>1, <4>2
    <3>2. CASE i # k + 1
      <4>1. i \in 1 .. k /\ (i > 1 => i - 1 \in 1 .. k) BY <2>4, <3>2
      <4>2. ids[i] = tx_ids[t][i] /\ (i > 1 => ids[i - 1] = tx_ids[t][i - 1])
            BY <2>4, <4>1
      <4>3. i \in DOMAIN tx_ids[t] BY <2>4, <4>1
      <4>4. QED BY <2>5, <4>2, <4>3 DEF CarriesItem
    <3>3. QED BY <3>1, <3>2
  <2>8. ASSUME NEW u \in Threads
        PROVE  /\ Len(tx_ids'[u]) <= Len(job'[u])
               /\ \A i \in DOMAIN tx_ids'[u] :
                    /\ tx_ids'[u][i] \in DOMAIN chain'
                    /\ chain'[tx_ids'[u][i]].kind = job'[u][i].kind
                    /\ chain'[tx_ids'[u][i]].dataHash = job'[u][i].dataHash
                    /\ i > 1 => tx_ids'[u][i - 1] < tx_ids'[u][i]
    <3>1. CASE u = t BY <1>3, <1>4, <2>6, <2>7, <3>1
    <3>2. CASE u # t
          BY <1>3, <1>4, <3>2 DEF CallsInvariant, IdsCarryItems, CarriesItem
    <3>3. QED BY <3>1, <3>2
  <2>9. QED BY <2>8 DEF IdsCarryItems, CarriesItem
<1>11. QED BY <1>7, <1>8, <1>9, <1>10 DEF CallsInvariant

\* And a call that begins.
LEMMA CallCalls ==
  ASSUME Types, CallsInvariant, NEW t \in Threads, NEW items \in Jobs, call(t, items)
  PROVE  CallsInvariant'
<1>1. items \in Seq(Item) /\ Len(items) > 0 /\ items[1] \in Item BY JobItems
<1>2. /\ pc \in [Threads -> Steps] /\ job \in [Threads -> Seq(Item)]
      /\ tx_ids \in [Threads -> Seq(Nat)]
      BY DEF Types, ThreadTypes
<1>3. PICK s : s = FirstStep(items[1]) OBVIOUS
<1>4. s \in {"ensure", "submit"} /\ (s = "ensure" => items[1].kind = "meta")
      BY <1>1, <1>3, ItemKinds
<1>5. /\ pc[t] = "idle" /\ pc' = [pc EXCEPT ![t] = s]
      /\ job' = [job EXCEPT ![t] = items] /\ tx_ids' = [tx_ids EXCEPT ![t] = <<>>]
      /\ UNCHANGED <<chain, lock, receipt>>
      BY <1>3 DEF call, nodeVars
<1>6. /\ pc'[t] = s /\ tx_ids'[t] = <<>> /\ job'[t] = items
      /\ \A u \in Threads : u # t => /\ pc'[u] = pc[u] /\ job'[u] = job[u]
                                     /\ tx_ids'[u] = tx_ids[u]
      BY <1>2, <1>5
<1>7. \A u \in Threads : CurrentItem(u)' = job'[u][Len(tx_ids'[u]) + 1]
      BY DEF CurrentItem
<1>8. /\ CurrentItem(t)' = items[1] /\ Len(tx_ids'[t]) = 0
      /\ \A u \in Threads : u # t => CurrentItem(u)' = CurrentItem(u)
      BY <1>6, <1>7 DEF CurrentItem
<1>9. AtWork' BY <1>1, <1>4, <1>6, <1>8 DEF CallsInvariant, AtWork, Registering
<1>10. LockDiscipline'
  <2>1. pc[t] \notin UnderLock /\ s \notin UnderLock BY <1>4, <1>5 DEF UnderLock
  <2>2. QED BY <1>5, <1>6, <2>1 DEF CallsInvariant, LockDiscipline
<1>11. ReceiptsMatch'
  <2>1. s \notin HasMined /\ s # "awaitRegistered" BY <1>4 DEF HasMined
  <2>2. QED BY <1>5, <1>6, <1>8, <2>1 DEF CallsInvariant, ReceiptsMatch, CarriesItem
<1>12. IdsCarryItems'
  <2>1. DOMAIN <<>> = {} /\ Len(<<>>) <= Len(items) BY <1>1
  <2>2. QED BY <1>5, <1>6, <2>1 DEF CallsInvariant, IdsCarryItems, CarriesItem
<1>13. QED BY <1>9, <1>10, <1>11, <1>12 DEF CallsInvariant

\* A deployment leaves the calls alone.
LEMMA DeployCalls ==
  ASSUME Types, CallsInvariant, Grows, UNCHANGED <<pc, job, tx_ids, receipt, lock>>
  PROVE  CallsInvariant'
<1>1. \A u \in Threads : CurrentItem(u)' = CurrentItem(u) BY DEF CurrentItem
<1>2. AtWork' BY <1>1 DEF CallsInvariant, AtWork
<1>3. LockDiscipline' BY DEF CallsInvariant, LockDiscipline
<1>4. ReceiptsMatch' BY <1>1 DEF CallsInvariant, ReceiptsMatch, CarriesItem, Grows
<1>5. IdsCarryItems' BY DEF CallsInvariant, IdsCarryItems, CarriesItem, Grows
<1>6. QED BY <1>2, <1>3, <1>4, <1>5 DEF CallsInvariant

\* Every step keeps what a call relies on.
LEMMA NextCalls ==
  ASSUME Types, CallsInvariant, [Next]_vars
  PROVE  CallsInvariant'
<1>1. Grows BY NextGrows DEF CallsInvariant
<1>2. ASSUME NEW created \in 0 .. 3, NEW complete \in BOOLEAN,
             deploy_contracts(created, complete)
      PROVE  UNCHANGED <<pc, job, tx_ids, receipt, lock>>
      BY <1>2 DEF deploy_contracts, threadVars
<1>3. ASSUME UNCHANGED vars PROVE UNCHANGED <<pc, job, tx_ids, receipt, lock>>
      BY <1>3 DEF vars, threadVars
<1>4. ASSUME NEW t \in Threads, step(t) PROVE CallsInvariant'
      BY <1>1, <1>4, EdgesCalls, ListCalls
<1>5. QED BY <1>1, <1>2, <1>3, <1>4, DeployCalls, CallCalls DEF Next

\* At the start nothing is at work.
LEMMA InitCalls ==
  ASSUME Init
  PROVE  Types /\ CallsInvariant
<1>1. \A t \in Threads : t # NoThread BY ParameterAssumption
<1>2. <<>> \in Seq(Block) /\ <<>> \in Seq(Nat) /\ <<>> \in Seq(Item) OBVIOUS
<1>3. ChainTypes BY <1>2 DEF Init, ChainTypes, Undeployed
<1>4. ThreadTypes BY <1>2 DEF Init, ThreadTypes, Steps
<1>5. \A t \in Threads : pc[t] = "idle" /\ tx_ids[t] = <<>> /\ job[t] = <<>>
      BY DEF Init
<1>6. AtWork BY <1>5 DEF AtWork
<1>7. LockDiscipline BY <1>1, <1>5 DEF LockDiscipline, UnderLock, Init
<1>8. ReceiptsMatch BY <1>5 DEF ReceiptsMatch, HasMined
<1>9. IdsCarryItems BY <1>5 DEF IdsCarryItems
<1>10. QED BY <1>3, <1>4, <1>6, <1>7, <1>8, <1>9 DEF Types, CallsInvariant

\* What a call relies on holds throughout.
LEMMA AlwaysCalls == Spec => [](Types /\ CallsInvariant)
<1>1. Init => Types /\ CallsInvariant BY InitCalls
<1>2. Types /\ CallsInvariant /\ [Next]_vars => (Types /\ CallsInvariant)'
      BY NextTypes, NextCalls DEF CallsInvariant
<1>3. QED BY <1>1, <1>2, PTL DEF Spec

\* However a call ends, with an exception in the middle of a batch or under
\* the lock or not, the blocks it has ids of carry a prefix of its items in
\* their order, and the lock is free or held by a thread that talks to the node.
THEOREM Calls == Spec => []CallsEndClean
<1>1. ASSUME Types, CallsInvariant PROVE CallsEndClean
  <2>1. IdsMatchItems
    <3>1. ASSUME NEW t \in Threads, NEW i \in DOMAIN tx_ids[t]
          PROVE  /\ i <= Len(job[t])
                 /\ chain[tx_ids[t][i]].kind = job[t][i].kind
                 /\ chain[tx_ids[t][i]].dataHash = job[t][i].dataHash
                 /\ i > 1 => tx_ids[t][i - 1] < tx_ids[t][i]
      <4>1. /\ Len(tx_ids[t]) <= Len(job[t]) /\ CarriesItem(tx_ids[t][i], job[t][i])
            /\ i > 1 => tx_ids[t][i - 1] < tx_ids[t][i]
            BY <1>1 DEF CallsInvariant, IdsCarryItems
      <4>2. Len(tx_ids[t]) \in Nat /\ Len(job[t]) \in Nat /\ i \in 1 .. Len(tx_ids[t])
            BY <1>1 DEF Types, ThreadTypes
      <4>3. QED BY <4>1, <4>2 DEF CarriesItem
    <3>2. QED BY <3>1 DEF IdsMatchItems
  <2>2. LockIsInUse
        BY <1>1 DEF CallsInvariant, LockDiscipline, LockIsInUse, Types, ChainTypes,
                    UnderLock
  <2>3. QED BY <2>1, <2>2 DEF CallsEndClean
<1>2. QED BY <1>1, AlwaysCalls, PTL

-----------------------------------------------------------------------------
(* The books.                                                              *)

\* Where a thread has a submission in hand.
Holding == {"waiting", "readBlock", "writeBlock", "record"}

\* What a move changes in what the threads have in hand and are about to list.
LEMMA HandsMove ==
  ASSUME Types, NEW t \in Threads, NEW s, NEW n, Moves(t, s, n)
  PROVE  /\ InHand(t)' = IF s \in Holding THEN {n} ELSE {}
         /\ ToList(t)' = IF s = "list" THEN {n} ELSE {}
         /\ \A u \in Threads : u # t => InHand(u)' = InHand(u) /\ ToList(u)' = ToList(u)
BY DEF Types, ThreadTypes, Moves, InHand, ToList, Holding

\* What is in hand is a submission on the chain.
LEMMA HandsHoldSubmissions ==
  ASSUME Types, CallsInvariant, NEW t \in Threads
  PROVE  /\ InHand(t) \subseteq Submissions
         /\ pc[t] = "awaitRegistered" => receipt[t] \in DOMAIN chain \ Submissions
<1>1. ASSUME pc[t] \in Holding PROVE receipt[t] \in Submissions
  <2>1. pc[t] \in HasMined /\ pc[t] # "idle" BY <1>1 DEF Holding, HasMined
  <2>2. PICK item \in Item : item = CurrentItem(t)
        BY <2>1, CurrentIsItem DEF Types, CallsInvariant
  <2>3. CarriesItem(receipt[t], item)
        BY <2>1, <2>2 DEF CallsInvariant, ReceiptsMatch
  <2>4. item.kind \in {"meta", "ecdsa", "ecdsa_store"}
        BY ItemKinds DEF SubmissionKind
  <2>5. QED BY <2>3, <2>4 DEF CarriesItem, Submissions
<1>2. pc[t] = "awaitRegistered" => receipt[t] \in DOMAIN chain \ Submissions
      BY DEF CallsInvariant, ReceiptsMatch, Submissions
<1>3. QED BY <1>1, <1>2 DEF InHand, Holding

\* The submissions are those on the chain and those that come.
LEMMA SubmissionsGrow ==
  ASSUME Grows, NEW new, DOMAIN chain' = DOMAIN chain \cup new
  PROVE  Submissions' = Submissions \cup {n \in new \ DOMAIN chain : chain'[n].kind \in SubmissionKind}
BY DEF Grows, Submissions, SubmissionKind

\* A step that books nothing, has nothing new in hand and loses no submission
\* leaves the books in order.
LEMMA BooksKept ==
  ASSUME BooksInvariant, Submissions' = Submissions, DOMAIN chain \subseteq DOMAIN chain',
         \A u \in Threads : InHand(u) \subseteq Submissions,
         \A u \in Threads : InHand(u)' = InHand(u) /\ ToList(u)' = ToList(u),
         UNCHANGED <<transactions, tx_order>>,
         NEW x, lost' = lost \cup x, x \subseteq DOMAIN chain \ Submissions
  PROVE  BooksInvariant'
<1>1. Recorded /\ InHandApart /\ NothingForgotten /\ ListedOnce BY DEF BooksInvariant
<1>2. Recorded' BY <1>1 DEF Recorded
<1>3. InHandApart' BY <1>1 DEF InHandApart
<1>4. NothingForgotten' BY <1>1 DEF NothingForgotten
<1>5. ListedOnce'
  <2>1. UNION {ToList(u)' : u \in Threads} = UNION {ToList(u) : u \in Threads}
        OBVIOUS
  <2>2. ToSet(tx_order)' = ToSet(tx_order) BY DEF ToSet
  <2>3. QED BY <1>1, <2>1, <2>2 DEF ListedOnce
<1>6. QED BY <1>2, <1>3, <1>4, <1>5 DEF BooksInvariant

\* A submission that is mined is in the hands of its thread.
LEMMA BooksMined ==
  ASSUME BooksInvariant, NEW t \in Threads, NEW n, n \notin DOMAIN chain,
         Submissions' = Submissions \cup {n}, DOMAIN chain \subseteq DOMAIN chain',
         \A u \in Threads : InHand(u) \subseteq Submissions,
         InHand(t) = {}, InHand(t)' = {n},
         \A u \in Threads : u # t => InHand(u)' = InHand(u),
         \A u \in Threads : ToList(u)' = ToList(u),
         UNCHANGED <<transactions, tx_order, lost>>
  PROVE  BooksInvariant'
<1>1. Recorded /\ InHandApart /\ NothingForgotten /\ ListedOnce BY DEF BooksInvariant
<1>2. Recorded' BY <1>1 DEF Recorded
<1>3. n \notin transactions \cup lost /\ \A u \in Threads : n \notin InHand(u)
      BY <1>1 DEF Recorded, Submissions
<1>4. InHandApart' BY <1>1, <1>3 DEF InHandApart
<1>5. NothingForgotten' BY <1>1 DEF NothingForgotten
<1>6. ListedOnce'
  <2>1. UNION {ToList(u)' : u \in Threads} = UNION {ToList(u) : u \in Threads}
        OBVIOUS
  <2>2. ToSet(tx_order)' = ToSet(tx_order) BY DEF ToSet
  <2>3. QED BY <1>1, <2>1, <2>2 DEF ListedOnce
<1>7. QED BY <1>2, <1>4, <1>5, <1>6 DEF BooksInvariant

\* A submission whose receipt is lost leaves the hands of its thread.
LEMMA BooksLost ==
  ASSUME BooksInvariant, NEW t \in Threads, NEW n, n \in DOMAIN chain,
         Submissions' = Submissions, DOMAIN chain' = DOMAIN chain,
         InHand(t) = {n}, InHand(t)' = {}, lost' = lost \cup {n},
         \A u \in Threads : u # t => InHand(u)' = InHand(u),
         \A u \in Threads : ToList(u)' = ToList(u),
         UNCHANGED <<transactions, tx_order>>
  PROVE  BooksInvariant'
<1>1. Recorded /\ InHandApart /\ NothingForgotten /\ ListedOnce BY DEF BooksInvariant
<1>2. n \notin transactions \cup lost /\ \A u \in Threads : u # t => n \notin InHand(u)
      BY <1>1 DEF InHandApart
<1>3. Recorded' BY <1>1, <1>2 DEF Recorded
<1>4. InHandApart' BY <1>1, <1>2 DEF InHandApart
<1>5. NothingForgotten'
  <2>1. ASSUME NEW m \in Submissions
        PROVE  m \in transactions' \cup lost' \/ \E u \in Threads : m \in InHand(u)'
    <3>1. CASE m \in transactions \cup lost BY <3>1
    <3>2. ASSUME NEW u \in Threads, m \in InHand(u)
          PROVE  m \in lost' \/ m \in InHand(u)'
          BY <3>2
    <3>3. QED BY <1>1, <3>1, <3>2 DEF NothingForgotten
  <2>2. QED BY <2>1 DEF NothingForgotten
<1>6. ListedOnce'
  <2>1. UNION {ToList(u)' : u \in Threads} = UNION {ToList(u) : u \in Threads}
        OBVIOUS
  <2>2. ToSet(tx_order)' = ToSet(tx_order) BY DEF ToSet
  <2>3. QED BY <1>1, <2>1, <2>2 DEF ListedOnce
<1>7. QED BY <1>3, <1>4, <1>5, <1>6 DEF BooksInvariant

\* A submission that is recorded leaves the hands of its thread, which is
\* about to list it.
LEMMA BooksRecorded ==
  ASSUME BooksInvariant, NEW t \in Threads, NEW n, n \in Submissions,
         Submissions' = Submissions, DOMAIN chain' = DOMAIN chain,
         InHand(t) = {n}, InHand(t)' = {}, ToList(t) = {}, ToList(t)' = {n},
         transactions' = transactions \cup {n},
         \A u \in Threads : u # t => InHand(u)' = InHand(u) /\ ToList(u)' = ToList(u),
         UNCHANGED <<lost, tx_order>>
  PROVE  BooksInvariant'
<1>1. Recorded /\ InHandApart /\ NothingForgotten /\ ListedOnce BY DEF BooksInvariant
<1>2. n \notin transactions \cup lost /\ \A u \in Threads : u # t => n \notin InHand(u)
      BY <1>1 DEF InHandApart
<1>3. Recorded' BY <1>1, <1>2 DEF Recorded
<1>4. InHandApart' BY <1>1, <1>2 DEF InHandApart
<1>5. NothingForgotten'
  <2>1. ASSUME NEW m \in Submissions
        PROVE  m \in transactions' \cup lost' \/ \E u \in Threads : m \in InHand(u)'
    <3>1. CASE m \in transactions \cup lost BY <3>1
    <3>2. ASSUME NEW u \in Threads, m \in InHand(u)
          PROVE  m \in transactions' \/ m \in InHand(u)'
          BY <3>2
    <3>3. QED BY <1>1, <3>1, <3>2 DEF NothingForgotten
  <2>2. QED BY <2>1 DEF NothingForgotten
<1>6. ListedOnce'
  <2>1. UNION {ToList(u)' : u \in Threads} = {n} \cup UNION {ToList(u) : u \in Threads}
        OBVIOUS
  <2>2. ToSet(tx_order)' = ToSet(tx_order) BY DEF ToSet
  <2>3. n \notin ToSet(tx_order) /\ \A u \in Threads : n \notin ToList(u)
        BY <1>1, <1>2 DEF ListedOnce
  <2>4. transactions' = ToSet(tx_order)' \cup UNION {ToList(u)' : u \in Threads}
        BY <1>1, <2>1, <2>2 DEF ListedOnce
  <2>5. QED BY <1>1, <2>2, <2>3, <2>4 DEF ListedOnce
<1>7. QED BY <1>3, <1>4, <1>5, <1>6 DEF BooksInvariant

\* A recorded submission is listed.
LEMMA BooksListed ==
  ASSUME BooksInvariant, NEW t \in Threads, NEW n \in Nat, tx_order \in Seq(Nat),
         Submissions' = Submissions, DOMAIN chain' = DOMAIN chain,
         ToList(t) = {n}, ToList(t)' = {}, tx_order' = Append(tx_order, n),
         \A u \in Threads : InHand(u)' = InHand(u),
         \A u \in Threads : u # t => ToList(u)' = ToList(u),
         UNCHANGED <<lost, transactions>>
  PROVE  BooksInvariant'
<1>1. Recorded /\ InHandApart /\ NothingForgotten /\ ListedOnce BY DEF BooksInvariant
<1>2. Recorded' BY <1>1 DEF Recorded
<1>3. InHandApart' BY <1>1 DEF InHandApart
<1>4. NothingForgotten' BY <1>1 DEF NothingForgotten
<1>5. ListedOnce'
  <2>1. n \notin ToSet(tx_order) /\ \A u \in Threads : u # t => n \notin ToList(u)
        BY <1>1 DEF ListedOnce
  <2>2. PICK k \in Nat : k = Len(tx_order) BY LenProperties
  <2>3. /\ DOMAIN tx_order = 1 .. k /\ DOMAIN tx_order' = 1 .. k + 1
        /\ tx_order'[k + 1] = n /\ \A i \in 1 .. k : tx_order'[i] = tx_order[i]
        BY <2>2
  <2>4. ToSet(tx_order)' = ToSet(tx_order) \cup {n}
    <3>1. \A i \in 1 .. k + 1 : i \in 1 .. k \/ i = k + 1 OBVIOUS
    <3>2. 1 .. k \subseteq 1 .. k + 1 /\ k + 1 \in 1 .. k + 1 OBVIOUS
    <3>3. QED BY <2>3, <3>1, <3>2 DEF ToSet
  <2>5. ASSUME NEW i \in 1 .. k + 1, NEW j \in 1 .. k + 1, tx_order'[i] = tx_order'[j]
        PROVE  i = j
    <3>1. \A h \in 1 .. k : tx_order[h] # n BY <2>1, <2>3 DEF ToSet
    <3>2. \A h \in 1 .. k + 1 : h \in 1 .. k \/ h = k + 1 OBVIOUS
    <3>3. QED BY <1>1, <2>3, <2>5, <3>1, <3>2 DEF ListedOnce
  <2>6. UNION {ToList(u) : u \in Threads} = {n} \cup UNION {ToList(u)' : u \in Threads}
        OBVIOUS
  <2>7. transactions' = ToSet(tx_order)' \cup UNION {ToList(u)' : u \in Threads}
        BY <1>1, <2>4, <2>6 DEF ListedOnce
  <2>8. \A i, j \in DOMAIN tx_order' : tx_order'[i] = tx_order'[j] => i = j
        BY <2>3, <2>5
  <2>9. \A u \in Threads : ToList(u)' \cap ToSet(tx_order)' = {}
        BY <1>1, <2>1, <2>4 DEF ListedOnce
  <2>10. \A u, v \in Threads : u # v => ToList(u)' \cap ToList(v)' = {}
         BY <1>1 DEF ListedOnce
  <2>11. QED BY <2>7, <2>8, <2>9, <2>10 DEF ListedOnce
<1>6. QED BY <1>2, <1>3, <1>4, <1>5 DEF BooksInvariant

\* The steps within an item keep the books in order.
LEMMA EdgesBooks ==
  ASSUME Types, CallsInvariant, BooksInvariant, NEW t \in Threads, step(t), ~list(t)
  PROVE  BooksInvariant'
<1>1. \A u \in Threads : InHand(u) \subseteq Submissions BY HandsHoldSubmissions
<1>2. UNCHANGED chain => Submissions' = Submissions /\ DOMAIN chain' = DOMAIN chain
      BY DEF Submissions
<1>3. PICK r \in Nat : r = receipt[t] BY DEF Types, ThreadTypes
<1>4. /\ InHand(t) = IF pc[t] \in Holding THEN {r} ELSE {}
      /\ ToList(t) = IF pc[t] = "list" THEN {r} ELSE {}
      BY <1>3 DEF InHand, ToList, Holding
<1>5. ASSUME NEW from, NEW s, NEW l, Passes(t, from, s, l), from # "record",
             from # "list", s # "list", from \in Holding <=> s \in Holding
      PROVE  BooksInvariant'
  <2>1. pc[t] = from /\ Moves(t, s, r) /\ UNCHANGED <<chain, lost, tx_order, transactions>>
        BY <1>3, <1>5 DEF Passes, Goes
  <2>2. \A u \in Threads : InHand(u)' = InHand(u) /\ ToList(u)' = ToList(u)
        BY <1>4, <1>5, <2>1, HandsMove
  <2>3. lost' = lost \cup {} /\ {} \subseteq DOMAIN chain \ Submissions BY <2>1
  <2>4. QED BY <1>1, <1>2, <2>1, <2>2, <2>3, BooksKept
<1>6. CASE \/ Passes(t, "ensure", "submit", lock)
           \/ Passes(t, "ensure", "registering", t)
           \/ Passes(t, "submit", "sending", t)
           \/ Passes(t, "waiting", "readBlock", NoThread)
           \/ Passes(t, "readBlock", "writeBlock", lock)
           \/ Passes(t, "writeBlock", "record", lock)
  <2>1. /\ "ensure" \notin Holding /\ "submit" \notin Holding
        /\ "registering" \notin Holding /\ "sending" \notin Holding
        /\ "waiting" \in Holding /\ "readBlock" \in Holding /\ "writeBlock" \in Holding
        /\ "record" \in Holding
        BY DEF Holding
  <2>2. QED BY <1>5, <1>6, <2>1
<1>7. CASE Passes(t, "record", "list", lock)
  <2>1. /\ pc[t] = "record" /\ Moves(t, "list", r) /\ UNCHANGED <<chain, lost, tx_order>>
        /\ transactions' = transactions \cup {r}
        BY <1>3, <1>7 DEF Passes, Goes
  <2>2. /\ InHand(t) = {r} /\ InHand(t)' = {} /\ ToList(t) = {} /\ ToList(t)' = {r}
        /\ \A u \in Threads : u # t => InHand(u)' = InHand(u) /\ ToList(u)' = ToList(u)
        BY <1>4, <2>1, HandsMove DEF Holding
  <2>3. r \in Submissions BY <1>1, <2>2
  <2>4. QED BY <1>2, <2>1, <2>2, <2>3, BooksRecorded
<1>8. CASE Sends(t, "registering", "awaitRegistered",
                 RegistrationBlock(CurrentItem(t).did))
  <2>1. pc[t] = "registering" BY <1>8 DEF Sends
  <2>2. CurrentItem(t) \in Item BY <2>1, CurrentIsItem DEF Types, CallsInvariant
  <2>3. PICK b : b = RegistrationBlock(CurrentItem(t).did) OBVIOUS
  <2>4. b \in Block /\ b.kind = "registerDID"
        BY <2>2, <2>3, SentIsBlock DEF Types, RegistrationBlock
  <2>5. PICK n : n = Len(chain) + 1 OBVIOUS
  <2>6. /\ Moves(t, "awaitRegistered", n) /\ Mine(b)
        /\ UNCHANGED <<lost, tx_order, transactions>>
        BY <1>8, <2>3, <2>5 DEF Sends, Goes
  <2>7. Grows /\ chain'[n] = b /\ DOMAIN chain' = DOMAIN chain \cup {n}
        BY <2>4, <2>5, <2>6, Mined DEF Types
  <2>8. Submissions' = Submissions \cup
                       {m \in {n} \ DOMAIN chain : chain'[m].kind \in SubmissionKind}
        BY <2>7, SubmissionsGrow
  <2>9. Submissions' = Submissions
        BY <2>4, <2>7, <2>8 DEF SubmissionKind
  <2>10. \A u \in Threads : InHand(u)' = InHand(u) /\ ToList(u)' = ToList(u)
         BY <1>4, <2>1, <2>6, HandsMove DEF Holding
  <2>11. lost' = lost \cup {} /\ {} \subseteq DOMAIN chain \ Submissions BY <2>6
  <2>12. QED BY <1>1, <2>6, <2>7, <2>9, <2>10, <2>11, BooksKept
<1>9. CASE Sends(t, "sending", "waiting", ItemBlock(CurrentItem(t)))
  <2>1. pc[t] = "sending" BY <1>9 DEF Sends
  <2>2. CurrentItem(t) \in Item BY <2>1, CurrentIsItem DEF Types, CallsInvariant
  <2>3. PICK b : b = ItemBlock(CurrentItem(t)) OBVIOUS
  <2>4. b \in Block /\ b.kind \in SubmissionKind
        BY <2>2, <2>3, SentIsBlock, ItemKinds DEF Types, ItemBlock
  <2>5. PICK n : n = Len(chain) + 1 OBVIOUS
  <2>6. /\ Moves(t, "waiting", n) /\ Mine(b)
        /\ UNCHANGED <<lost, tx_order, transactions>>
        BY <1>9, <2>3, <2>5 DEF Sends, Goes
  <2>7. /\ Grows /\ chain'[n] = b /\ DOMAIN chain' = DOMAIN chain \cup {n} /\ n \in Nat
        /\ \A m \in DOMAIN chain : m \in Nat /\ m < n
        BY <2>4, <2>5, <2>6, Mined DEF Types
  <2>8. n \notin DOMAIN chain BY <2>7
  <2>9. Submissions' = Submissions \cup
                       {m \in {n} \ DOMAIN chain : chain'[m].kind \in SubmissionKind}
        BY <2>7, SubmissionsGrow
  <2>10. Submissions' = Submissions \cup {n} BY <2>4, <2>7, <2>8, <2>9
  <2>11. /\ InHand(t) = {} /\ InHand(t)' = {n}
         /\ \A u \in Threads : u # t => InHand(u)' = InHand(u)
         /\ \A u \in Threads : ToList(u)' = ToList(u)
         BY <1>4, <2>1, <2>6, HandsMove DEF Holding
  <2>12. QED BY <1>1, <2>6, <2>7, <2>8, <2>10, <2>11, BooksMined
<1>10. CASE EndsRegistration(t)
  <2>1. /\ pc[t] = "awaitRegistered" /\ Moves(t, "submit", 0)
        /\ UNCHANGED <<chain, lost, tx_order, transactions>>
        BY <1>10 DEF EndsRegistration, Goes
  <2>2. \A u \in Threads : InHand(u)' = InHand(u) /\ ToList(u)' = ToList(u)
        BY <1>4, <2>1, HandsMove DEF Holding
  <2>3. lost' = lost \cup {} /\ {} \subseteq DOMAIN chain \ Submissions BY <2>1
  <2>4. QED BY <1>1, <1>2, <2>1, <2>2, <2>3, BooksKept
<1>11. CASE Fails(t)
  <2>1. /\ pc[t] \in UnderLock /\ Moves(t, "idle", 0)
        /\ UNCHANGED <<chain, tx_order, transactions>>
        /\ lost' = IF pc[t] \in {"awaitRegistered", "waiting"} THEN lost \cup {r} ELSE lost
        BY <1>3, <1>11 DEF Fails, Goes
  <2>2. /\ InHand(t)' = {} /\ ToList(t)' = {}
        /\ \A u \in Threads : u # t => InHand(u)' = InHand(u) /\ ToList(u)' = ToList(u)
        BY <2>1, HandsMove DEF Holding
  <2>3. CASE pc[t] = "waiting"
    <3>1. InHand(t) = {r} /\ ToList(t) = {} BY <1>4, <2>3 DEF Holding
    <3>2. r \in DOMAIN chain BY <1>1, <3>1 DEF Submissions
    <3>3. lost' = lost \cup {r} BY <2>1, <2>3
    <3>4. \A u \in Threads : u # t => InHand(u)' = InHand(u) BY <2>2
    <3>5. \A u \in Threads : ToList(u)' = ToList(u) BY <2>2, <3>1
    <3>6. QED BY <1>2, <2>1, <2>2, <3>1, <3>2, <3>3, <3>4, <3>5, BooksLost
  <2>4. CASE pc[t] # "waiting"
    <3>1. InHand(t) = {} /\ ToList(t) = {}
          BY <1>4, <2>1, <2>4 DEF Holding, UnderLock
    <3>2. \A u \in Threads : InHand(u)' = InHand(u) /\ ToList(u)' = ToList(u)
          BY <2>2, <3>1
    <3>3. PICK x : x = IF pc[t] = "awaitRegistered" THEN {r} ELSE {} OBVIOUS
    <3>4. lost' = lost \cup x BY <2>1, <2>4, <3>3
    <3>5. x \subseteq DOMAIN chain \ Submissions BY <1>3, <3>3, HandsHoldSubmissions
    <3>6. QED BY <1>1, <1>2, <2>1, <3>2, <3>4, <3>5, BooksKept
  <2>5. QED BY <2>3, <2>4
<1>12. QED BY <1>6, <1>7, <1>8, <1>9, <1>10, <1>11, Edges

\* So does the end of an item.
LEMMA ListBooks ==
  ASSUME Types, CallsInvariant, BooksInvariant, NEW t \in Threads, list(t)
  PROVE  BooksInvariant'
<1>1. PICK ids \in Seq(Nat), s \in Steps : Lists(t, ids, s) BY ListEdge
<1>2. PICK r \in Nat : r = receipt[t] BY DEF Types, ThreadTypes
<1>3. /\ pc[t] = "list" /\ Moves(t, s, 0) /\ tx_order' = Append(tx_order, r)
      /\ UNCHANGED <<chain, lost, transactions>> /\ s \in {"idle", "ensure", "submit"}
      BY <1>1, <1>2 DEF Lists
<1>4. /\ InHand(t) = {} /\ ToList(t) = {r} BY <1>2, <1>3 DEF InHand, ToList
<1>5. /\ InHand(t)' = {} /\ ToList(t)' = {}
      /\ \A u \in Threads : u # t => InHand(u)' = InHand(u) /\ ToList(u)' = ToList(u)
      BY <1>3, HandsMove DEF Holding
<1>6. Submissions' = Submissions /\ DOMAIN chain' = DOMAIN chain
      BY <1>3 DEF Submissions
<1>7. tx_order \in Seq(Nat) BY DEF Types, ChainTypes
<1>8. \A u \in Threads : InHand(u)' = InHand(u) BY <1>4, <1>5
<1>9. \A u \in Threads : u # t => ToList(u)' = ToList(u) BY <1>5
<1>10. QED BY <1>3, <1>4, <1>5, <1>6, <1>7, <1>8, <1>9, BooksListed

\* Every step keeps the books in order.
LEMMA NextBooks ==
  ASSUME Types, CallsInvariant, BooksInvariant, [Next]_vars
  PROVE  BooksInvariant'
<1>1. Grows BY NextGrows DEF CallsInvariant
<1>2. \A u \in Threads : InHand(u) \subseteq Submissions BY HandsHoldSubmissions
<1>3. ASSUME Submissions' = Submissions, UNCHANGED <<lost, transactions, tx_order>>,
             \A u \in Threads : InHand(u)' = InHand(u) /\ ToList(u)' = ToList(u)
      PROVE  BooksInvariant'
  <2>1. lost' = lost \cup {} /\ {} \subseteq DOMAIN chain \ Submissions BY <1>3
  <2>2. DOMAIN chain \subseteq DOMAIN chain' BY <1>1 DEF Grows
  <2>3. QED BY <1>2, <1>3, <2>1, <2>2, BooksKept
<1>4. ASSUME NEW created \in 0 .. 3, NEW complete \in BOOLEAN,
             deploy_contracts(created, complete)
      PROVE  BooksInvariant'
  <2>1. \A n \in DOMAIN chain' \ DOMAIN chain : chain'[n].kind \in Constructor
        BY <1>4, Deployed DEF Types
  <2>2. \A k \in Constructor : k \notin SubmissionKind
        BY DEF Constructor, SubmissionKind
  <2>3. Submissions' = Submissions
        BY <1>1, <2>1, <2>2 DEF Grows, Submissions, SubmissionKind
  <2>4. UNCHANGED <<pc, receipt, lost, transactions, tx_order>>
        BY <1>4 DEF deploy_contracts, threadVars, bookVars
  <2>5. QED BY <1>3, <2>3, <2>4 DEF InHand, ToList
<1>5. ASSUME NEW t \in Threads, NEW items \in Jobs, call(t, items)
      PROVE  BooksInvariant'
  <2>1. PICK s : s = FirstStep(items[1]) OBVIOUS
  <2>2. s \in {"ensure", "submit"} BY <2>1, JobItems, ItemKinds
  <2>3. /\ pc[t] = "idle" /\ pc' = [pc EXCEPT ![t] = s] /\ UNCHANGED receipt
        /\ UNCHANGED <<chain, lost, transactions, tx_order>>
        BY <1>5, <2>1 DEF call, nodeVars, bookVars
  <2>4. Submissions' = Submissions BY <2>3 DEF Submissions
  <2>5. \A u \in Threads : InHand(u)' = InHand(u) /\ ToList(u)' = ToList(u)
        BY <2>2, <2>3 DEF InHand, ToList, Types, ThreadTypes
  <2>6. QED BY <1>3, <2>3, <2>4, <2>5
<1>6. CASE UNCHANGED vars
  <2>1. UNCHANGED <<chain, pc, receipt, lost, transactions, tx_order>>
        BY <1>6 DEF vars, threadVars, bookVars, nodeVars
  <2>2. QED BY <1>3, <2>1 DEF InHand, ToList, Submissions
<1>7. QED BY <1>4, <1>5, <1>6, EdgesBooks, ListBooks DEF Next

\* At the start the books are empty.
LEMMA InitBooks ==
  ASSUME Init
  PROVE  BooksInvariant
<1>1. chain = <<>> /\ transactions = {} /\ lost = {} /\ tx_order = <<>>
      /\ \A t \in Threads : pc[t] = "idle"
      BY DEF Init
<1>2. Submissions = {} /\ DOMAIN tx_order = {} /\ ToSet(tx_order) = {}
      BY <1>1 DEF Submissions, ToSet
<1>3. \A t \in Threads : InHand(t) = {} /\ ToList(t) = {} BY <1>1 DEF InHand, ToList
<1>4. UNION {ToList(t) : t \in Threads} = {} BY <1>3
<1>5. Recorded /\ InHandApart BY <1>1, <1>2, <1>3 DEF Recorded, InHandApart
<1>6. NothingForgotten BY <1>2 DEF NothingForgotten
<1>7. ListedOnce BY <1>1, <1>2, <1>3, <1>4 DEF ListedOnce
<1>8. QED BY <1>5, <1>6, <1>7 DEF BooksInvariant

\* The books are in order throughout.
LEMMA AlwaysBooks == Spec => [](Types /\ CallsInvariant /\ BooksInvariant)
<1>1. Init => Types /\ CallsInvariant /\ BooksInvariant BY InitCalls, InitBooks
<1>2. Types /\ CallsInvariant /\ BooksInvariant /\ [Next]_vars
        => (Types /\ CallsInvariant /\ BooksInvariant)'
      BY NextTypes, NextCalls, NextBooks DEF CallsInvariant
<1>3. QED BY <1>1, <1>2, PTL DEF Spec

\* What is listed is recorded, so the decomposition of the gas counts it.
LEMMA Decomposed ==
  ASSUME Types, BooksInvariant
  PROVE  DecompositionComplete
<1> DEFINE OfKind(k) == {i \in DOMAIN tx_order :
                           tx_order[i] \in transactions /\ chain[tx_order[i]].kind = k}
<1>1. PICK M, E, S : M = OfKind("meta") /\ E = OfKind("ecdsa") /\ S = OfKind("ecdsa_store")
      OBVIOUS
<1>2. PICK k \in Nat : k = Len(tx_order) /\ DOMAIN tx_order = 1 .. k
      BY LenProperties DEF Types, ChainTypes
<1>3. ASSUME NEW i \in 1 .. k PROVE i \in M \/ i \in E \/ i \in S
  <2>1. tx_order[i] \in transactions
        BY <1>2 DEF BooksInvariant, ListedOnce, ToSet
  <2>2. chain[tx_order[i]].kind \in {"meta", "ecdsa", "ecdsa_store"}
        BY <2>1 DEF BooksInvariant, Recorded, Submissions
  <2>3. QED BY <1>1, <1>2, <2>1, <2>2
<1>4. /\ (M \cup E) \cup S = 1 .. k /\ M \cap E = {} /\ (M \cup E) \cap S = {}
      /\ M \subseteq 1 .. k /\ E \subseteq 1 .. k /\ S \subseteq 1 .. k
      BY <1>1, <1>2, <1>3
<1>5. IsFiniteSet(1 .. k) /\ Cardinality(1 .. k) = k
  <2>1. 1 \in Int /\ k \in Int OBVIOUS
  <2>2. Cardinality(1 .. k) = IF 1 > k THEN 0 ELSE k - 1 + 1
        BY <2>1, FS_Interval
  <2>3. QED BY <2>1, <2>2, FS_Interval
<1>6. IsFiniteSet(M) /\ IsFiniteSet(E) /\ IsFiniteSet(S) BY <1>4, <1>5, FS_Subset
<1>7. PICK m \in Nat, e \in Nat, s \in Nat :
        m = Cardinality(M) /\ e = Cardinality(E) /\ s = Cardinality(S)
      BY <1>6, FS_CardinalityType
<1>8. IsFiniteSet(M \cup E) /\ Cardinality(M \cup E) = m + e - Cardinality(M \cap E)
      BY <1>6, <1>7, FS_Union
<1>9. Cardinality(M \cap E) = 0 /\ Cardinality((M \cup E) \cap S) = 0
  <2>1. Cardinality({}) = 0 BY FS_EmptySet
  <2>2. QED BY <1>4, <2>1, Zenon
<1>10. Cardinality(M \cup E) = m + e
  <2>1. m + e - 0 = m + e OBVIOUS
  <2>2. QED BY <1>8, <1>9, <2>1
<1>11. Cardinality((M \cup E) \cup S)
         = Cardinality(M \cup E) + s - Cardinality((M \cup E) \cap S)
       BY <1>6, <1>7, <1>8, FS_Union
<1>12. k = m + e + s
  <2>1. m + e + s - 0 = m + e + s OBVIOUS
  <2>2. Cardinality((M \cup E) \cup S) = k BY <1>4, <1>5, Zenon
  <2>3. QED BY <1>9, <1>10, <1>11, <2>1, <2>2
<1>13. /\ get_gas_decomposition["meta"] = m /\ get_gas_decomposition["ecdsa"] = e
       /\ get_gas_decomposition["ecdsa_store"] = s
       BY <1>1, <1>7 DEF get_gas_decomposition
<1>14. QED BY <1>2, <1>12, <1>13 DEF DecompositionComplete

\* Though each thread keeps the books after it released the lock, one
\* statement at a time, no submission on the chain is ever forgotten or booked
\* twice: it is recorded, or in the hands of one thread, or its receipt was
\* lost; and the decomposition read between any two statements is complete.
THEOREM Books == Spec => []EverySubmissionAccounted
<1>1. ASSUME Types, CallsInvariant, BooksInvariant PROVE EverySubmissionAccounted
  <2>1. Recorded /\ NothingForgotten /\ ListedOnce BY <1>1 DEF BooksInvariant
  <2>2. \A t \in Threads : InHand(t) \subseteq Submissions
        BY <1>1, HandsHoldSubmissions
  <2>3. Submissions = transactions \cup (lost \cap Submissions)
                        \cup UNION {InHand(t) : t \in Threads}
        BY <2>1, <2>2 DEF Recorded, NothingForgotten
  <2>4. ASSUME \A t \in Threads : pc[t] = "idle" PROVE transactions = ToSet(tx_order)
    <3>1. \A t \in Threads : ToList(t) = {} BY <2>4 DEF ToList
    <3>2. UNION {ToList(t) : t \in Threads} = {} BY <3>1
    <3>3. QED BY <2>1, <3>2 DEF ListedOnce
  <2>5. DecompositionComplete BY <1>1, Decomposed
  <2>6. QED BY <2>1, <2>3, <2>4, <2>5 DEF EverySubmissionAccounted, Recorded, ListedOnce
<1>2. QED BY <1>1, AlwaysBooks, PTL

-----------------------------------------------------------------------------
(* Retries.                                                                *)

\* A block that is no signed reading, or is not on the chain, may be mined.
LEMMA MinedOnceGrows ==
  ASSUME MinedOnce, Grows,
         \A n \in DOMAIN chain' \ DOMAIN chain :
           chain'[n].kind = "meta" =>
             /\ chain'[n].dataHash \notin Unsigned =>
                  \A m \in DOMAIN chain : chain[m] # chain'[n]
             /\ \A m \in DOMAIN chain' \ DOMAIN chain : m = n
  PROVE  MinedOnce'
<1>1. ASSUME NEW m \in DOMAIN chain', NEW n \in DOMAIN chain',
             chain'[m].kind = "meta", chain'[m].dataHash \notin Unsigned,
             chain'[m] = chain'[n]
      PROVE  m = n
  <2>1. CASE m \in DOMAIN chain /\ n \in DOMAIN chain
        BY <1>1, <2>1 DEF MinedOnce, Grows
  <2>2. CASE m \in DOMAIN chain /\ n \notin DOMAIN chain
        BY <1>1, <2>2 DEF Grows
  <2>3. CASE m \notin DOMAIN chain /\ n \in DOMAIN chain
        BY <1>1, <2>3 DEF Grows
  <2>4. CASE m \notin DOMAIN chain /\ n \notin DOMAIN chain
        BY <1>1, <2>4
  <2>5. QED BY <2>1, <2>2, <2>3, <2>4
<1>2. QED BY <1>1 DEF MinedOnce

\* Whichever threads submit it, a signed reading is mined once by a contract.
LEMMA NextMinedOnce ==
  ASSUME Types, CallsInvariant, MinedOnce, [Next]_vars
  PROVE  MinedOnce'
<1>1. Grows BY NextGrows DEF CallsInvariant
<1>2. UNCHANGED chain => MinedOnce' BY DEF MinedOnce
<1>3. ASSUME NEW created \in 0 .. 3, NEW complete \in BOOLEAN,
             deploy_contracts(created, complete)
      PROVE  MinedOnce'
  <2>1. \A n \in DOMAIN chain' \ DOMAIN chain : chain'[n].kind \in Constructor
        BY <1>3, Deployed DEF Types
  <2>2. "meta" \notin Constructor BY DEF Constructor
  <2>3. \A n \in DOMAIN chain' \ DOMAIN chain : chain'[n].kind # "meta"
        BY <2>1, <2>2
  <2>4. QED BY <1>1, <2>3, MinedOnceGrows
<1>4. ASSUME NEW t \in Threads, step(t) PROVE MinedOnce'
  <2>1. CASE Sends(t, "registering", "awaitRegistered",
                   RegistrationBlock(CurrentItem(t).did))
    <3>1. pc[t] = "registering" BY <2>1 DEF Sends
    <3>2. CurrentItem(t) \in Item BY <3>1, CurrentIsItem DEF Types, CallsInvariant
    <3>3. PICK b : b = RegistrationBlock(CurrentItem(t).did) OBVIOUS
    <3>4. b \in Block /\ b.kind = "registerDID"
          BY <3>2, <3>3, SentIsBlock DEF Types, RegistrationBlock
    <3>5. PICK n : n = Len(chain) + 1 OBVIOUS
    <3>6. Mine(b) BY <2>1, <3>3 DEF Sends
    <3>7. chain'[n] = b /\ DOMAIN chain' = DOMAIN chain \cup {n}
          BY <3>4, <3>5, <3>6, Mined DEF Types
    <3>8. \A m \in DOMAIN chain' \ DOMAIN chain : chain'[m].kind # "meta"
          BY <3>4, <3>7
    <3>9. QED BY <1>1, <3>8, MinedOnceGrows
  <2>2. CASE /\ Sends(t, "sending", "waiting", ItemBlock(CurrentItem(t)))
             /\ Executes(CurrentItem(t))
    <3>1. pc[t] = "sending" BY <2>2 DEF Sends
    <3>2. PICK item \in Item : item = CurrentItem(t)
          BY <3>1, CurrentIsItem DEF Types, CallsInvariant
    <3>3. PICK b : b = ItemBlock(item) OBVIOUS
    <3>4. /\ b \in Block /\ b.kind = item.kind /\ b.to = Target(item)
          /\ b.dataHash = item.dataHash /\ b.did = item.did
          BY <3>3, SentIsBlock DEF Types, ItemBlock
    <3>5. PICK n : n = Len(chain) + 1 OBVIOUS
    <3>6. Mine(b) BY <2>2, <3>2, <3>3 DEF Sends
    <3>7. chain'[n] = b /\ DOMAIN chain' = DOMAIN chain \cup {n}
          BY <3>4, <3>5, <3>6, Mined DEF Types
    <3>8. item.kind = "meta" => ~Used(Target(item), item)
          BY <2>2, <3>2 DEF Executes
    <3>9. ASSUME b.kind = "meta", b.dataHash \notin Unsigned, NEW m \in DOMAIN chain
          PROVE  chain[m] # b
          BY <3>4, <3>8, <3>9 DEF Used
    <3>10. QED BY <1>1, <3>7, <3>9, MinedOnceGrows
  <2>3. CASE UNCHANGED chain BY <1>2, <2>3
  <2>4. list(t) => UNCHANGED chain BY DEF list, nodeVars
  <2>5. QED
        BY <1>4, <2>1, <2>2, <2>3, <2>4, Edges DEF Passes, EndsRegistration, Fails
<1>5. ASSUME NEW t \in Threads, NEW items \in Jobs, call(t, items)
      PROVE  UNCHANGED chain
      BY <1>5 DEF call, nodeVars
<1>6. UNCHANGED vars => UNCHANGED chain BY DEF vars, nodeVars
<1>7. QED BY <1>2, <1>3, <1>4, <1>5, <1>6 DEF Next

\* The records and the lost receipts never hold a signed reading twice: a retry
\* of what was mined reverts, its receipt being lost or not, in whichever
\* thread it is made.
THEOREM Acknowledged == Spec => []AcknowledgedOnce
<1>1. ASSUME Init PROVE Types /\ CallsInvariant /\ BooksInvariant /\ MinedOnce
  <2>1. chain = <<>> BY <1>1 DEF Init
  <2>2. MinedOnce BY <2>1 DEF MinedOnce
  <2>3. QED BY <1>1, <2>2, InitCalls, InitBooks
<1>2. ASSUME Types, CallsInvariant, MinedOnce, [Next]_vars PROVE MinedOnce'
      BY <1>2, NextMinedOnce
<1>3. ASSUME BooksInvariant, MinedOnce PROVE AcknowledgedOnce
  <2>1. transactions \cup lost \subseteq DOMAIN chain
        BY <1>3 DEF BooksInvariant, Recorded, Submissions
  <2>2. QED BY <1>3, <2>1 DEF MinedOnce, AcknowledgedOnce
<1>4. QED BY <1>1, <1>2, <1>3, AlwaysBooks, PTL DEF Spec

-----------------------------------------------------------------------------
(* The registry.                                                           *)

\* What a registry knows it knows for ever.
LEMMA KnownGrows ==
  ASSUME Grows, NEW a, NEW did, KnownTo(a, did)
  PROVE  KnownTo(a, did)'
BY DEF Grows, KnownTo

\* A thread changes no address, and caches only the DID it has registered.
LEMMA StepCache ==
  ASSUME NEW t \in Threads, step(t)
  PROVE  /\ UNCHANGED <<contracts, deployments>>
         /\ \/ UNCHANGED registered_dids
            \/ /\ pc[t] = "awaitRegistered"
               /\ registered_dids' = registered_dids \cup {CurrentItem(t).did}
BY DEF step, ensure, register, registered, acquire, send, wait, readBlock, writeBlock,
       record, list, CacheNow, contractVars

\* What the registry is asked for is known to it.
LEMMA AwaitedIsKnown ==
  ASSUME CallsInvariant, RegistryRead, NEW t \in Threads, pc[t] = "awaitRegistered"
  PROVE  KnownTo(contracts.did_registry, CurrentItem(t).did)
BY DEF CallsInvariant, ReceiptsMatch, RegistryRead, KnownTo

\* A step of thread t to s keeps what the threads rely on about the registry,
\* when it does for t itself.
LEMMA RegistryKept ==
  ASSUME Types, CallsInvariant, RegistryRead, Grows, NEW t \in Threads, NEW s,
         UNCHANGED <<contracts, deployments>>,
         \/ UNCHANGED registered_dids
         \/ /\ pc[t] = "awaitRegistered"
            /\ registered_dids' = registered_dids \cup {CurrentItem(t).did},
         \A n \in DOMAIN chain' \ DOMAIN chain :
           chain'[n].kind = "registerDID" => chain'[n].to # 0,
         pc'[t] = s,
         \A u \in Threads : u # t => /\ pc'[u] = pc[u] /\ receipt'[u] = receipt[u]
                                     /\ CurrentItem(u)' = CurrentItem(u),
         s \in {"submit", "sending"} =>
           /\ CurrentItem(t)' = CurrentItem(t)
           /\ CurrentItem(t).kind = "meta" =>
                KnownTo(contracts.did_registry, CurrentItem(t).did),
         s = "awaitRegistered" =>
           /\ chain'[receipt'[t]].to = contracts.did_registry
           /\ chain'[receipt'[t]].did = CurrentItem(t)'.did
  PROVE  RegistryRead'
<1>1. PICK a : a = contracts.did_registry OBVIOUS
<1>2. contracts'.did_registry = a BY <1>1
<1>3. \A did : KnownTo(a, did) =>
                 \E n \in DOMAIN chain' : /\ chain'[n].kind = "registerDID"
                                          /\ chain'[n].to = a /\ chain'[n].did = did
      BY DEF Grows, KnownTo
<1>4. \A n \in DOMAIN chain' : chain'[n].kind = "registerDID" => chain'[n].to # 0
      BY DEF RegistryRead, Grows
<1>5. \A did \in registered_dids' : KnownTo(a, did)
      BY <1>1, AwaitedIsKnown DEF RegistryRead
<1>6. ASSUME NEW u \in Threads, pc'[u] \in {"submit", "sending"},
             CurrentItem(u)'.kind = "meta"
      PROVE  KnownTo(a, CurrentItem(u)'.did)
  <2>1. CASE u = t BY <1>1, <1>6, <2>1
  <2>2. CASE u # t
    <3>1. pc[u] \in {"submit", "sending"} /\ CurrentItem(u)' = CurrentItem(u)
          BY <1>6, <2>2
    <3>2. CurrentItem(u).kind = "meta" BY <1>6, <3>1
    <3>3. KnownTo(contracts.did_registry, CurrentItem(u).did)
          BY <3>1, <3>2 DEF RegistryRead
    <3>4. QED BY <1>1, <3>1, <3>3
  <2>3. QED BY <2>1, <2>2
<1>7. ASSUME NEW u \in Threads, pc'[u] = "awaitRegistered"
      PROVE  chain'[receipt'[u]].to = a /\ chain'[receipt'[u]].did = CurrentItem(u)'.did
  <2>1. CASE u = t BY <1>1, <1>7, <2>1
  <2>2. CASE u # t
    <3>1. /\ pc[u] = "awaitRegistered" /\ receipt'[u] = receipt[u]
          /\ CurrentItem(u)' = CurrentItem(u)
          BY <1>7, <2>2
    <3>2. receipt[u] \in DOMAIN chain BY <3>1 DEF CallsInvariant, ReceiptsMatch
    <3>3. chain'[receipt[u]] = chain[receipt[u]] BY <3>2 DEF Grows
    <3>4. chain[receipt[u]].to = a /\ chain[receipt[u]].did = CurrentItem(u).did
          BY <1>1, <3>1 DEF RegistryRead
    <3>5. QED BY <3>1, <3>3, <3>4
  <2>3. QED BY <2>1, <2>2
<1>8. deployments' = 0 => contracts' = Undeployed BY DEF RegistryRead
<1>9. \A u \in Threads : /\ pc'[u] \in {"submit", "sending"}
                         /\ CurrentItem(u)'.kind = "meta"
        => \E n \in DOMAIN chain' : /\ chain'[n].kind = "registerDID"
                                    /\ chain'[n].to = a
                                    /\ chain'[n].did = CurrentItem(u)'.did
      BY <1>3, <1>6
<1>10. \A did \in registered_dids' :
         \E n \in DOMAIN chain' : /\ chain'[n].kind = "registerDID"
                                  /\ chain'[n].to = a /\ chain'[n].did = did
       BY <1>3, <1>5
<1>11. QED BY <1>2, <1>4, <1>7, <1>8, <1>9, <1>10 DEF RegistryRead, KnownTo

\* The same, for a step within an item.
LEMMA GoesRegistry ==
  ASSUME Types, CallsInvariant, RegistryRead, Grows, NEW t \in Threads, step(t),
         NEW s \in Steps, NEW n \in Nat, NEW l, Goes(t, s, n, l),
         \A m \in DOMAIN chain' \ DOMAIN chain :
           chain'[m].kind = "registerDID" => chain'[m].to # 0,
         s \in {"submit", "sending"} /\ CurrentItem(t).kind = "meta" =>
           KnownTo(contracts.did_registry, CurrentItem(t).did),
         s = "awaitRegistered" =>
           /\ chain'[n].to = contracts.did_registry
           /\ chain'[n].did = CurrentItem(t).did
  PROVE  RegistryRead'
<1>1. Moves(t, s, n) /\ UNCHANGED <<job, tx_ids>> BY DEF Goes
<1>2. /\ pc'[t] = s /\ receipt'[t] = n /\ CurrentItem(t)' = CurrentItem(t)
      /\ \A u \in Threads : u # t => /\ pc'[u] = pc[u] /\ receipt'[u] = receipt[u]
                                     /\ CurrentItem(u)' = CurrentItem(u)
      BY <1>1, Moved DEF Types
<1>3. UNCHANGED <<contracts, deployments>> BY StepCache
<1>4. \/ UNCHANGED registered_dids
      \/ /\ pc[t] = "awaitRegistered"
         /\ registered_dids' = registered_dids \cup {CurrentItem(t).did}
      BY StepCache
<1>5. s \in {"submit", "sending"} =>
        /\ CurrentItem(t)' = CurrentItem(t)
        /\ CurrentItem(t).kind = "meta" =>
             KnownTo(contracts.did_registry, CurrentItem(t).did)
      BY <1>2
<1>6. s = "awaitRegistered" =>
        /\ chain'[receipt'[t]].to = contracts.did_registry
        /\ chain'[receipt'[t]].did = CurrentItem(t)'.did
      BY <1>2
<1>7. QED BY <1>2, <1>3, <1>4, <1>5, <1>6, RegistryKept

\* The steps within an item keep what the threads rely on about the registry.
LEMMA EdgesRegistry ==
  ASSUME Types, CallsInvariant, RegistryRead, Grows, NEW t \in Threads, step(t), ~list(t)
  PROVE  RegistryRead'
<1>1. PICK r \in Nat : r = receipt[t] BY DEF Types, ThreadTypes
<1>2. UNCHANGED chain =>
        \A m \in DOMAIN chain' \ DOMAIN chain :
          chain'[m].kind = "registerDID" => chain'[m].to # 0
      OBVIOUS
<1>3. /\ "idle" \in Steps /\ "submit" \in Steps /\ "registering" \in Steps
      /\ "sending" \in Steps /\ "readBlock" \in Steps /\ "writeBlock" \in Steps
      /\ "record" \in Steps /\ "list" \in Steps /\ "awaitRegistered" \in Steps
      /\ "waiting" \in Steps /\ 0 \in Nat
      BY DEF Steps, UnderLock, HasMined, Registering
<1>4. ASSUME NEW from, NEW s \in Steps, NEW l, Passes(t, from, s, l),
             s # "awaitRegistered",
             s \in {"submit", "sending"} /\ CurrentItem(t).kind = "meta" =>
               KnownTo(contracts.did_registry, CurrentItem(t).did)
      PROVE  RegistryRead'
  <2>1. Goes(t, s, r, l) /\ UNCHANGED chain BY <1>1, <1>4 DEF Passes
  <2>2. QED BY <1>2, <1>4, <2>1, GoesRegistry
<1>5. CASE \/ Passes(t, "ensure", "registering", t)
           \/ Passes(t, "waiting", "readBlock", NoThread)
           \/ Passes(t, "readBlock", "writeBlock", lock)
           \/ Passes(t, "writeBlock", "record", lock)
           \/ Passes(t, "record", "list", lock)
      BY <1>3, <1>4, <1>5
<1>6. CASE Passes(t, "ensure", "submit", lock) /\ CurrentItem(t).did \in registered_dids
  <2>1. KnownTo(contracts.did_registry, CurrentItem(t).did) BY <1>6 DEF RegistryRead
  <2>2. QED BY <1>3, <1>4, <1>6, <2>1
<1>7. CASE Passes(t, "submit", "sending", t)
  <2>1. CurrentItem(t).kind = "meta" =>
          KnownTo(contracts.did_registry, CurrentItem(t).did)
        BY <1>7 DEF RegistryRead, Passes
  <2>2. QED BY <1>3, <1>4, <1>7, <2>1
<1>8. CASE /\ Sends(t, "registering", "awaitRegistered",
                    RegistrationBlock(CurrentItem(t).did))
           /\ contracts.did_registry # 0
  <2>1. pc[t] = "registering" BY <1>8 DEF Sends
  <2>2. CurrentItem(t) \in Item BY <2>1, CurrentIsItem DEF Types, CallsInvariant
  <2>3. PICK b : b = RegistrationBlock(CurrentItem(t).did) OBVIOUS
  <2>4. b \in Block /\ b.to = contracts.did_registry /\ b.did = CurrentItem(t).did
        BY <2>2, <2>3, SentIsBlock DEF Types, RegistrationBlock
  <2>5. PICK n : n = Len(chain) + 1 OBVIOUS
  <2>6. Mine(b) /\ Goes(t, "awaitRegistered", n, lock) BY <1>8, <2>3, <2>5 DEF Sends
  <2>7. chain'[n] = b /\ DOMAIN chain' = DOMAIN chain \cup {n} /\ n \in Nat
        BY <2>4, <2>5, <2>6, Mined DEF Types
  <2>8. \A m \in DOMAIN chain' \ DOMAIN chain : chain'[m].to # 0
        BY <1>8, <2>4, <2>7
  <2>9. QED BY <1>3, <2>4, <2>6, <2>7, <2>8, GoesRegistry
<1>9. CASE Sends(t, "sending", "waiting", ItemBlock(CurrentItem(t)))
  <2>1. pc[t] = "sending" BY <1>9 DEF Sends
  <2>2. CurrentItem(t) \in Item BY <2>1, CurrentIsItem DEF Types, CallsInvariant
  <2>3. PICK b : b = ItemBlock(CurrentItem(t)) OBVIOUS
  <2>4. b \in Block /\ b.kind \in SubmissionKind
        BY <2>2, <2>3, SentIsBlock, ItemKinds DEF Types, ItemBlock
  <2>5. PICK n : n = Len(chain) + 1 OBVIOUS
  <2>6. Mine(b) /\ Goes(t, "waiting", n, lock) BY <1>9, <2>3, <2>5 DEF Sends
  <2>7. chain'[n] = b /\ DOMAIN chain' = DOMAIN chain \cup {n} /\ n \in Nat
        BY <2>4, <2>5, <2>6, Mined DEF Types
  <2>8. \A m \in DOMAIN chain' \ DOMAIN chain : chain'[m].kind # "registerDID"
        BY <2>4, <2>7 DEF SubmissionKind
  <2>9. QED BY <1>3, <2>6, <2>7, <2>8, GoesRegistry
<1>10. CASE EndsRegistration(t)
  <2>1. /\ pc[t] = "awaitRegistered" /\ Goes(t, "submit", 0, NoThread)
        /\ UNCHANGED chain
        BY <1>10 DEF EndsRegistration
  <2>2. KnownTo(contracts.did_registry, CurrentItem(t).did) BY <2>1, AwaitedIsKnown
  <2>3. QED BY <1>2, <1>3, <2>1, <2>2, GoesRegistry
<1>11. CASE Fails(t)
  <2>1. PICK l : l = IF lock = t THEN NoThread ELSE lock OBVIOUS
  <2>2. Goes(t, "idle", 0, l) /\ UNCHANGED chain BY <1>11, <2>1 DEF Fails
  <2>3. QED BY <1>2, <1>3, <2>2, GoesRegistry
<1>12. QED BY <1>5, <1>6, <1>7, <1>8, <1>9, <1>10, <1>11, Edges

\* So does the end of an item: the next reading is looked up anew.
LEMMA ListRegistry ==
  ASSUME Types, CallsInvariant, RegistryRead, Grows, NEW t \in Threads, list(t)
  PROVE  RegistryRead'
<1>1. PICK ids \in Seq(Nat), s \in Steps : Lists(t, ids, s) BY ListEdge
<1>2. /\ pc \in [Threads -> Steps] /\ tx_ids \in [Threads -> Seq(Nat)]
      /\ receipt \in [Threads -> Nat]
      BY DEF Types, ThreadTypes
<1>3. /\ pc[t] = "list" /\ pc' = [pc EXCEPT ![t] = s]
      /\ receipt' = [receipt EXCEPT ![t] = 0] /\ tx_ids' = [tx_ids EXCEPT ![t] = ids]
      /\ UNCHANGED <<job, chain>> /\ s \in {"idle", "ensure", "submit"}
      /\ s # "idle" => (s = "ensure" <=> job[t][Len(ids) + 1].kind = "meta")
      BY <1>1 DEF Lists, Moves
<1>4. /\ pc'[t] = s /\ tx_ids'[t] = ids
      /\ \A u \in Threads : u # t => /\ pc'[u] = pc[u] /\ receipt'[u] = receipt[u]
                                     /\ CurrentItem(u)' = CurrentItem(u)
      BY <1>2, <1>3 DEF CurrentItem
<1>5. CurrentItem(t)' = job[t][Len(ids) + 1] BY <1>3, <1>4 DEF CurrentItem
<1>6. UNCHANGED <<contracts, deployments, registered_dids>>
      BY DEF list, contractVars
<1>7. ASSUME NEW u \in Threads, pc'[u] \in {"submit", "sending"},
             CurrentItem(u)'.kind = "meta"
      PROVE  /\ pc[u] \in {"submit", "sending"} /\ CurrentItem(u).kind = "meta"
             /\ CurrentItem(u)' = CurrentItem(u)
  <2>1. CASE u = t BY <1>3, <1>4, <1>5, <1>7, <2>1
  <2>2. CASE u # t BY <1>4, <1>7, <2>2
  <2>3. QED BY <2>1, <2>2
<1>8. ASSUME NEW u \in Threads, pc'[u] = "awaitRegistered"
      PROVE  /\ pc[u] = "awaitRegistered" /\ receipt'[u] = receipt[u]
             /\ CurrentItem(u)' = CurrentItem(u)
      BY <1>3, <1>4, <1>8
<1>9. QED BY <1>3, <1>6, <1>7, <1>8 DEF RegistryRead, KnownTo

\* And the call that begins: a thread with a reading looks it up first.
LEMMA CallRegistry ==
  ASSUME Types, CallsInvariant, RegistryRead, NEW t \in Threads, NEW items \in Jobs,
         call(t, items)
  PROVE  RegistryRead'
<1>1. items \in Seq(Item) /\ Len(items) > 0 /\ items[1] \in Item BY JobItems
<1>2. /\ pc \in [Threads -> Steps] /\ job \in [Threads -> Seq(Item)]
      /\ tx_ids \in [Threads -> Seq(Nat)]
      BY DEF Types, ThreadTypes
<1>3. PICK s : s = FirstStep(items[1]) OBVIOUS
<1>4. s \in {"ensure", "submit"} /\ (s = "ensure" <=> items[1].kind = "meta")
      BY <1>1, <1>3, ItemKinds
<1>5. /\ pc[t] = "idle" /\ pc' = [pc EXCEPT ![t] = s]
      /\ job' = [job EXCEPT ![t] = items] /\ tx_ids' = [tx_ids EXCEPT ![t] = <<>>]
      /\ UNCHANGED <<chain, lock, receipt, contracts, deployments, registered_dids>>
      BY <1>3 DEF call, nodeVars, contractVars
<1>6. /\ pc'[t] = s /\ tx_ids'[t] = <<>> /\ job'[t] = items
      /\ \A u \in Threads : u # t => /\ pc'[u] = pc[u] /\ job'[u] = job[u]
                                     /\ tx_ids'[u] = tx_ids[u]
      BY <1>2, <1>5
<1>7. \A u \in Threads : CurrentItem(u)' = job'[u][Len(tx_ids'[u]) + 1]
      BY DEF CurrentItem
<1>8. /\ CurrentItem(t)' = items[1]
      /\ \A u \in Threads : u # t => CurrentItem(u)' = CurrentItem(u)
  <2>1. Len(<<>>) + 1 = 1 OBVIOUS
  <2>2. QED BY <1>6, <1>7, <2>1 DEF CurrentItem
<1>9. ASSUME NEW u \in Threads, pc'[u] \in {"submit", "sending"},
             CurrentItem(u)'.kind = "meta"
      PROVE  /\ pc[u] \in {"submit", "sending"} /\ CurrentItem(u).kind = "meta"
             /\ CurrentItem(u)' = CurrentItem(u)
  <2>1. CASE u = t BY <1>4, <1>6, <1>8, <1>9, <2>1
  <2>2. CASE u # t BY <1>6, <1>8, <1>9, <2>2
  <2>3. QED BY <2>1, <2>2
<1>10. ASSUME NEW u \in Threads, pc'[u] = "awaitRegistered"
       PROVE  pc[u] = "awaitRegistered" /\ CurrentItem(u)' = CurrentItem(u)
       BY <1>4, <1>6, <1>8, <1>10
<1>11. QED BY <1>5, <1>9, <1>10 DEF RegistryRead, KnownTo

\* The first deployment finds no DID cached, and no call running.
LEMMA DeployRegistry ==
  ASSUME Types, CallsInvariant, RegistryRead, MaxDeployments <= 1,
         NEW created \in 0 .. 3, NEW complete \in BOOLEAN,
         deploy_contracts(created, complete)
  PROVE  RegistryRead'
<1>1. /\ Grows
      /\ \A n \in DOMAIN chain' \ DOMAIN chain : chain'[n].kind \in Constructor
      BY Deployed DEF Types
<1>2. /\ deployments < MaxDeployments /\ deployments' = deployments + 1
      /\ \A t \in Threads : pc[t] = "idle"
      /\ UNCHANGED <<registered_dids, pc>>
      BY DEF deploy_contracts, threadVars
<1>3. deployments = 0 /\ deployments' # 0
      BY <1>2, ParameterAssumption DEF Types, ChainTypes
<1>4. contracts.did_registry = 0 BY <1>3 DEF RegistryRead, Undeployed
<1>5. registered_dids = {} BY <1>4 DEF RegistryRead, KnownTo
<1>6. "registerDID" \notin Constructor BY DEF Constructor
<1>7. \A n \in DOMAIN chain' : chain'[n].kind = "registerDID" => chain'[n].to # 0
      BY <1>1, <1>6 DEF RegistryRead, Grows
<1>8. QED BY <1>2, <1>3, <1>5, <1>7 DEF RegistryRead

\* Every step keeps what the threads rely on about the registry.
LEMMA NextRegistry ==
  ASSUME Types, CallsInvariant, RegistryRead, MaxDeployments <= 1, [Next]_vars
  PROVE  RegistryRead'
<1>1. Grows BY NextGrows DEF CallsInvariant
<1>2. ASSUME UNCHANGED vars PROVE RegistryRead'
  <2>1. UNCHANGED <<chain, contracts, deployments, registered_dids, pc, job, tx_ids, receipt>>
        BY <1>2 DEF vars, nodeVars, contractVars, threadVars
  <2>2. QED BY <2>1 DEF RegistryRead, KnownTo, CurrentItem
<1>3. ASSUME NEW t \in Threads, step(t) PROVE RegistryRead'
      BY <1>1, <1>3, EdgesRegistry, ListRegistry
<1>4. QED BY <1>2, <1>3, CallRegistry, DeployRegistry DEF Next

\* The cache of registered DIDs never lies to a thread: when it goes on to
\* submit a reading, its device is in the registry the relay contract reads,
\* as long as the backend deploys its contracts once, as its callers do.
THEOREM Ensured ==
  ASSUME MaxDeployments <= 1
  PROVE  Spec => []EnsuredIsRegistered
<1>1. ASSUME Init PROVE Types /\ CallsInvariant /\ RegistryRead
  <2>1. /\ chain = <<>> /\ registered_dids = {} /\ contracts = Undeployed
        /\ \A t \in Threads : pc[t] = "idle"
        BY <1>1 DEF Init
  <2>2. RegistryRead BY <2>1 DEF RegistryRead
  <2>3. QED BY <1>1, <2>2, InitCalls
<1>2. ASSUME Types, CallsInvariant, RegistryRead, [Next]_vars PROVE RegistryRead'
      BY <1>2, NextRegistry
<1>3. ASSUME RegistryRead PROVE EnsuredIsRegistered
      BY <1>3 DEF RegistryRead, EnsuredIsRegistered
<1>4. QED BY <1>1, <1>2, <1>3, AlwaysCalls, PTL DEF Spec
=============================================================================
