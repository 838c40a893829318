-------------------------- MODULE ExperimentsProofs -------------------------
(***************************************************************************)
(* What the programs of the experiments promise, for every number of       *)
(* devices, transactions, threads, relays, waves and failures.  A          *)
(* container runs one program (OneProgram), so each part proves its        *)
(* property from an inductive invariant of that program alone.             *)
(***************************************************************************)
EXTENDS Experiments, SequenceTheorems, FiniteSetTheorems, TLAPS

-----------------------------------------------------------------------------
(* One program in its container.                                           *)

\* A container starts one program in its initial state.
LEMMA Started ==
  ASSUME Init
  PROVE  /\ program = "relay_path" => path!Init
         /\ program = "scalability" => scalability!Init
         /\ program = "comparison" => comparison!Init
         /\ program = "hardhat" => hardhat!Init
         /\ program = "benchmark" => benchmark!Init
         /\ program = "nonce_script" => nonce!Init
         /\ program = "batch_script" => batches!Init
BY DEF Init

\* The container stays with its program, and every step is a step of it.
LEMMA OneProgram ==
  ASSUME [Next]_vars
  PROVE  /\ program' = program
         /\ program = "relay_path" => [path!Next]_(path!vars)
         /\ program = "scalability" => [scalability!Next]_(scalability!vars)
         /\ program = "comparison" => [comparison!Next]_(comparison!vars)
         /\ program = "hardhat" => [hardhat!Next]_(hardhat!vars)
         /\ program = "benchmark" => [benchmark!Next]_(benchmark!vars)
         /\ program = "nonce_script" => [nonce!Next]_(nonce!vars)
         /\ program = "batch_script" => [batches!Next]_(batches!vars)
<1>1. CASE UNCHANGED vars
  <2>1. /\ UNCHANGED <<program, pc, faults>>
        /\ UNCHANGED relaySystemVars /\ UNCHANGED pathVars
        /\ UNCHANGED scalabilityVars /\ UNCHANGED comparisonVars
        /\ UNCHANGED hardhatVars /\ UNCHANGED benchmarkVars
        /\ UNCHANGED walletVars /\ UNCHANGED nonceVars
        /\ UNCHANGED batchSubmitVars
        BY <1>1 DEF vars
  <2>2. UNCHANGED path!vars
        BY <2>1 DEF relaySystemVars, pathVars, path!vars, path!configVars,
             path!chainVars, path!callVars, path!gatewayVars, path!nodeVars,
             path!loopVars, path!totalVars
  <2>3. UNCHANGED scalability!vars
        BY <2>1 DEF relaySystemVars, scalabilityVars, scalability!vars,
             scalability!configVars, scalability!chainVars, scalability!callVars,
             scalability!gatewayVars, scalability!nodeVars, scalability!workerVars,
             scalability!mergedVars, scalability!submitVars, scalability!mainVars
  <2>4. UNCHANGED comparison!vars
        BY <2>1 DEF relaySystemVars, pathVars, comparisonVars, comparison!vars,
             comparison!pathVars, comparison!configVars, comparison!callVars,
             comparison!gatewayVars, comparison!simulationVars,
             comparison!relayVars, comparison!countVars, comparison!runVars
  <2>5. UNCHANGED hardhat!vars
        BY <2>1 DEF hardhatVars, hardhat!vars, hardhat!processVars,
             hardhat!measureVars
  <2>6. UNCHANGED benchmark!vars
        BY <2>1 DEF benchmarkVars, benchmark!vars, benchmark!argVars
  <2>7. UNCHANGED nonce!vars
        BY <2>1 DEF walletVars, nonceVars, nonce!vars, nonce!chainVars
  <2>8. UNCHANGED batches!vars
        BY <2>1 DEF walletVars, batchSubmitVars, batches!vars,
             batches!relayVars, batches!chainVars
  <2>9. QED BY <2>1, <2>2, <2>3, <2>4, <2>5, <2>6, <2>7, <2>8
<1>2. CASE Next
      BY <1>2 DEF Next, InRelayPath, InScalability, InComparison, InHardhat,
           InBenchmark, InNonceScript, InBatchScript
<1>3. QED BY <1>1, <1>2

-----------------------------------------------------------------------------
(* The calls of a runner that submits to the chain.                        *)

calls == INSTANCE HardhatCalls

\* What a run submits to.
Backend == {"none", "hardhat", "simulated"}

\* What has reached the chain in use, and the outcome of the run.
Chain == IF backend = "hardhat" THEN bc ELSE tx_order

Outcome == IF pc = "done" THEN "done" ELSE IF pc = "raised" THEN "aborted" ELSE "running"

\* Where a run has deployed the contracts it needs.
Working == {"register", "collect", "submit", "flush", "merge", "unwind"}

\* A submission is made to contracts that were deployed, and is only lost with
\* them.
CallsInv ==
  /\ backend \in Backend /\ code \in {"none", "there", "gone"}
  /\ flight \in {"none", "sent", "mined", "lost"}
  /\ code # "none" => backend = "hardhat"
  /\ code # "there" => bc = <<>>
  /\ flight # "none" => code # "none"
  /\ flight = "lost" => code = "gone"
  /\ backend = "hardhat" /\ pc \in Working => code # "none"
  /\ pc = "create" => backend = "none"
  /\ pc = "deploy" => code = "none" /\ backend = "hardhat"

\* A delivery as its abstract specification has it, or nothing of it.
Delivers(Item, accepted, accepted1) ==
  LET same == accepted1 = accepted
      stays == (flight' = "sent" <=> flight = "sent") /\ (code' = "gone" <=> code = "gone")
  IN
  \/ same /\ stays /\ Chain' = Chain /\ Outcome' = Outcome
  \/ \* readings are accepted
     /\ Outcome = "running" /\ Outcome' = "running" /\ Chain' = Chain /\ stays
     /\ \E new \in Seq(Item) : accepted1 = accepted \o new
  \/ \* the next one is handed over
     /\ Outcome = "running" /\ Outcome' = "running" /\ same /\ Chain' = Chain
     /\ flight # "sent" /\ flight' = "sent" /\ (code' = "gone" <=> code = "gone")
     /\ Len(Chain) < Len(accepted)
  \/ \* or delivered
     /\ Outcome = "running" \/ flight = "sent"
     /\ Outcome' = Outcome /\ same /\ flight' # "sent"
     /\ code # "gone" /\ code' # "gone"
     /\ Len(Chain) < Len(accepted)
     /\ Chain' = Append(Chain, accepted[Len(Chain) + 1])
  \/ \* the chain is lost, or what is handed over after that
     /\ Outcome' = Outcome /\ same
     /\ code' = "gone" /\ Chain' = <<>> /\ flight' # "sent"
  \/ \* the run ends
     /\ Outcome = "running" /\ same /\ Chain' = Chain /\ stays
     /\ \/ Outcome' = "done" /\ flight # "sent" /\ (code # "gone" => Chain = accepted)
        \/ Outcome' = "aborted"

\* The node stops, starts or mines.
LEMMA NodeKeeps ==
  ASSUME CallsInv, NEW item, calls!stop \/ calls!start \/ calls!mine(item),
         UNCHANGED <<backend, pc>>
  PROVE  CallsInv'
<1>1. CASE calls!stop BY <1>1 DEF calls!stop, CallsInv
<1>2. CASE calls!start BY <1>2 DEF calls!start, CallsInv
<1>3. CASE calls!mine(item)
  <2>1. /\ flight = "sent" /\ flight' = "mined" /\ UNCHANGED code
        /\ code # "there" => UNCHANGED bc
        BY <1>3 DEF calls!mine, calls!Stored
  <2>2. QED BY <2>1 DEF CallsInv
<1>4. QED BY <1>1, <1>2, <1>3

\* What it mines is the next reading accepted.
LEMMA NodeDelivers ==
  ASSUME CallsInv, NEW S, NEW accepted \in Seq(S), NEW item,
         calls!stop \/ calls!start \/ calls!mine(item),
         UNCHANGED <<backend, pc, tx_order>>,
         flight = "sent" /\ code = "there" =>
           Len(bc) < Len(accepted) /\ item = accepted[Len(bc) + 1]
  PROVE  Delivers(S, accepted, accepted)
<1>1. UNCHANGED Outcome BY DEF Outcome
<1>2. CASE calls!stop
  <2>1. CASE code = "none"
    <3>1. UNCHANGED <<code, flight>> /\ bc' = <<>> /\ bc = <<>>
          BY <1>2, <2>1 DEF calls!stop, CallsInv
    <3>2. UNCHANGED Chain BY <3>1 DEF Chain
    <3>3. QED BY <1>1, <3>1, <3>2 DEF Delivers
  <2>2. CASE code # "none"
    <3>1. code' = "gone" /\ flight' # "sent" /\ bc' = <<>> /\ backend = "hardhat"
          BY <1>2, <2>2 DEF calls!stop, CallsInv
    <3>2. Chain' = <<>> BY <3>1 DEF Chain
    <3>3. QED BY <1>1, <3>1, <3>2 DEF Delivers
  <2>3. QED BY <2>1, <2>2
<1>3. CASE calls!start
  <2>1. UNCHANGED <<code, flight, bc>> BY <1>3 DEF calls!start
  <2>2. UNCHANGED Chain BY <2>1 DEF Chain
  <2>3. QED BY <1>1, <2>1, <2>2 DEF Delivers
<1>4. CASE calls!mine(item)
  <2>1. /\ flight = "sent" /\ flight' # "sent" /\ UNCHANGED code
        /\ bc' = IF code = "there" THEN Append(bc, item) ELSE bc
        /\ code \in {"there", "gone"} /\ backend = "hardhat"
        BY <1>4 DEF calls!mine, calls!Stored, CallsInv
  <2>2. Chain = bc /\ Chain' = bc' BY <2>1 DEF Chain
  <2>3. CASE code = "there"
        BY <1>1, <2>1, <2>2, <2>3 DEF Delivers
  <2>4. CASE code = "gone"
    <3>1. bc' = <<>> BY <2>1, <2>4 DEF CallsInv
    <3>2. QED BY <1>1, <2>1, <2>2, <2>4, <3>1 DEF Delivers
  <2>5. QED BY <2>1, <2>3, <2>4
<1>5. QED BY <1>2, <1>3, <1>4

-----------------------------------------------------------------------------
(* The relay path.                                                         *)

\* The counts of a path.
CountsAgree ==
  /\ relayed_count = Len(batch) /\ failed_count = failed_verifications
  /\ relayed_count + failed_count = read
  /\ total_transactions = Len(all_latencies)
  /\ code # "gone" => Len(Chain) = total_transactions + submitted + calls!Unanswered
  /\ relayed_count = total_transactions + Len(pending_items)
  /\ backend = "simulated" =>
       submitted_count = Len(tx_order) /\ block_number = Len(tx_order)

\* What is pending is what was kept and is not in a batch that was submitted,
\* and what is on the chain is what was kept first.
InOrder(kept, delivered, rest, done) ==
  /\ \A k \in 1 .. Len(rest) : rest[k] = kept[done + k]
  /\ \A k \in 1 .. Len(delivered) : delivered[k] = kept[k]

\* Where a path can be.
PathPlaces ==
  /\ pc \in {"create", "deploy", "register", "collect", "submit", "flush", "done",
             "raised"}
  /\ pc = "create" => tx_order = <<>> /\ submitted_count = 0 /\ block_number = 0
  /\ pc \in {"flush", "done"} => read = path!ReadingCount
  /\ pc = "done" => pending_items = <<>>
  /\ flight # "none" =>
       pc \in {"submit", "flush", "raised"} /\ submitted < Len(pending_items)

\* The values of the path's variables.
PathTypes ==
  /\ read \in Nat /\ submitted \in Nat /\ submitted <= Len(pending_items)
  /\ relayed_count \in Nat /\ failed_count \in Nat
  /\ total_transactions \in Nat /\ failed_verifications \in Nat
  /\ batch \in Seq(Nat) /\ pending_items \in Seq(Nat) /\ all_latencies \in Seq(Nat)
  /\ bc \in Seq(Nat) /\ tx_order \in Seq(Nat)

\* The invariant of the path.
PathInv ==
  /\ PathTypes /\ CountsAgree /\ PathPlaces /\ CallsInv
  /\ InOrder(batch, Chain, pending_items, total_transactions)

\* The variables of a path before its first step.
Fresh ==
  /\ backend = "none" /\ code = "none" /\ bc = <<>> /\ flight = "none"
  /\ relayed_count = 0 /\ failed_count = 0 /\ batch = <<>>
  /\ tx_order = <<>> /\ block_number = 0 /\ submitted_count = 0
  /\ pc = "create" /\ read = 0 /\ pending_items = <<>> /\ submitted = 0
  /\ total_transactions = 0 /\ failed_verifications = 0 /\ all_latencies = <<>>

\* A path begins with nothing read.
LEMMA FreshPath == Fresh => PathInv
<1> SUFFICES ASSUME Fresh PROVE PathInv
    OBVIOUS
<1> USE DEF Fresh
<1>1. Chain = <<>> /\ calls!Unanswered = 0 BY DEF Chain, calls!Unanswered
<1>2. PathTypes BY EmptySeq DEF PathTypes
<1>3. CountsAgree BY <1>1 DEF CountsAgree
<1>4. InOrder(batch, Chain, pending_items, total_transactions)
      BY <1>1 DEF InOrder
<1>5. CallsInv BY DEF CallsInv, Backend, Working
<1>6. QED BY <1>2, <1>3, <1>4, <1>5 DEF PathInv, PathPlaces

LEMMA PathInit == path!Init => PathInv
<1>1. path!Init => Fresh
      BY DEF path!Init, path!calls!Init, path!gateway!Init, path!relay!Init, Fresh
<1>2. QED BY <1>1, FreshPath

\* A step of the path appends to what is accepted or to what is delivered.
PathDelivers == Delivers(Nat, batch, batch')

\* Nothing is left over when nothing is pending.
LEMMA AllDelivered ==
  ASSUME PathInv, submitted = Len(pending_items)
  PROVE  flight = "none" /\ (code # "gone" => Chain = batch)
<1>1. Chain \in Seq(Nat) /\ batch \in Seq(Nat)
      BY DEF PathInv, PathTypes, Chain
<1>2. flight = "none" BY DEF PathInv, PathPlaces, PathTypes
<1>3. ASSUME code # "gone" PROVE Chain = batch
  <2>1. calls!Unanswered = 0 BY <1>2 DEF calls!Unanswered
  <2>2. Len(Chain) = Len(batch)
        BY <1>1, <1>3, <2>1, LenProperties DEF PathInv, CountsAgree, PathTypes
  <2>3. \A k \in 1 .. Len(Chain) : Chain[k] = batch[k] BY DEF PathInv, InOrder
  <2>4. QED BY <1>1, <2>2, <2>3, SeqEqual
<1>4. QED BY <1>2, <1>3

\* The steps that only move on, or deploy.
LEMMA PathMoves ==
  ASSUME PathInv,
         UNCHANGED <<device_count, transactions_per_device, read, submitted,
                     relayed_count, failed_count, total_transactions,
                     failed_verifications, batch, pending_items, all_latencies, bc,
                     flight, tx_order, submitted_count, block_number>>,
         pc = "create" \/ UNCHANGED backend,
         code' = "gone" <=> code = "gone",
         CallsInv',
         pc' \in {"create", "deploy", "register", "collect", "submit", "flush", "done",
                  "raised"},
         pc' = "create" => pc = "create",
         pc' \in {"flush", "done"} => read = path!ReadingCount,
         pc' = "done" => pending_items = <<>>,
         pc \in {"submit", "flush", "raised"} => pc' \in {pc, "raised"},
         Outcome' # Outcome => Outcome = "running",
         Outcome' = "done" => Outcome = "done" \/ submitted = Len(pending_items)
  PROVE  PathInv' /\ PathDelivers
<1>1. UNCHANGED Chain
  <2>1. CASE UNCHANGED backend BY <2>1 DEF Chain
  <2>2. CASE pc = "create"
    <3>1. bc = <<>> /\ tx_order = <<>> BY <2>2 DEF PathInv, PathPlaces, CallsInv
    <3>2. QED BY <3>1 DEF Chain
  <2>3. QED BY <2>1, <2>2
<1>2. UNCHANGED <<path!ReadingCount, calls!Unanswered>>
      BY DEF path!ReadingCount, calls!Unanswered
<1>3. CountsAgree'
  <2>1. backend' = "simulated" =>
          submitted_count = Len(tx_order) /\ block_number = Len(tx_order)
        BY DEF PathInv, CountsAgree, PathPlaces
  <2>2. QED BY <1>1, <1>2, <2>1 DEF PathInv, CountsAgree
<1>4. PathPlaces' BY <1>2 DEF PathInv, PathPlaces
<1>5. InOrder(batch, Chain, pending_items, total_transactions)'
      BY <1>1 DEF PathInv, InOrder
<1>6. PathInv' BY <1>3, <1>4, <1>5 DEF PathInv, PathTypes
<1>7. PathDelivers
  <2>1. CASE UNCHANGED Outcome BY <1>1, <2>1 DEF PathDelivers, Delivers
  <2>2. CASE Outcome' = "aborted" /\ Outcome = "running"
        BY <1>1, <2>2 DEF PathDelivers, Delivers
  <2>3. CASE Outcome' = "done" /\ Outcome = "running"
    <3>1. flight = "none" /\ (code # "gone" => Chain = batch)
          BY <2>3, AllDelivered
    <3>2. QED BY <1>1, <2>3, <3>1 DEF PathDelivers, Delivers
  <2>4. QED BY <2>1, <2>2, <2>3 DEF Outcome
<1>8. QED BY <1>6, <1>7

\* A step that sets the path going.
LEMMA SetupStep ==
  ASSUME PathInv, path!createBlockchain \/ path!setupBackend("register") \/ path!registerDevice
  PROVE  PathInv' /\ PathDelivers
<1>1. /\ UNCHANGED <<device_count, transactions_per_device, read, submitted,
                     relayed_count, failed_count, total_transactions,
                     failed_verifications, batch, pending_items, all_latencies, bc,
                     flight, tx_order, submitted_count, block_number>>
      /\ pc = "create" \/ UNCHANGED backend
      BY DEF path!createBlockchain, path!setupBackend, path!registerDevice,
         path!calls!deploy_contracts, path!configVars, path!chainVars, path!callVars,
         path!gatewayVars, path!nodeVars, path!loopVars, path!totalVars
<1>2. \/ /\ pc = "create" /\ UNCHANGED code
         /\ \/ backend' = "hardhat" /\ pc' = "deploy"
            \/ backend' = "simulated" /\ pc' = "collect"
      \/ pc = "deploy" /\ pc' = "register" /\ code' = "there" /\ UNCHANGED backend
      \/ pc = "deploy" /\ pc' = "raised" /\ UNCHANGED <<backend, code>>
      \/ /\ pc = "register" /\ pc' \in {"register", "collect", "raised"}
         /\ UNCHANGED <<backend, code>>
      BY DEF path!createBlockchain, path!setupBackend, path!registerDevice,
         path!calls!deploy_contracts, path!chainVars, path!callVars
<1>3. CallsInv' BY <1>1, <1>2 DEF PathInv, CallsInv, Backend, Working
<1>4. code' = "gone" <=> code = "gone" BY <1>2 DEF PathInv, CallsInv
<1>5. Outcome = "running" /\ Outcome' # "done" BY <1>2 DEF Outcome
<1>6. /\ pc' \in {"create", "deploy", "register", "collect", "submit", "flush", "done",
                  "raised"}
      /\ pc' \notin {"create", "flush", "done"}
      /\ pc \notin {"submit", "flush", "raised"}
      BY <1>2
<1>7. QED BY <1>1, <1>3, <1>4, <1>5, <1>6, PathMoves

\* The chain holds no more than was accepted.
LEMMA ChainShorter ==
  ASSUME PathInv
  PROVE  /\ Chain \in Seq(Nat) /\ Len(Chain) \in Nat /\ Len(batch) \in Nat
         /\ Len(Chain) <= Len(batch)
<1>1. Chain \in Seq(Nat) /\ batch \in Seq(Nat) /\ pending_items \in Seq(Nat)
      BY DEF PathInv, PathTypes, Chain
<1>2. Len(Chain) \in Nat /\ Len(batch) \in Nat /\ Len(pending_items) \in Nat
      BY <1>1, LenProperties
<1>3. CASE code = "gone"
  <2>1. Chain = <<>> BY <1>3 DEF PathInv, CallsInv, Chain
  <2>2. QED BY <1>1, <1>2, <2>1
<1>4. CASE code # "gone"
  <2>1. submitted + calls!Unanswered <= Len(pending_items) /\ calls!Unanswered \in Nat
        BY <1>2 DEF PathInv, PathPlaces, PathTypes, calls!Unanswered
  <2>2. QED BY <1>1, <1>2, <1>4, <2>1 DEF PathInv, CountsAgree, PathTypes
<1>5. QED BY <1>1, <1>2, <1>3, <1>4

\* A step of the main loop of the path.
LEMMA ReadStep ==
  ASSUME PathInv, NEW verified \in BOOLEAN, path!readDevice(verified)
  PROVE  PathInv' /\ PathDelivers
<1>1. /\ pc = "collect" /\ read' = read + 1
      /\ UNCHANGED <<device_count, transactions_per_device, backend, code, bc, flight,
                     tx_order, submitted_count, block_number, submitted,
                     total_transactions, all_latencies>>
      BY DEF path!readDevice, path!configVars, path!chainVars, path!callVars,
         path!nodeVars
<1>2. UNCHANGED <<Chain, calls!Unanswered>> BY <1>1 DEF Chain, calls!Unanswered
<1>3. /\ PathTypes /\ CountsAgree /\ PathPlaces /\ CallsInv
      /\ flight = "none"
      /\ InOrder(batch, Chain, pending_items, total_transactions)
      BY <1>1 DEF PathInv, PathPlaces
<1>4. Outcome = "running" BY <1>1 DEF Outcome
<1>5. CASE verified
  <2> DEFINE new == read + 1
  <2>1. /\ relayed_count' = relayed_count + 1 /\ UNCHANGED failed_count
        /\ batch' = Append(batch, new) /\ pending_items' = Append(pending_items, new)
        /\ pc' \in {"submit", "collect"} /\ UNCHANGED failed_verifications
        BY <1>5 DEF path!readDevice, path!gateway!relay_data
  <2>2. new \in Nat BY <1>3 DEF PathTypes
  <2> HIDE DEF new
  <2>3. /\ batch' \in Seq(Nat) /\ Len(batch') = Len(batch) + 1
        /\ \A k \in 1 .. Len(batch) : batch'[k] = batch[k]
        /\ batch'[Len(batch) + 1] = new
        BY <1>3, <2>1, <2>2, AppendProperties DEF PathTypes
  <2>4. /\ pending_items' \in Seq(Nat)
        /\ Len(pending_items') = Len(pending_items) + 1
        /\ \A k \in 1 .. Len(pending_items) : pending_items'[k] = pending_items[k]
        /\ pending_items'[Len(pending_items) + 1] = new
        BY <1>3, <2>1, <2>2, AppendProperties DEF PathTypes
  <2>5. Len(batch) \in Nat /\ Len(pending_items) \in Nat /\ Len(Chain) \in Nat
        BY <1>3, LenProperties, ChainShorter DEF PathTypes
  <2>6. PathTypes' BY <1>1, <1>3, <2>1, <2>3, <2>4, <2>5 DEF PathTypes
  <2>7. CountsAgree'
    <3>1. code' # "gone" => Len(Chain')
                              = total_transactions' + submitted' + calls!Unanswered'
          BY <1>1, <1>2, <1>3 DEF CountsAgree
    <3>2. /\ relayed_count' = Len(batch')
          /\ relayed_count' = total_transactions' + Len(pending_items')
          BY <1>1, <1>3, <2>1, <2>3, <2>4, <2>5 DEF CountsAgree, PathTypes
    <3>3. relayed_count' + failed_count' = read'
          BY <1>1, <1>3, <2>1 DEF CountsAgree, PathTypes
    <3>4. QED BY <1>1, <1>3, <2>1, <3>1, <3>2, <3>3 DEF CountsAgree
  <2>8. InOrder(batch', Chain', pending_items', total_transactions')
    <3>1. Len(batch) = total_transactions + Len(pending_items) /\ total_transactions \in Nat
          /\ Len(Chain) <= Len(batch)
          BY <1>3, <2>5, ChainShorter DEF CountsAgree, PathTypes
    <3>2. ASSUME NEW k \in 1 .. Len(pending_items')
          PROVE  pending_items'[k] = batch'[total_transactions + k]
      <4>1. CASE k = Len(pending_items) + 1
        <5>1. total_transactions + k = Len(batch) + 1 BY <2>5, <3>1, <4>1
        <5>2. QED BY <2>3, <2>4, <4>1, <5>1
      <4>2. CASE k \in 1 .. Len(pending_items)
        <5>1. total_transactions + k \in 1 .. Len(batch) BY <2>5, <3>1, <4>2
        <5>2. pending_items[k] = batch[total_transactions + k]
              BY <1>3, <4>2 DEF InOrder
        <5>3. QED BY <2>3, <2>4, <4>2, <5>1, <5>2
      <4>3. QED BY <2>4, <2>5, <4>1, <4>2
    <3>3. ASSUME NEW k \in 1 .. Len(Chain')
          PROVE  Chain'[k] = batch'[k]
      <4>1. k \in 1 .. Len(batch) /\ k \in 1 .. Len(Chain)
            BY <1>2, <2>5, <3>1
      <4>2. Chain[k] = batch[k] BY <1>3, <4>1 DEF InOrder
      <4>3. QED BY <1>2, <2>3, <4>1, <4>2
    <3>4. QED BY <1>1, <3>2, <3>3 DEF InOrder
  <2>9. PathPlaces' /\ CallsInv'
        BY <1>1, <1>3, <2>1 DEF PathPlaces, CallsInv, Working
  <2>10. PathDelivers
    <3>1. batch' = batch \o <<new>>
          BY <1>3, <2>1, <2>2, AppendIsConcat DEF PathTypes
    <3>2. <<new>> \in Seq(Nat) BY <2>2
    <3>3. Outcome' = "running" BY <2>1 DEF Outcome
    <3>4. QED BY <1>1, <1>2, <1>4, <3>1, <3>2, <3>3 DEF PathDelivers, Delivers
  <2>11. QED BY <2>6, <2>7, <2>8, <2>9, <2>10 DEF PathInv
<1>6. CASE ~verified
  <2>1. /\ UNCHANGED <<relayed_count, batch, pending_items, pc>>
        /\ failed_count' = failed_count + 1
        /\ failed_verifications' = failed_verifications + 1
        BY <1>6 DEF path!readDevice, path!gateway!relay_data
  <2>2. PathTypes' BY <1>1, <1>3, <2>1 DEF PathTypes
  <2>3. CountsAgree'
    <3>1. code' # "gone" => Len(Chain')
                              = total_transactions' + submitted' + calls!Unanswered'
          BY <1>1, <1>2, <1>3 DEF CountsAgree
    <3>2. relayed_count' + failed_count' = read'
          BY <1>1, <1>3, <2>1 DEF CountsAgree, PathTypes
    <3>3. QED BY <1>1, <1>3, <2>1, <3>1, <3>2 DEF CountsAgree
  <2>4. InOrder(batch', Chain', pending_items', total_transactions')
        BY <1>1, <1>2, <1>3, <2>1
  <2>5. PathPlaces' /\ CallsInv' BY <1>1, <1>3, <2>1 DEF PathPlaces, CallsInv
  <2>6. PathDelivers
    <3>1. UNCHANGED Outcome BY <2>1 DEF Outcome
    <3>2. QED BY <1>1, <1>2, <2>1, <3>1 DEF PathDelivers, Delivers
  <2>7. QED BY <2>2, <2>3, <2>4, <2>5, <2>6 DEF PathInv
<1>7. QED BY <1>5, <1>6

\* The loop of a batch is at its next item, which is the next one to deliver.
LEMMA AtItem ==
  ASSUME PathInv, submitted < Len(pending_items), flight # "mined"
  PROVE  /\ path!CurrentItem \in Nat
         /\ Len(Chain) < Len(batch)
         /\ code # "gone" => /\ Len(Chain) = total_transactions + submitted
                             /\ path!CurrentItem = batch[Len(Chain) + 1]
<1>1. /\ pending_items \in Seq(Nat) /\ submitted \in Nat /\ total_transactions \in Nat
      /\ Len(pending_items) \in Nat
      BY LenProperties DEF PathInv, PathTypes
<1>2. submitted + 1 \in 1 .. Len(pending_items) BY <1>1
<1>3. path!CurrentItem \in Nat BY <1>1, <1>2, ElementOfSeq DEF path!CurrentItem
<1>4. path!CurrentItem = batch[total_transactions + (submitted + 1)]
      BY <1>2 DEF PathInv, InOrder, path!CurrentItem
<1>5. Len(batch) = total_transactions + Len(pending_items)
      BY DEF PathInv, CountsAgree
<1>6. CASE code = "gone"
  <2>1. Chain = <<>> BY <1>6 DEF PathInv, CallsInv, Chain
  <2>2. QED BY <1>1, <1>2, <1>3, <1>5, <1>6, <2>1
<1>7. CASE code # "gone"
  <2>1. calls!Unanswered = 0 BY DEF calls!Unanswered
  <2>2. Len(Chain) = total_transactions + submitted
        BY <1>1, <1>7, <2>1 DEF PathInv, CountsAgree
  <2>3. Len(Chain) + 1 = total_transactions + (submitted + 1) BY <1>1, <2>2
  <2>4. QED BY <1>1, <1>2, <1>3, <1>4, <1>5, <2>2, <2>3
<1>8. QED BY <1>6, <1>7

\* The next item reaches the chain.
LEMMA Appended ==
  ASSUME PathInv, submitted < Len(pending_items), flight # "mined", code # "gone",
         UNCHANGED <<batch, pending_items, total_transactions>>,
         NEW chain1, chain1 = Append(Chain, path!CurrentItem)
  PROVE  /\ Len(chain1) = total_transactions + submitted + 1
         /\ InOrder(batch', chain1, pending_items', total_transactions')
<1>1. PICK chain : chain = Chain OBVIOUS
<1>2. PICK item : item = path!CurrentItem OBVIOUS
<1>3. /\ chain \in Seq(Nat) /\ item \in Nat
      /\ Len(chain) = total_transactions + submitted
      /\ item = batch[Len(chain) + 1]
      BY <1>1, <1>2, ChainShorter, AtItem
<1>4. /\ Len(chain1) = Len(chain) + 1 /\ Len(chain) \in Nat
      /\ \A k \in 1 .. Len(chain) : chain1[k] = chain[k]
      /\ chain1[Len(chain) + 1] = item
      BY <1>1, <1>2, <1>3, AppendProperties, LenProperties
<1>5. \A k \in 1 .. Len(chain) : chain[k] = batch[k] BY <1>1 DEF PathInv, InOrder
<1>6. \A k \in 1 .. Len(chain1) : chain1[k] = batch[k] BY <1>3, <1>4, <1>5
<1>7. QED BY <1>3, <1>4, <1>6 DEF PathInv, InOrder

\* A submission is sent.
LEMMA SendItemStep ==
  ASSUME PathInv, path!sendItem
  PROVE  PathInv' /\ PathDelivers
<1>1. /\ pc \in {"submit", "flush"} /\ submitted < Len(pending_items)
      /\ backend = "hardhat" /\ flight = "none" /\ flight' = "sent"
      /\ UNCHANGED <<device_count, transactions_per_device, backend, code, bc,
                     relayed_count, failed_count, batch, tx_order, submitted_count,
                     block_number, pc, read, pending_items, submitted,
                     total_transactions, failed_verifications, all_latencies>>
      BY DEF path!sendItem, path!Submitting, path!calls!send, path!configVars,
         path!chainVars, path!gatewayVars, path!nodeVars, path!loopVars, path!totalVars
<1>2. UNCHANGED <<Chain, Outcome, path!ReadingCount, calls!Unanswered>>
      BY <1>1 DEF Chain, Outcome, path!ReadingCount, calls!Unanswered
<1>3. CallsInv' BY <1>1 DEF PathInv, CallsInv, Working
<1>4. PathTypes' /\ CountsAgree' BY <1>1, <1>2 DEF PathInv, PathTypes, CountsAgree
<1>5. PathPlaces' BY <1>1, <1>2 DEF PathInv, PathPlaces
<1>6. InOrder(batch, Chain, pending_items, total_transactions)'
      BY <1>1, <1>2 DEF PathInv, InOrder
<1>7. PathDelivers
  <2>1. Outcome = "running" BY <1>1 DEF Outcome
  <2>2. Len(Chain) < Len(batch) BY <1>1, AtItem
  <2>3. QED BY <1>1, <1>2, <2>1, <2>2 DEF PathDelivers, Delivers
<1>8. QED BY <1>3, <1>4, <1>5, <1>6, <1>7 DEF PathInv

\* The node stops, starts, or mines what was sent, also when the path has raised.
LEMMA NodeStep ==
  ASSUME PathInv, path!environment
  PROVE  PathInv' /\ PathDelivers
<1> DEFINE item == path!CurrentItem
<1>1. /\ calls!stop \/ calls!start \/ calls!mine(item)
      /\ UNCHANGED <<device_count, transactions_per_device, backend,
                     relayed_count, failed_count, batch, tx_order, submitted_count,
                     block_number, pc, read, pending_items, submitted,
                     total_transactions, failed_verifications, all_latencies>>
      BY DEF path!environment, path!calls!stop, path!calls!start, path!calls!mine,
         path!calls!Stored, calls!stop, calls!start, calls!mine, calls!Stored,
         path!configVars, path!chainVars, path!gatewayVars, path!nodeVars,
         path!loopVars, path!totalVars
<1>2. UNCHANGED <<Outcome, path!ReadingCount>>
      BY <1>1 DEF Outcome, path!ReadingCount
<1>3. ASSUME flight = "sent"
      PROVE  /\ submitted < Len(pending_items) /\ item \in Nat
             /\ Len(Chain) < Len(batch)
             /\ code # "gone" => item = batch[Len(Chain) + 1]
  <2>1. submitted < Len(pending_items) BY <1>3 DEF PathInv, PathPlaces
  <2>2. QED BY <1>3, <2>1, AtItem
<1> HIDE DEF item
<1>4. CallsInv' BY <1>1, NodeKeeps DEF PathInv
<1>5. PathDelivers
  <2>1. flight = "sent" /\ code = "there" =>
          Len(bc) < Len(batch) /\ item = batch[Len(bc) + 1]
        BY <1>3 DEF PathInv, CallsInv, Chain
  <2>2. batch \in Seq(Nat) BY DEF PathInv, PathTypes
  <2>3. CallsInv BY DEF PathInv
  <2>4. Delivers(Nat, batch, batch) BY <1>1, <2>1, <2>2, <2>3, NodeDelivers
  <2>5. QED BY <1>1, <2>4 DEF PathDelivers
<1>6. PathTypes'
  <2>1. bc' \in Seq(Nat)
    <3>1. bc \in Seq(Nat) BY DEF PathInv, PathTypes
    <3>2. flight = "sent" => Append(bc, item) \in Seq(Nat)
          BY <1>3, <3>1, AppendProperties
    <3>3. <<>> \in Seq(Nat) BY EmptySeq
    <3>4. QED BY <1>1, <3>1, <3>2, <3>3
          DEF calls!stop, calls!start, calls!mine, calls!Stored
  <2>2. QED BY <1>1, <2>1 DEF PathInv, PathTypes
<1>7. PathPlaces'
  <2>1. flight' # "none" => flight # "none"
        BY <1>1 DEF calls!stop, calls!start, calls!mine
  <2>2. QED BY <1>1, <1>2, <2>1 DEF PathInv, PathPlaces
<1>8. CASE code' = "gone"
  <2>1. Chain' = <<>> BY <1>4, <1>8 DEF CallsInv, Chain
  <2>2. CountsAgree' BY <1>1, <1>8 DEF PathInv, CountsAgree
  <2>3. InOrder(batch, Chain, pending_items, total_transactions)'
        BY <1>1, <2>1 DEF PathInv, InOrder
  <2>4. QED BY <1>4, <1>5, <1>6, <1>7, <2>2, <2>3 DEF PathInv
<1>9. CASE code' # "gone" /\ calls!mine(item)
  <2>1. /\ flight = "sent" /\ flight' = "mined" /\ UNCHANGED code
        /\ code = "there" /\ bc' = Append(bc, item) /\ backend = "hardhat"
        BY <1>9 DEF calls!mine, calls!Stored, PathInv, CallsInv
  <2>2. Chain' = Append(Chain, item) BY <1>1, <2>1 DEF Chain
  <2>3. /\ Len(Chain') = total_transactions + submitted + 1
        /\ InOrder(batch', Chain', pending_items', total_transactions')
    <3>1. PICK chain1 : chain1 = Chain' OBVIOUS
    <3>2. chain1 = Append(Chain, path!CurrentItem) BY <2>2, <3>1 DEF item
    <3>3. QED BY <1>1, <1>3, <2>1, <3>1, <3>2, Appended
  <2>4. calls!Unanswered' = 1 BY <2>1 DEF calls!Unanswered
  <2>5. CountsAgree' BY <1>1, <2>1, <2>3, <2>4 DEF PathInv, CountsAgree
  <2>6. QED BY <1>4, <1>5, <1>6, <1>7, <2>3, <2>5 DEF PathInv
<1>10. CASE code' # "gone" /\ ~calls!mine(item)
  <2>1. UNCHANGED <<code, flight>> /\ UNCHANGED Chain
    <3>1. CASE calls!start BY <1>1, <3>1 DEF calls!start, Chain
    <3>2. CASE calls!stop
      <4>1. UNCHANGED <<code, flight>> /\ code = "none" /\ bc = <<>> /\ bc' = <<>>
            BY <1>10, <3>2 DEF calls!stop, PathInv, CallsInv
      <4>2. QED BY <1>1, <4>1 DEF Chain
    <3>3. QED BY <1>1, <1>10, <3>1, <3>2
  <2>2. UNCHANGED calls!Unanswered BY <2>1 DEF calls!Unanswered
  <2>3. CountsAgree' BY <1>1, <2>1, <2>2 DEF PathInv, CountsAgree
  <2>4. InOrder(batch, Chain, pending_items, total_transactions)'
        BY <1>1, <2>1 DEF PathInv, InOrder
  <2>5. QED BY <1>4, <1>5, <1>6, <1>7, <2>3, <2>4 DEF PathInv
<1>11. QED BY <1>8, <1>9, <1>10

\* A submission is answered.
LEMMA AnswerStep ==
  ASSUME PathInv, path!answerItem
  PROVE  PathInv' /\ PathDelivers
<1>1. /\ pc \in {"submit", "flush"} /\ submitted < Len(pending_items)
      /\ flight = "mined" /\ flight' = "none" /\ submitted' = submitted + 1
      /\ UNCHANGED <<device_count, transactions_per_device, backend, code, bc,
                     relayed_count, failed_count, batch, tx_order, submitted_count,
                     block_number, pc, read, pending_items,
                     total_transactions, failed_verifications, all_latencies>>
      BY DEF path!answerItem, path!Submitting, path!calls!answer, path!configVars,
         path!chainVars, path!gatewayVars, path!nodeVars, path!totalVars
<1>2. UNCHANGED <<Chain, Outcome, path!ReadingCount>>
      BY <1>1 DEF Chain, Outcome, path!ReadingCount
<1>3. CallsInv' BY <1>1 DEF PathInv, CallsInv, Working
<1>4. PathTypes'
  <2>1. Len(pending_items) \in Nat BY LenProperties DEF PathInv, PathTypes
  <2>2. QED BY <1>1, <2>1 DEF PathInv, PathTypes
<1>5. CountsAgree'
  <2>1. calls!Unanswered = 1 /\ calls!Unanswered' = 0 BY <1>1 DEF calls!Unanswered
  <2>2. code' # "gone" =>
          Len(Chain') = total_transactions' + submitted' + calls!Unanswered'
        BY <1>1, <1>2, <2>1 DEF PathInv, CountsAgree, PathTypes
  <2>3. QED BY <1>1, <2>2 DEF PathInv, CountsAgree
<1>6. PathPlaces' BY <1>1, <1>2 DEF PathInv, PathPlaces
<1>7. InOrder(batch, Chain, pending_items, total_transactions)'
      BY <1>1, <1>2 DEF PathInv, InOrder
<1>8. PathDelivers BY <1>1, <1>2 DEF PathDelivers, Delivers
<1>9. QED BY <1>3, <1>4, <1>5, <1>6, <1>7, <1>8 DEF PathInv

\* A submission raises, whatever becomes of it.
LEMMA FailStep ==
  ASSUME PathInv, path!failItem
  PROVE  PathInv' /\ PathDelivers
<1>1. /\ pc \in {"submit", "flush"} /\ pc' = "raised"
      /\ UNCHANGED <<device_count, transactions_per_device, read, submitted,
                     relayed_count, failed_count, total_transactions,
                     failed_verifications, batch, pending_items, all_latencies,
                     backend, code, bc, flight, tx_order, submitted_count,
                     block_number>>
      BY DEF path!failItem, path!Submitting, path!configVars, path!chainVars,
         path!callVars, path!gatewayVars, path!nodeVars, path!loopVars, path!totalVars
<1>2. CallsInv' BY <1>1 DEF PathInv, CallsInv, Working
<1>3. Outcome = "running" /\ Outcome' = "aborted" BY <1>1 DEF Outcome
<1>4. QED BY <1>1, <1>2, <1>3, PathMoves

\* A submission to the simulation.
LEMMA SimulateStep ==
  ASSUME PathInv, path!simulateItem
  PROVE  PathInv' /\ PathDelivers
<1> DEFINE item == path!CurrentItem
<1>1. /\ pc \in {"submit", "flush"} /\ submitted < Len(pending_items)
      /\ backend = "simulated" /\ submitted' = submitted + 1
      /\ tx_order' = Append(tx_order, item)
      /\ submitted_count' = submitted_count + 1 /\ block_number' = block_number + 1
      /\ UNCHANGED <<device_count, transactions_per_device, backend, code, bc, flight,
                     relayed_count, failed_count, batch, pc, read, pending_items,
                     total_transactions, failed_verifications, all_latencies>>
      BY DEF path!simulateItem, path!Submitting, path!relay!submit_verified_transaction,
         path!relay!submit_meta_transaction, path!configVars, path!chainVars,
         path!callVars, path!gatewayVars, path!totalVars
<1>2. UNCHANGED <<Outcome, path!ReadingCount>>
      BY <1>1 DEF Outcome, path!ReadingCount
<1>3. code = "none" /\ flight = "none" BY <1>1 DEF PathInv, CallsInv
<1>4. /\ item \in Nat /\ Len(Chain) < Len(batch) /\ item = batch[Len(Chain) + 1]
      BY <1>1, <1>3, AtItem
<1> HIDE DEF item
<1>5. Chain' = Append(Chain, item) BY <1>1 DEF Chain
<1>6. /\ Len(Chain') = total_transactions + submitted + 1
      /\ InOrder(batch', Chain', pending_items', total_transactions')
  <2>1. PICK chain1 : chain1 = Chain' OBVIOUS
  <2>2. chain1 = Append(Chain, path!CurrentItem) BY <1>5, <2>1 DEF item
  <2>3. QED BY <1>1, <1>3, <2>1, <2>2, Appended
<1>7. /\ Append(tx_order, item) \in Seq(Nat)
      /\ Len(Append(tx_order, item)) = Len(tx_order) + 1
      BY <1>4, AppendProperties DEF PathInv, PathTypes
<1>8. PathTypes'
  <2>1. Len(pending_items) \in Nat BY LenProperties DEF PathInv, PathTypes
  <2>2. QED BY <1>1, <1>7, <2>1 DEF PathInv, PathTypes
<1>9. CountsAgree'
  <2>1. calls!Unanswered' = 0 BY <1>1, <1>3 DEF calls!Unanswered
  <2>2. Len(Chain') = total_transactions' + submitted' + calls!Unanswered'
        BY <1>1, <1>6, <2>1 DEF PathInv, PathTypes
  <2>3. submitted_count' = Len(tx_order') /\ block_number' = Len(tx_order')
        BY <1>1, <1>7 DEF PathInv, CountsAgree
  <2>4. QED BY <1>1, <2>2, <2>3 DEF PathInv, CountsAgree
<1>10. CallsInv' /\ PathPlaces'
      BY <1>1, <1>2, <1>3 DEF PathInv, CallsInv, PathPlaces, Working
<1>11. PathDelivers
  <2>1. Outcome = "running" BY <1>1 DEF Outcome
  <2>2. QED BY <1>1, <1>2, <1>3, <1>4, <1>5, <2>1 DEF PathDelivers, Delivers
<1>12. QED BY <1>6, <1>8, <1>9, <1>10, <1>11 DEF PathInv

\* The end of a batch: its readings are counted, and nothing is pending.
LEMMA BatchStep ==
  ASSUME PathInv, path!batchDone
  PROVE  PathInv' /\ PathDelivers
<1>1. /\ pc \in {"submit", "flush"} /\ submitted = Len(pending_items)
      /\ total_transactions' = total_transactions + Len(pending_items)
      /\ all_latencies' = all_latencies \o pending_items
      /\ submitted' = 0 /\ pending_items' = <<>>
      /\ pc' = IF pc = "submit" THEN "collect" ELSE "done"
      /\ UNCHANGED <<device_count, transactions_per_device, backend, code, bc, flight,
                     relayed_count, failed_count, batch, read, failed_verifications,
                     tx_order, submitted_count, block_number>>
      BY DEF path!batchDone, path!configVars, path!gatewayVars, path!chainVars,
             path!callVars, path!nodeVars, path!NextBatch, path!AfterBatch
<1>2. /\ PathTypes /\ CountsAgree /\ PathPlaces /\ CallsInv
      /\ InOrder(batch, Chain, pending_items, total_transactions)
      BY DEF PathInv
<1>3. UNCHANGED <<path!ReadingCount, Chain, calls!Unanswered>>
      BY <1>1 DEF path!ReadingCount, Chain, calls!Unanswered
<1>4. /\ Len(pending_items) \in Nat /\ Len(all_latencies) \in Nat
      /\ all_latencies' \in Seq(Nat)
      /\ Len(all_latencies') = Len(all_latencies) + Len(pending_items)
      BY <1>1, <1>2, LenProperties, ConcatProperties DEF PathTypes
<1>5. Len(pending_items') = 0 /\ pending_items' \in Seq(Nat) BY <1>1, EmptySeq
<1>6. flight = "none" /\ (code # "gone" => Chain = batch)
      BY <1>1, AllDelivered
<1>7. PathTypes' BY <1>1, <1>2, <1>4, <1>5 DEF PathTypes
<1>8. CountsAgree'
  <2>1. calls!Unanswered = 0 BY <1>6 DEF calls!Unanswered
  <2>2. code' # "gone" =>
          Len(Chain') = total_transactions' + submitted' + calls!Unanswered'
        BY <1>1, <1>2, <1>3, <1>4, <2>1 DEF CountsAgree, PathTypes
  <2>3. /\ relayed_count' = total_transactions' + Len(pending_items')
        /\ total_transactions' = Len(all_latencies')
        BY <1>1, <1>2, <1>4, <1>5 DEF CountsAgree, PathTypes
  <2>4. QED BY <1>1, <1>2, <2>2, <2>3 DEF CountsAgree
<1>9. PathPlaces' /\ CallsInv'
      BY <1>1, <1>2, <1>3, <1>6 DEF PathPlaces, CallsInv, Working
<1>10. InOrder(batch', Chain', pending_items', total_transactions')
      BY <1>1, <1>2, <1>3, <1>5 DEF InOrder
<1>11. PathDelivers
  <2>1. Outcome = "running" /\ Outcome' \in {"running", "done"} BY <1>1 DEF Outcome
  <2>2. QED BY <1>1, <1>3, <1>6, <2>1 DEF PathDelivers, Delivers
<1>12. QED BY <1>7, <1>8, <1>9, <1>10, <1>11 DEF PathInv

\* The loop over the readings ends.
LEMMA EndStep ==
  ASSUME PathInv, path!endOfReadings
  PROVE  PathInv' /\ PathDelivers
<1>1. /\ UNCHANGED <<device_count, transactions_per_device, read, submitted,
                     relayed_count, failed_count, total_transactions,
                     failed_verifications, batch, pending_items, all_latencies,
                     backend, code, bc, flight, tx_order, submitted_count,
                     block_number>>
      /\ read = path!ReadingCount
      /\ pc = "collect" /\ pc' = IF pending_items = <<>> THEN "done" ELSE "flush"
      BY DEF path!endOfReadings, path!configVars, path!chainVars, path!callVars,
         path!gatewayVars, path!nodeVars, path!loopVars, path!totalVars, path!AfterLoop
<1>2. CallsInv' BY <1>1 DEF PathInv, CallsInv, Working
<1>3. pc' = "done" => submitted = Len(pending_items)
  <2>1. SUFFICES ASSUME pending_items = <<>> PROVE submitted = Len(pending_items)
        BY <1>1
  <2>2. Len(pending_items) = 0 BY <2>1
  <2>3. QED BY <2>2 DEF PathInv, PathTypes
<1>4. Outcome = "running" /\ (Outcome' = "done" => pc' = "done") BY <1>1 DEF Outcome
<1>5. QED BY <1>1, <1>2, <1>3, <1>4, PathMoves

\* Nothing of it is changed.
LEMMA PathStutters ==
  ASSUME PathInv,
         UNCHANGED <<device_count, transactions_per_device, read, submitted,
                     relayed_count, failed_count, total_transactions,
                     failed_verifications, batch, pending_items, all_latencies,
                     backend, code, bc, flight, tx_order, submitted_count,
                     block_number, pc>>
  PROVE  PathInv' /\ PathDelivers
<1>1. CallsInv' BY DEF PathInv, CallsInv
<1>2. UNCHANGED Outcome BY DEF Outcome
<1>3. QED BY <1>1, <1>2, PathMoves DEF PathInv, PathPlaces

\* Every step of the path keeps its counts and delivers what it should.
LEMMA PathRuns == ASSUME PathInv, path!run PROVE PathInv' /\ PathDelivers
BY SetupStep, ReadStep, EndStep, SendItemStep, AnswerStep, FailStep, SimulateStep,
   BatchStep DEF path!run

LEMMA PathStep ==
  ASSUME PathInv, [path!Next]_(path!vars)
  PROVE  PathInv' /\ PathDelivers
<1>1. CASE UNCHANGED path!vars
  <2>1. UNCHANGED <<device_count, transactions_per_device, read, submitted,
                    relayed_count, failed_count, total_transactions,
                    failed_verifications, batch, pending_items, all_latencies,
                    backend, code, bc, flight, tx_order, submitted_count,
                    block_number, pc>>
        BY <1>1 DEF path!vars, path!configVars, path!chainVars, path!callVars,
           path!gatewayVars, path!nodeVars, path!loopVars, path!totalVars
  <2>2. QED BY <2>1, PathStutters
<1>2. QED BY <1>1, NodeStep, PathRuns DEF path!Next

\* The invariant says that the counts agree.
LEMMA PathSays == PathInv => path!TotalsMatchChain
<1> SUFFICES ASSUME PathInv PROVE path!TotalsMatchChain
    OBVIOUS
<1>1. ASSUME pc = "done"
      PROVE  /\ flight = "none"
             /\ path!Result.total_transactions + path!Result.failed_verifications
                  = path!ReadingCount
             /\ path!Result.latencies = path!Result.total_transactions
  <2>1. Len(pending_items) = 0 /\ read = path!ReadingCount /\ flight = "none"
        BY <1>1 DEF PathInv, PathPlaces
  <2>2. total_transactions + failed_verifications = read
        BY <2>1 DEF PathInv, CountsAgree, PathTypes
  <2>3. QED BY <2>1, <2>2 DEF path!Result, PathInv, CountsAgree
<1>2. path!Submitted = Chain /\ path!calls!Unanswered = calls!Unanswered
      /\ (path!calls!Intact <=> code # "gone")
      BY DEF path!Submitted, Chain, path!calls!Unanswered, calls!Unanswered,
         path!calls!Intact
<1>3. QED BY <1>1, <1>2 DEF PathInv, CountsAgree, path!TotalsMatchChain

\* The totals a relay path returns, the counters of its gateway and its relay
\* node and what is on the chain agree at every moment, for every number of
\* devices, readings and batch size: the chain is ahead by at most the one
\* submission whose receipt has not come or was lost, also when a submission
\* raises within a batch, sent or not, mined or not, as long as the node keeps
\* its chain (ComparisonRunner.run_relay_path).
THEOREM Totals == Spec => []TotalsMatchChain
<1> DEFINE I == program = "relay_path" => PathInv
<1>1. Init => I BY Started, PathInit
<1>2. I /\ [Next]_vars => I' BY OneProgram, PathStep
<1>3. I => TotalsMatchChain BY PathSays DEF TotalsMatchChain
<1>4. QED BY <1>1, <1>2, <1>3, PTL DEF Spec

-----------------------------------------------------------------------------
(* The comparison.                                                         *)

\* The relay path of a comparison is the relay path.
LEMMA SamePath ==
  /\ comparison!path!run => path!run
  /\ comparison!path!environment => path!environment
<1> USE DEF path!configVars, path!chainVars, path!callVars, path!gatewayVars,
            path!nodeVars, path!totalVars, path!loopVars, comparison!path!configVars,
            comparison!path!chainVars, comparison!path!callVars,
            comparison!path!gatewayVars, comparison!path!nodeVars,
            comparison!path!totalVars, comparison!path!loopVars
<1>1. comparison!path!createBlockchain => path!createBlockchain
      BY DEF comparison!path!createBlockchain, path!createBlockchain
<1>2. comparison!path!setupBackend("register") => path!setupBackend("register")
      BY DEF comparison!path!setupBackend, path!setupBackend,
         comparison!path!calls!deploy_contracts, path!calls!deploy_contracts
<1>3. comparison!path!registerDevice => path!registerDevice
      BY DEF comparison!path!registerDevice, path!registerDevice,
         comparison!path!MoreDevices, path!MoreDevices
<1>4. \A verified \in BOOLEAN :
        comparison!path!readDevice(verified) => path!readDevice(verified)
      BY DEF comparison!path!readDevice, path!readDevice, comparison!path!ReadingCount,
         path!ReadingCount, comparison!path!Full, path!Full,
         comparison!path!gateway!relay_data, path!gateway!relay_data
<1>5. comparison!path!endOfReadings => path!endOfReadings
      BY DEF comparison!path!endOfReadings, path!endOfReadings,
         comparison!path!ReadingCount, path!ReadingCount, comparison!path!AfterLoop,
         path!AfterLoop
<1>6. comparison!path!sendItem => path!sendItem
      BY DEF comparison!path!sendItem, path!sendItem, comparison!path!Submitting,
         path!Submitting, comparison!path!calls!send, path!calls!send
<1>7. comparison!path!answerItem => path!answerItem
      BY DEF comparison!path!answerItem, path!answerItem, comparison!path!Submitting,
         path!Submitting, comparison!path!calls!answer, path!calls!answer
<1>8. comparison!path!failItem => path!failItem
      BY DEF comparison!path!failItem, path!failItem, comparison!path!Submitting,
         path!Submitting
<1>9. comparison!path!simulateItem => path!simulateItem
      BY DEF comparison!path!simulateItem, path!simulateItem,
         comparison!path!Submitting, path!Submitting, comparison!path!CurrentItem,
         path!CurrentItem, comparison!path!relay!submit_verified_transaction,
         path!relay!submit_verified_transaction,
         comparison!path!relay!submit_meta_transaction,
         path!relay!submit_meta_transaction
<1>10. comparison!path!batchDone => path!batchDone
      BY DEF comparison!path!batchDone, path!batchDone, comparison!path!NextBatch,
         path!NextBatch, comparison!path!AfterBatch, path!AfterBatch
<1>11. comparison!path!environment => path!environment
      BY DEF comparison!path!environment, path!environment,
         comparison!path!calls!stop, path!calls!stop, comparison!path!calls!start,
         path!calls!start, comparison!path!calls!mine, path!calls!mine,
         comparison!path!calls!Stored, path!calls!Stored,
         comparison!path!CurrentItem, path!CurrentItem
<1>12. QED BY <1>1, <1>2, <1>3, <1>4, <1>5, <1>6, <1>7, <1>8, <1>9, <1>10, <1>11
       DEF comparison!path!run, path!run

\* It leaves its arguments alone.
LEMMA PathConfig == path!run => UNCHANGED <<device_count, transactions_per_device>>
BY DEF path!run, path!createBlockchain, path!setupBackend, path!registerDevice,
   path!readDevice, path!endOfReadings, path!sendItem, path!answerItem, path!failItem,
   path!simulateItem, path!batchDone, path!configVars

\* What a path that returned reports.
Report ==
  [total : Nat, failed : Nat, backend : Backend, stored : Nat, intact : BOOLEAN]

\* A direct path has submitted what it has read.
DirectInv ==
  /\ device_count \in Nat /\ transactions_per_device \in Nat /\ CallsInv
  /\ pc \in {"create", "deploy", "collect", "raised"}
  /\ read \in Nat /\ read <= path!ReadingCount /\ total_transactions = read
  /\ bc \in Seq(Nat) /\ tx_order \in Seq(Nat)
  /\ flight # "none" => pc \in {"collect", "raised"} /\ read < path!ReadingCount
  /\ pc = "create" => tx_order = <<>>
  /\ code # "gone" => Len(Chain) = read + calls!Unanswered

\* The rounds asked for: no round is one round.
RoundsDue == IF rounds = 0 THEN 1 ELSE rounds

\* Both sides take turns, and stop after the last round.
TurnsTaken ==
  /\ turn \in {"direct", "relay", "compare", "done"}
  /\ Len(relay_results) <= Len(direct_results)
  /\ turn = "direct" =>
       Len(direct_results) = Len(relay_results) /\ Len(direct_results) < RoundsDue
  /\ turn = "relay" =>
       Len(direct_results) = Len(relay_results) + 1 /\ Len(direct_results) <= RoundsDue
  /\ turn \in {"compare", "done"} =>
       Len(direct_results) = Len(relay_results) /\ Len(direct_results) = RoundsDue

\* The path in progress.
PathOfTurn ==
  /\ turn = "direct" => DirectInv
  /\ turn = "relay" => PathInv

\* A comparison compares two sides that are complete.
ComparisonInv ==
  /\ rounds \in Nat /\ device_count \in Nat /\ transactions_per_device \in Nat
  /\ direct_results \in Seq(Report) /\ relay_results \in Seq(Report)
  /\ TurnsTaken /\ PathOfTurn /\ comparison!SidesComplete

\* The readings of a path can be counted.
LEMMA ReadingCountIsNat ==
  device_count \in Nat /\ transactions_per_device \in Nat => path!ReadingCount \in Nat
BY DEF path!ReadingCount

LEMMA FreshDirect ==
  device_count \in Nat /\ transactions_per_device \in Nat /\ Fresh => DirectInv
<1> SUFFICES ASSUME device_count \in Nat, transactions_per_device \in Nat, Fresh
             PROVE  DirectInv
    OBVIOUS
<1> USE DEF Fresh
<1>1. Chain = <<>> /\ calls!Unanswered = 0 BY DEF Chain, calls!Unanswered
<1>2. path!ReadingCount \in Nat BY ReadingCountIsNat
<1>3. CallsInv BY DEF CallsInv, Backend, Working
<1>4. QED BY <1>1, <1>2, <1>3, EmptySeq DEF DirectInv

\* A run begins with nothing to compare.
LEMMA ComparisonInit == comparison!Init => ComparisonInv
<1> SUFFICES ASSUME comparison!Init PROVE ComparisonInv
    OBVIOUS
<1>1. /\ rounds \in Nat /\ device_count \in Nat /\ transactions_per_device \in Nat
      /\ direct_results = <<>> /\ relay_results = <<>> /\ turn = "direct"
      /\ Fresh
      BY ParameterAssumption DEF comparison!Init, comparison!path!Init,
         comparison!path!calls!Init, comparison!path!gateway!Init,
         comparison!path!relay!Init, Fresh
<1>2. direct_results \in Seq(Report) /\ relay_results \in Seq(Report)
      BY <1>1, EmptySeq
<1>3. Len(direct_results) = 0 /\ Len(relay_results) = 0
      /\ DOMAIN relay_results = {} /\ DOMAIN direct_results = {}
      BY <1>1
<1>4. TurnsTaken BY <1>1, <1>3 DEF TurnsTaken, RoundsDue
<1>5. PathOfTurn BY <1>1, FreshDirect DEF PathOfTurn
<1>6. comparison!SidesComplete BY <1>1, <1>3 DEF comparison!SidesComplete
<1>7. QED BY <1>1, <1>2, <1>4, <1>5, <1>6 DEF ComparisonInv

\* A step within a path leaves the rounds alone.
LEMMA WithinPath ==
  ASSUME ComparisonInv,
         UNCHANGED <<rounds, turn, direct_results, relay_results, result,
                     device_count, transactions_per_device>>,
         turn = "direct" => DirectInv', turn = "relay" => PathInv'
  PROVE  ComparisonInv'
<1>1. TurnsTaken' BY DEF ComparisonInv, TurnsTaken, RoundsDue
<1>2. PathOfTurn' BY DEF PathOfTurn
<1>3. UNCHANGED comparison!path!ReadingCount BY DEF comparison!path!ReadingCount
<1>4. comparison!SidesComplete'
      BY <1>3 DEF ComparisonInv, comparison!SidesComplete, comparison!Complete,
         comparison!LastOf
<1>5. QED BY <1>1, <1>2, <1>4 DEF ComparisonInv

\* A direct path gets its blockchain, and deploys.
LEMMA DirectSetup ==
  ASSUME DirectInv, comparison!createDirect \/ comparison!setupDirect
  PROVE  DirectInv'
<1>1. /\ UNCHANGED <<device_count, transactions_per_device, read, total_transactions,
                     bc, flight, tx_order>>
      /\ \/ /\ pc = "create" /\ UNCHANGED code
            /\ \/ backend' = "hardhat" /\ pc' = "deploy"
               \/ backend' = "simulated" /\ pc' = "collect"
         \/ pc = "deploy" /\ pc' = "collect" /\ code' = "there" /\ UNCHANGED backend
         \/ pc = "deploy" /\ pc' = "raised" /\ UNCHANGED <<backend, code>>
      BY DEF comparison!createDirect, comparison!setupDirect,
         comparison!path!createBlockchain, comparison!path!setupBackend,
         comparison!path!calls!deploy_contracts, comparison!path!configVars,
         comparison!path!chainVars, comparison!path!callVars,
         comparison!path!nodeVars, comparison!path!loopVars, comparison!path!totalVars
<1>2. CallsInv' BY <1>1 DEF DirectInv, CallsInv, Backend, Working
<1>3. UNCHANGED path!ReadingCount BY <1>1 DEF path!ReadingCount
<1>4. bc = <<>> /\ code = "none" /\ flight = "none"
      BY <1>1 DEF DirectInv, CallsInv
<1>5. Len(Chain') = read' + calls!Unanswered'
  <2>1. Len(Chain) = read + calls!Unanswered BY <1>4 DEF DirectInv
  <2>2. UNCHANGED <<Chain, calls!Unanswered>>
        BY <1>1, <1>4 DEF DirectInv, CallsInv, Chain, calls!Unanswered
  <2>3. QED BY <1>1, <2>1, <2>2
<1>6. QED BY <1>1, <1>2, <1>3, <1>4, <1>5 DEF DirectInv

\* A direct submission is sent, or raises.
LEMMA DirectSends ==
  ASSUME DirectInv, comparison!sendDirect \/ comparison!failDirect
  PROVE  DirectInv'
<1>1. /\ UNCHANGED <<device_count, transactions_per_device, backend, code, bc,
                     tx_order, read, total_transactions>>
      /\ backend = "hardhat" /\ pc = "collect" /\ read < path!ReadingCount
      /\ \/ flight = "none" /\ flight' = "sent" /\ UNCHANGED pc
         \/ pc' = "raised" /\ UNCHANGED flight
      BY DEF comparison!sendDirect, comparison!failDirect, comparison!Submitting,
         comparison!MoreReadings, comparison!path!ReadingCount, path!ReadingCount,
         comparison!calls!send, comparison!configVars, comparison!callVars,
         comparison!simulationVars, comparison!relayVars, comparison!countVars
<1>2. CallsInv' BY <1>1 DEF DirectInv, CallsInv, Working
<1>3. UNCHANGED <<path!ReadingCount, Chain, calls!Unanswered>>
      BY <1>1 DEF path!ReadingCount, Chain, calls!Unanswered
<1>4. QED BY <1>1, <1>2, <1>3 DEF DirectInv

\* It is answered, and counted.
LEMMA DirectAnswered ==
  ASSUME DirectInv, comparison!answerDirect
  PROVE  DirectInv'
<1>1. /\ UNCHANGED <<device_count, transactions_per_device, backend, code, bc,
                     tx_order, pc>>
      /\ pc = "collect" /\ read < path!ReadingCount
      /\ flight = "mined" /\ flight' = "none"
      /\ read' = read + 1 /\ total_transactions' = total_transactions + 1
      BY DEF comparison!answerDirect, comparison!Submitting, comparison!Counted,
         comparison!MoreReadings, comparison!path!ReadingCount, path!ReadingCount,
         comparison!calls!answer, comparison!configVars, comparison!simulationVars,
         comparison!relayVars
<1>2. CallsInv' BY <1>1 DEF DirectInv, CallsInv, Working
<1>3. UNCHANGED <<path!ReadingCount, Chain>> BY <1>1 DEF path!ReadingCount, Chain
<1>4. path!ReadingCount \in Nat /\ read \in Nat
      BY ReadingCountIsNat DEF DirectInv
<1>5. calls!Unanswered = 1 /\ calls!Unanswered' = 0 BY <1>1 DEF calls!Unanswered
<1>6. read' \in Nat /\ read' <= path!ReadingCount' /\ total_transactions' = read'
      BY <1>1, <1>3, <1>4 DEF DirectInv
<1>7. code' # "gone" => Len(Chain') = read' + calls!Unanswered'
      BY <1>1, <1>3, <1>4, <1>5 DEF DirectInv
<1>8. QED BY <1>1, <1>2, <1>6, <1>7 DEF DirectInv

\* On the simulation it is stored at once.
LEMMA DirectSimulated ==
  ASSUME DirectInv, comparison!simulateDirect
  PROVE  DirectInv'
<1>1. /\ UNCHANGED <<device_count, transactions_per_device, backend, code, bc, flight,
                     pc>>
      /\ backend = "simulated" /\ pc = "collect" /\ read < path!ReadingCount
      /\ tx_order' = Append(tx_order, read + 1)
      /\ read' = read + 1 /\ total_transactions' = total_transactions + 1
      BY DEF comparison!simulateDirect, comparison!Submitting, comparison!Counted,
         comparison!MoreReadings, comparison!path!ReadingCount, path!ReadingCount,
         comparison!simulation!submit_meta_transaction, comparison!configVars,
         comparison!callVars, comparison!relayVars
<1>2. CallsInv' BY <1>1 DEF DirectInv, CallsInv, Working
<1>3. UNCHANGED path!ReadingCount BY <1>1 DEF path!ReadingCount
<1>4. path!ReadingCount \in Nat /\ read \in Nat /\ read + 1 \in Nat
      BY ReadingCountIsNat DEF DirectInv
<1>5. code = "none" /\ flight = "none" BY <1>1 DEF DirectInv, CallsInv
<1>6. /\ Append(tx_order, read + 1) \in Seq(Nat)
      /\ Len(Append(tx_order, read + 1)) = Len(tx_order) + 1
      BY <1>4, AppendProperties DEF DirectInv
<1>7. Len(Chain') = read' + calls!Unanswered'
  <2>1. calls!Unanswered = 0 /\ calls!Unanswered' = 0
        BY <1>1, <1>5 DEF calls!Unanswered
  <2>2. Chain = tx_order /\ Chain' = tx_order' BY <1>1 DEF Chain
  <2>3. Len(tx_order) = read BY <1>4, <1>5, <2>1, <2>2 DEF DirectInv
  <2>4. QED BY <1>1, <1>4, <1>6, <2>1, <2>2, <2>3
<1>8. read' \in Nat /\ read' <= path!ReadingCount' /\ total_transactions' = read'
      BY <1>1, <1>3, <1>4 DEF DirectInv
<1>9. QED BY <1>1, <1>2, <1>5, <1>6, <1>7, <1>8 DEF DirectInv

\* The node stops, starts, or mines what was sent.
LEMMA DirectNode ==
  ASSUME DirectInv,
         UNCHANGED <<device_count, transactions_per_device, backend, tx_order, pc,
                     read, total_transactions>>,
         calls!stop \/ calls!start \/ calls!mine(read + 1)
  PROVE  DirectInv'
<1>1. CallsInv'
  <2>1. PICK item : item = read + 1 OBVIOUS
  <2>2. calls!stop \/ calls!start \/ calls!mine(item) BY <2>1
  <2>3. QED BY <2>2, NodeKeeps DEF DirectInv
<1>2. UNCHANGED path!ReadingCount BY DEF path!ReadingCount
<1>3. read \in Nat /\ read + 1 \in Nat /\ bc \in Seq(Nat) BY DEF DirectInv
<1>4. /\ Append(bc, read + 1) \in Seq(Nat)
      /\ Len(Append(bc, read + 1)) = Len(bc) + 1
      BY <1>3, AppendProperties
<1>5. bc' \in Seq(Nat)
      BY <1>3, <1>4, EmptySeq DEF calls!stop, calls!start, calls!mine, calls!Stored
<1>6. flight' # "none" => flight # "none"
      BY DEF calls!stop, calls!start, calls!mine
<1>7. ASSUME code' # "gone" PROVE Len(Chain') = read' + calls!Unanswered'
  <2>1. CASE calls!mine(read + 1)
    <3>1. /\ flight = "sent" /\ flight' = "mined" /\ code = "there"
          /\ backend = "hardhat" /\ bc' = Append(bc, read + 1)
          BY <1>7, <2>1 DEF calls!mine, calls!Stored, DirectInv, CallsInv
    <3>2. calls!Unanswered = 0 /\ calls!Unanswered' = 1
          BY <3>1 DEF calls!Unanswered
    <3>3. Chain = bc /\ Chain' = bc' BY <3>1 DEF Chain
    <3>4. QED BY <1>3, <1>4, <3>1, <3>2, <3>3 DEF DirectInv
  <2>2. CASE ~calls!mine(read + 1)
    <3>1. UNCHANGED <<code, flight, bc>>
          BY <1>7, <2>2 DEF calls!stop, calls!start, DirectInv, CallsInv
    <3>2. UNCHANGED <<Chain, calls!Unanswered>>
          BY <3>1 DEF Chain, calls!Unanswered
    <3>3. QED BY <1>7, <3>1, <3>2 DEF DirectInv
  <2>3. QED BY <2>1, <2>2
<1>8. QED BY <1>1, <1>2, <1>5, <1>6, <1>7 DEF DirectInv

\* A side that ended is complete.
LEMMA DirectEnds ==
  ASSUME DirectInv, pc = "collect", ~comparison!MoreReadings
  PROVE  /\ comparison!Side(0) \in Report /\ comparison!Side(0).failed = 0
         /\ comparison!Complete(comparison!Side(0))
<1>1. /\ read = path!ReadingCount /\ read \in Nat /\ total_transactions = read
      /\ path!ReadingCount = comparison!path!ReadingCount
      BY ReadingCountIsNat
      DEF DirectInv, comparison!MoreReadings, comparison!path!ReadingCount,
         path!ReadingCount
<1>2. calls!Unanswered = 0 BY <1>1 DEF DirectInv, calls!Unanswered
<1>3. comparison!path!Submitted = Chain /\ Chain \in Seq(Nat)
      BY DEF comparison!path!Submitted, Chain, DirectInv
<1>4. Len(Chain) \in Nat BY <1>3, LenProperties
<1>5. code # "gone" => Len(Chain) = total_transactions BY <1>1, <1>2 DEF DirectInv
<1>6. comparison!calls!Intact \in BOOLEAN /\ (comparison!calls!Intact => code # "gone")
      BY DEF comparison!calls!Intact
<1>7. backend \in Backend BY DEF DirectInv, CallsInv
<1>8. QED
      BY <1>1, <1>3, <1>4, <1>5, <1>6, <1>7
      DEF comparison!Side, comparison!Complete, Report

LEMMA RelayEnds ==
  ASSUME PathInv, pc = "done"
  PROVE  /\ comparison!Side(failed_verifications) \in Report
         /\ comparison!Complete(comparison!Side(failed_verifications))
<1>1. /\ total_transactions + failed_verifications = path!ReadingCount
      /\ flight = "none"
      BY PathSays DEF path!TotalsMatchChain, path!Result
<1>2. /\ total_transactions \in Nat /\ failed_verifications \in Nat
      /\ backend \in Backend /\ submitted = 0
      /\ path!ReadingCount = comparison!path!ReadingCount
  <2>1. Len(pending_items) = 0 BY DEF PathInv, PathPlaces
  <2>2. QED BY <2>1 DEF PathInv, PathTypes, CallsInv, comparison!path!ReadingCount,
            path!ReadingCount
<1>3. calls!Unanswered = 0 BY <1>1 DEF calls!Unanswered
<1>4. comparison!path!Submitted = Chain BY DEF comparison!path!Submitted, Chain
<1>5. Len(Chain) \in Nat BY ChainShorter
<1>6. code # "gone" => Len(Chain) = total_transactions
      BY <1>2, <1>3 DEF PathInv, CountsAgree
<1>7. comparison!calls!Intact \in BOOLEAN /\ (comparison!calls!Intact => code # "gone")
      BY DEF comparison!calls!Intact
<1>8. QED
      BY <1>1, <1>2, <1>4, <1>5, <1>6, <1>7
      DEF comparison!Side, comparison!Complete, Report

\* The next path begins like the first.
LEMMA NextBegins ==
  ASSUME device_count \in Nat, transactions_per_device \in Nat, comparison!NextPath
  PROVE  DirectInv' /\ PathInv'
<1>1. Fresh' /\ UNCHANGED <<device_count, transactions_per_device>>
      BY DEF comparison!NextPath, comparison!configVars, Fresh
<1>2. (Fresh => PathInv)' BY FreshPath, PTL
<1>3. (device_count \in Nat /\ transactions_per_device \in Nat /\ Fresh => DirectInv)'
      BY FreshDirect, PTL
<1>4. QED BY <1>1, <1>2, <1>3

\* A side is added to those of its path.
LEMMA SideAdded ==
  ASSUME NEW sides \in Seq(Report), NEW side \in Report
  PROVE  /\ Append(sides, side) \in Seq(Report)
         /\ Len(Append(sides, side)) = Len(sides) + 1 /\ Len(sides) \in Nat
         /\ \A k \in DOMAIN Append(sides, side) :
              \/ k \in DOMAIN sides /\ Append(sides, side)[k] = sides[k]
              \/ Append(sides, side)[k] = side
<1>1. /\ Append(sides, side) \in Seq(Report)
      /\ Len(Append(sides, side)) = Len(sides) + 1
      /\ \A k \in 1 .. Len(sides) : Append(sides, side)[k] = sides[k]
      /\ Append(sides, side)[Len(sides) + 1] = side
      BY AppendProperties
<1>2. Len(sides) \in Nat /\ DOMAIN sides = 1 .. Len(sides) BY LenProperties
<1>3. DOMAIN Append(sides, side) = 1 .. Len(sides) + 1
      BY <1>1, LenProperties
<1>4. QED BY <1>1, <1>2, <1>3

\* A path returns.
LEMMA DirectReturns ==
  ASSUME ComparisonInv, comparison!endDirect
  PROVE  ComparisonInv'
<1>1. /\ turn = "direct" /\ turn' = "relay" /\ comparison!NextPath
      /\ direct_results' = Append(direct_results, comparison!Side(0))
      /\ UNCHANGED <<rounds, relay_results, result, device_count,
                     transactions_per_device>>
      BY DEF comparison!endDirect, comparison!NextPath, comparison!configVars
<1>2. DirectInv /\ direct_results \in Seq(Report)
      BY <1>1 DEF ComparisonInv, PathOfTurn
<1>3. /\ comparison!Side(0) \in Report /\ comparison!Side(0).failed = 0
      /\ comparison!Complete(comparison!Side(0))
      BY <1>2, DirectEnds DEF comparison!endDirect
<1>4. PICK side : side = comparison!Side(0) OBVIOUS
<1>5. /\ direct_results' \in Seq(Report)
      /\ Len(direct_results') = Len(direct_results) + 1 /\ Len(direct_results) \in Nat
      /\ \A k \in DOMAIN direct_results' :
           \/ k \in DOMAIN direct_results /\ direct_results'[k] = direct_results[k]
           \/ direct_results'[k] = side
      BY <1>1, <1>2, <1>3, <1>4, SideAdded
<1>6. PathOfTurn'
      BY <1>1, NextBegins DEF ComparisonInv, PathOfTurn
<1>7. TurnsTaken'
      BY <1>1, <1>5 DEF ComparisonInv, TurnsTaken, RoundsDue
<1>8. UNCHANGED comparison!path!ReadingCount BY <1>1 DEF comparison!path!ReadingCount
<1>9. comparison!SidesComplete'
  <2>1. \A k \in DOMAIN direct_results' :
          comparison!Complete(direct_results'[k]) /\ direct_results'[k].failed = 0
        BY <1>3, <1>4, <1>5 DEF ComparisonInv, comparison!SidesComplete
  <2>2. QED BY <1>1, <1>8, <2>1
            DEF ComparisonInv, comparison!SidesComplete, comparison!Complete
<1>10. QED BY <1>1, <1>5, <1>6, <1>7, <1>9 DEF ComparisonInv

LEMMA RelayReturns ==
  ASSUME ComparisonInv, comparison!endRelay
  PROVE  ComparisonInv'
<1>1. /\ turn = "relay" /\ comparison!NextPath
      /\ turn' = IF Len(direct_results) < rounds THEN "direct" ELSE "compare"
      /\ relay_results' = Append(relay_results, comparison!Side(failed_verifications))
      /\ UNCHANGED <<rounds, direct_results, result, device_count,
                     transactions_per_device>>
      BY DEF comparison!endRelay, comparison!NextPath, comparison!configVars,
         comparison!MoreRounds
<1>2. PathInv /\ relay_results \in Seq(Report)
      BY <1>1 DEF ComparisonInv, PathOfTurn
<1>3. /\ comparison!Side(failed_verifications) \in Report
      /\ comparison!Complete(comparison!Side(failed_verifications))
      BY <1>2, RelayEnds DEF comparison!endRelay
<1>4. PICK side : side = comparison!Side(failed_verifications) OBVIOUS
<1>5. /\ relay_results' \in Seq(Report)
      /\ Len(relay_results') = Len(relay_results) + 1 /\ Len(relay_results) \in Nat
      /\ \A k \in DOMAIN relay_results' :
           \/ k \in DOMAIN relay_results /\ relay_results'[k] = relay_results[k]
           \/ relay_results'[k] = side
      BY <1>1, <1>2, <1>3, <1>4, SideAdded
<1>6. PathOfTurn'
      BY <1>1, NextBegins DEF ComparisonInv, PathOfTurn
<1>7. TurnsTaken'
  <2>1. Len(direct_results) \in Nat /\ rounds \in Nat
        BY LenProperties DEF ComparisonInv
  <2>2. QED BY <1>1, <1>5, <2>1 DEF ComparisonInv, TurnsTaken, RoundsDue
<1>8. UNCHANGED comparison!path!ReadingCount BY <1>1 DEF comparison!path!ReadingCount
<1>9. comparison!SidesComplete'
  <2>1. \A k \in DOMAIN relay_results' : comparison!Complete(relay_results'[k])
        BY <1>3, <1>4, <1>5 DEF ComparisonInv, comparison!SidesComplete
  <2>2. QED BY <1>1, <1>8, <2>1
            DEF ComparisonInv, comparison!SidesComplete, comparison!Complete
<1>10. QED BY <1>1, <1>5, <1>6, <1>7, <1>9 DEF ComparisonInv

\* The comparison.
LEMMA Compares ==
  ASSUME ComparisonInv, comparison!compare
  PROVE  ComparisonInv'
<1>1. /\ turn = "compare" /\ turn' = "done"
      /\ result'.direct = comparison!LastOf(direct_results)
      /\ result'.relay = comparison!LastOf(relay_results)
      /\ result'.rounds = IF rounds <= 1 THEN 1 ELSE Len(direct_results)
      /\ UNCHANGED <<rounds, direct_results, relay_results, device_count,
                     transactions_per_device>>
      BY DEF comparison!compare, comparison!pathVars, comparison!configVars
<1>2. rounds \in Nat /\ Len(direct_results) = RoundsDue
      /\ Len(relay_results) = Len(direct_results)
      BY <1>1 DEF ComparisonInv, TurnsTaken
<1>3. TurnsTaken' /\ PathOfTurn'
      BY <1>1, <1>2 DEF ComparisonInv, TurnsTaken, PathOfTurn, RoundsDue
<1>4. UNCHANGED comparison!path!ReadingCount BY <1>1 DEF comparison!path!ReadingCount
<1>5. result'.rounds = Len(direct_results') BY <1>1, <1>2 DEF RoundsDue
<1>6. comparison!SidesComplete'
      BY <1>1, <1>2, <1>4, <1>5
      DEF ComparisonInv, comparison!SidesComplete, comparison!Complete, RoundsDue,
         comparison!LastOf
<1>7. QED BY <1>1, <1>3, <1>6 DEF ComparisonInv

\* Every step of a comparison.
LEMMA ComparisonStep ==
  ASSUME ComparisonInv, [comparison!Next]_(comparison!vars)
  PROVE  ComparisonInv'
<1>1. PathOfTurn BY DEF ComparisonInv
<1>2. ASSUME turn = "direct",
             comparison!createDirect \/ comparison!setupDirect
               \/ comparison!sendDirect \/ comparison!failDirect
               \/ comparison!answerDirect \/ comparison!simulateDirect
      PROVE  ComparisonInv'
  <2>1. DirectInv' BY <1>1, <1>2, DirectSetup, DirectSends, DirectAnswered, DirectSimulated
            DEF PathOfTurn
  <2>2. UNCHANGED <<rounds, turn, direct_results, relay_results, result,
                    device_count, transactions_per_device>>
        BY <1>2 DEF comparison!createDirect, comparison!setupDirect,
           comparison!path!createBlockchain, comparison!path!setupBackend,
           comparison!path!configVars, comparison!sendDirect,
           comparison!failDirect, comparison!answerDirect, comparison!simulateDirect,
           comparison!configVars, comparison!runVars
  <2>3. QED BY <1>2, <2>1, <2>2, WithinPath
<1>3. CASE comparison!stepRelay
  <2>1. turn = "relay" /\ comparison!path!run
        /\ UNCHANGED <<rounds, turn, direct_results, relay_results, result>>
        BY <1>3 DEF comparison!stepRelay, comparison!runVars
  <2>2. PathInv' BY <1>1, <2>1, SamePath, PathRuns DEF PathOfTurn
  <2>3. UNCHANGED <<device_count, transactions_per_device>>
        BY <2>1, SamePath, PathConfig
  <2>4. QED BY <2>1, <2>2, <2>3, WithinPath
<1>4. CASE comparison!environment
  <2>1. UNCHANGED <<rounds, turn, direct_results, relay_results, result>>
        BY <1>4 DEF comparison!environment, comparison!runVars
  <2>2. CASE turn = "relay" /\ comparison!path!environment
    <3>1. PathInv' BY <1>1, <2>2, SamePath, NodeStep DEF PathOfTurn
    <3>2. UNCHANGED <<device_count, transactions_per_device>>
          BY <2>2 DEF comparison!path!environment, comparison!path!configVars
    <3>3. QED BY <2>1, <2>2, <3>1, <3>2, WithinPath
  <2>3. CASE /\ turn # "relay"
             /\ comparison!calls!stop \/ comparison!calls!start
                  \/ comparison!calls!mine(read + 1)
             /\ UNCHANGED <<comparison!configVars, comparison!simulationVars,
                            comparison!relayVars, comparison!countVars, pc>>
    <3>1. UNCHANGED <<device_count, transactions_per_device, backend, tx_order, pc,
                      read, total_transactions>>
          BY <2>3 DEF comparison!configVars, comparison!simulationVars,
             comparison!relayVars, comparison!countVars
    <3>2. calls!stop \/ calls!start \/ calls!mine(read + 1)
          BY <2>3 DEF comparison!calls!stop, comparison!calls!start,
             comparison!calls!mine, comparison!calls!Stored, calls!stop, calls!start,
             calls!mine, calls!Stored
    <3>3. turn = "direct" => DirectInv' BY <1>1, <3>1, <3>2, DirectNode DEF PathOfTurn
    <3>4. QED BY <2>1, <2>3, <3>1, <3>3, WithinPath
  <2>4. QED BY <1>4, <2>2, <2>3 DEF comparison!environment
<1>5. CASE UNCHANGED comparison!vars
  <2>1. UNCHANGED <<rounds, turn, direct_results, relay_results, result>>
        /\ UNCHANGED <<device_count, transactions_per_device, read, submitted,
                       relayed_count, failed_count, total_transactions,
                       failed_verifications, batch, pending_items, all_latencies,
                       backend, code, bc, flight, tx_order, submitted_count,
                       block_number, pc>>
        BY <1>5 DEF comparison!vars, comparison!pathVars, comparison!configVars,
           comparison!callVars, comparison!simulationVars, comparison!relayVars,
           comparison!gatewayVars, comparison!countVars, comparison!runVars
  <2>2. turn = "relay" => PathInv' BY <1>1, <2>1, PathStutters DEF PathOfTurn
  <2>3. turn = "direct" => DirectInv'
    <3>1. CallsInv => CallsInv' BY <2>1 DEF CallsInv
    <3>2. UNCHANGED <<Chain, path!ReadingCount, calls!Unanswered>>
          BY <2>1 DEF Chain, path!ReadingCount, calls!Unanswered
    <3>3. QED BY <1>1, <2>1, <3>1, <3>2 DEF PathOfTurn, DirectInv
  <2>4. QED BY <2>1, <2>2, <2>3, WithinPath
<1>6. QED
  <2>1. /\ comparison!createDirect \/ comparison!setupDirect
             \/ comparison!sendDirect \/ comparison!failDirect
             \/ comparison!answerDirect \/ comparison!simulateDirect
           => turn = "direct"
        BY DEF comparison!createDirect, comparison!setupDirect, comparison!sendDirect,
           comparison!failDirect, comparison!answerDirect, comparison!simulateDirect,
           comparison!Submitting
  <2>2. QED BY <1>2, <1>3, <1>4, <1>5, <2>1, DirectReturns, RelayReturns, Compares
            DEF comparison!Next, comparison!run

\* The two sides a comparison is between are those of its last round, one round
\* of each path was made for every round asked for, and each side accounts for
\* every reading and has on its chain what it counted, for every number of
\* devices, readings and rounds and whatever the node did, unless it was
\* restarted under that side (ComparisonRunner.run_comparison).
THEOREM Comparison == Spec => []SidesComplete
<1> DEFINE I == program = "comparison" => ComparisonInv
<1>1. Init => I BY Started, ComparisonInit
<1>2. I /\ [Next]_vars => I' BY OneProgram, ComparisonStep
<1>3. I => SidesComplete BY DEF SidesComplete, ComparisonInv
<1>4. QED BY <1>1, <1>2, <1>3, PTL DEF Spec

-----------------------------------------------------------------------------
(* The gas comparison.                                                     *)

\* What a comparison has measured so far.  Its registry was deployed to a node
\* that answered; while that node answers no other one does, and the relay is
\* there, too.
MeasuredSoFar ==
  /\ pc = "idle" /\ answer = "compared" => registry \in hardhat!Process
  /\ pc \in {"preparing", "comparing"} =>
       registry \in hardhat!Process /\ state[registry] \in {"serving", "gone"}
  /\ pc = "preparing" => toMeasure = asked /\ measured = [stored |-> 0, empty |-> 0]
  /\ pc = "comparing" =>
       /\ state[registry] = "serving" => contracts.relay = registry
       /\ toMeasure + measured.stored + measured.empty = asked
       /\ measured.empty > 0 => state[registry] = "gone"

\* One process at most has the port.
HardhatInv ==
  /\ state \in [hardhat!Process -> {"none", "starting", "serving", "gone"}]
  /\ \A p, q \in hardhat!Serving : p = q
  /\ asked \in Nat /\ toMeasure \in Nat /\ measured \in [stored : Nat, empty : Nat]
  /\ MeasuredSoFar /\ hardhat!MeasuresItsContracts

LEMMA HardhatInit == hardhat!Init => HardhatInv
<1> SUFFICES ASSUME hardhat!Init PROVE HardhatInv
    OBVIOUS
<1>1. state = [p \in hardhat!Process |-> "none"] /\ pc = "idle" /\ answer = "none"
      /\ asked = 0 /\ toMeasure = 0 /\ measured = [stored |-> 0, empty |-> 0]
      BY DEF hardhat!Init
<1>2. hardhat!Serving = {} BY <1>1 DEF hardhat!Serving
<1>3. QED
      BY <1>1, <1>2 DEF HardhatInv, MeasuredSoFar, hardhat!MeasuresItsContracts

\* Processes come and go: the port is taken by one that finds it free.
LEMMA ProcessStep ==
  ASSUME HardhatInv, NEW p \in hardhat!Process,
         hardhat!startOther(p) \/ hardhat!comeUp(p) \/ hardhat!crash(p)
  PROVE  HardhatInv'
<1>1. /\ UNCHANGED <<contracts, pc, registry, asked, toMeasure, measured, answer>>
      /\ \/ state[p] = "none" /\ state' = [state EXCEPT ![p] = "starting"]
         \/ /\ state[p] = "starting" /\ hardhat!Serving = {}
            /\ state' = [state EXCEPT ![p] = "serving"]
         \/ /\ state[p] \in {"starting", "serving"}
            /\ state' = [state EXCEPT ![p] = "gone"]
      BY DEF hardhat!startOther, hardhat!comeUp, hardhat!crash, hardhat!measureVars
<1>2. state \in [hardhat!Process -> {"none", "starting", "serving", "gone"}]
      BY DEF HardhatInv
<1>3. /\ state' \in [hardhat!Process -> {"none", "starting", "serving", "gone"}]
      /\ \/ hardhat!Serving' \subseteq hardhat!Serving
         \/ hardhat!Serving = {} /\ hardhat!Serving' \subseteq {p}
      BY <1>1, <1>2 DEF hardhat!Serving
<1>4. \A q \in hardhat!Process :
        /\ state[q] = "gone" => state'[q] = "gone"
        /\ state[q] = "serving" => state'[q] \in {"serving", "gone"}
      BY <1>1, <1>2
<1>5. \A q, r \in hardhat!Serving' : q = r BY <1>3 DEF HardhatInv
<1>6. MeasuredSoFar'
  <2>1. CASE pc \in {"preparing", "comparing"}
    <3>1. registry \in hardhat!Process /\ state[registry] \in {"serving", "gone"}
          BY <2>1 DEF HardhatInv, MeasuredSoFar
    <3>2. QED BY <1>1, <1>4, <3>1 DEF HardhatInv, MeasuredSoFar
  <2>2. CASE pc \notin {"preparing", "comparing"}
        BY <1>1, <2>2 DEF HardhatInv, MeasuredSoFar
  <2>3. QED BY <2>1, <2>2
<1>7. hardhat!MeasuresItsContracts'
  <2>1. CASE pc = "comparing" \/ (pc = "idle" /\ answer = "compared")
    <3>1. registry \in hardhat!Process BY <2>1 DEF HardhatInv, MeasuredSoFar
    <3>2. state[registry] = "gone" => state'[registry] = "gone" BY <1>4, <3>1
    <3>3. QED BY <1>1, <3>2 DEF HardhatInv, hardhat!MeasuresItsContracts
  <2>2. CASE ~(pc = "comparing" \/ (pc = "idle" /\ answer = "compared"))
        BY <1>1, <2>2 DEF hardhat!MeasuresItsContracts
  <2>3. QED BY <2>1, <2>2
<1>8. QED BY <1>1, <1>3, <1>5, <1>6, <1>7 DEF HardhatInv

\* The calls of HardhatRunner that measure nothing.
LEMMA OtherCall ==
  ASSUME HardhatInv,
         hardhat!start_hardhat \/ hardhat!stop_hardhat \/ hardhat!beginDeployment
           \/ hardhat!submit_relay_transaction \/ hardhat!refuse \/ hardhat!poll
           \/ (hardhat!deployRelay /\ pc = "deploying") \/ hardhat!fail
  PROVE  HardhatInv'
<1>1. /\ UNCHANGED <<asked, toMeasure, measured>>
      /\ pc' \in {"idle", "polling", "deploying"}
      /\ pc' = "idle" => answer' # "compared"
      /\ \/ UNCHANGED state
         \/ \E p : state' = [state EXCEPT ![p] = "starting"]
         \/ \E p : state' = [state EXCEPT ![p] = "gone"]
      BY DEF hardhat!start_hardhat, hardhat!stop_hardhat, hardhat!Terminate,
         hardhat!beginDeployment, hardhat!submit_relay_transaction, hardhat!refuse,
         hardhat!poll, hardhat!deployRelay, hardhat!fail, hardhat!GiveUp,
         hardhat!processVars, hardhat!measureVars
<1>2. state \in [hardhat!Process -> {"none", "starting", "serving", "gone"}]
      BY DEF HardhatInv
<1>3. /\ state' \in [hardhat!Process -> {"none", "starting", "serving", "gone"}]
      /\ hardhat!Serving' \subseteq hardhat!Serving
      BY <1>1, <1>2 DEF hardhat!Serving
<1>4. MeasuredSoFar' /\ hardhat!MeasuresItsContracts'
      BY <1>1 DEF MeasuredSoFar, hardhat!MeasuresItsContracts
<1>5. QED BY <1>1, <1>3, <1>4 DEF HardhatInv

\* A comparison deploys its contracts, both to the node that answers, if it is
\* still the same one.
LEMMA PrepareStep ==
  ASSUME HardhatInv,
         \/ \E k \in 0 .. MaxTransactions : hardhat!beginComparison(k)
         \/ hardhat!deployRelay /\ pc = "preparing"
  PROVE  HardhatInv'
<1>1. UNCHANGED state
      BY DEF hardhat!beginComparison, hardhat!deployRelay, hardhat!processVars
<1>2. UNCHANGED hardhat!Serving BY <1>1 DEF hardhat!Serving
<1>3. CASE \E k \in 0 .. MaxTransactions : hardhat!beginComparison(k)
  <2>1. PICK k \in 0 .. MaxTransactions : hardhat!beginComparison(k) BY <1>3
  <2>2. /\ pc' = "preparing" /\ registry' \in hardhat!Serving
        /\ asked' = k /\ toMeasure' = k /\ measured' = [stored |-> 0, empty |-> 0]
        BY <2>1 DEF hardhat!beginComparison, hardhat!DeployRegistry
  <2>3. MeasuredSoFar' BY <1>1, <2>2 DEF MeasuredSoFar, hardhat!Serving
  <2>4. hardhat!MeasuresItsContracts' BY <2>2 DEF hardhat!MeasuresItsContracts
  <2>5. asked' \in Nat /\ toMeasure' \in Nat /\ measured' \in [stored : Nat, empty : Nat]
        BY <2>2, ParameterAssumption
  <2>6. QED BY <1>1, <1>2, <2>3, <2>4, <2>5 DEF HardhatInv
<1>4. CASE hardhat!deployRelay /\ pc = "preparing"
  <2>1. PICK p \in hardhat!Serving : contracts' = hardhat!Bound(p)
        BY <1>4 DEF hardhat!deployRelay
  <2>2. /\ pc' = "comparing" /\ contracts'.relay = p
        /\ UNCHANGED <<registry, asked, toMeasure, measured>>
        BY <1>4, <2>1 DEF hardhat!deployRelay, hardhat!Bound, hardhat!measureVars
  <2>3. registry \in hardhat!Process /\ state[registry] \in {"serving", "gone"}
        /\ toMeasure = asked /\ measured = [stored |-> 0, empty |-> 0]
        /\ asked \in Nat
        BY <1>4 DEF HardhatInv, MeasuredSoFar
  <2>4. state[registry] = "serving" => registry = p
        BY <2>3 DEF HardhatInv, hardhat!Serving
  <2>5. MeasuredSoFar' BY <1>1, <2>2, <2>3, <2>4 DEF MeasuredSoFar
  <2>6. hardhat!MeasuresItsContracts'
        BY <2>2, <2>3 DEF hardhat!MeasuresItsContracts
  <2>7. QED BY <1>1, <1>2, <2>2, <2>5, <2>6 DEF HardhatInv
<1>5. QED BY <1>3, <1>4

\* One transaction is measured: where it does nothing another node answers.
LEMMA MeasureStep == ASSUME HardhatInv, hardhat!compareNext PROVE HardhatInv'
<1>1. /\ pc = "comparing" /\ toMeasure > 0 /\ toMeasure' = toMeasure - 1
      /\ \/ measured' = [measured EXCEPT !.stored = @ + 1]
         \/ /\ hardhat!DoesNothing
            /\ measured' = [measured EXCEPT !.empty = @ + 1]
      /\ UNCHANGED <<state, contracts, pc, registry, asked, answer>>
      BY DEF hardhat!compareNext, hardhat!processVars
<1>2. UNCHANGED hardhat!Serving BY <1>1 DEF hardhat!Serving
<1>3. /\ registry \in hardhat!Process /\ state[registry] \in {"serving", "gone"}
      /\ state[registry] = "serving" => contracts.relay = registry
      /\ toMeasure + measured.stored + measured.empty = asked
      /\ measured.empty > 0 => state[registry] = "gone"
      /\ measured \in [stored : Nat, empty : Nat] /\ toMeasure \in Nat /\ asked \in Nat
      BY <1>1 DEF HardhatInv, MeasuredSoFar
<1>4. hardhat!DoesNothing => state[registry] = "gone"
      BY <1>3 DEF hardhat!DoesNothing, hardhat!Serving
<1>5. /\ measured' \in [stored : Nat, empty : Nat]
      /\ measured'.stored + measured'.empty = measured.stored + measured.empty + 1
      /\ measured'.empty > 0 => state[registry] = "gone"
      BY <1>1, <1>3, <1>4
<1>6. /\ toMeasure' \in Nat
      /\ toMeasure' + measured'.stored + measured'.empty = asked'
      BY <1>1, <1>3, <1>5
<1>7. MeasuredSoFar' BY <1>1, <1>3, <1>5, <1>6 DEF MeasuredSoFar
<1>8. hardhat!MeasuresItsContracts'
      BY <1>1, <1>5 DEF hardhat!MeasuresItsContracts
<1>9. QED BY <1>1, <1>2, <1>5, <1>6, <1>7, <1>8 DEF HardhatInv

\* The comparison ends.
LEMMA EndOfComparison == ASSUME HardhatInv, hardhat!endComparison PROVE HardhatInv'
<1>1. /\ pc = "comparing" /\ toMeasure = 0 /\ pc' = "idle"
      /\ answer' = IF measured.stored + measured.empty = 0 THEN "raised" ELSE "compared"
      /\ UNCHANGED <<state, contracts, registry, asked, toMeasure, measured>>
      BY DEF hardhat!endComparison, hardhat!Averages, hardhat!processVars,
         hardhat!measureVars
<1>2. UNCHANGED hardhat!Serving BY <1>1 DEF hardhat!Serving
<1>3. /\ measured.stored + measured.empty = asked
      /\ measured.empty > 0 => state[registry] = "gone"
      /\ asked \in Nat /\ measured.stored \in Nat /\ measured.empty \in Nat
      BY <1>1 DEF HardhatInv, MeasuredSoFar
<1>4. hardhat!MeasuresItsContracts'
      BY <1>1, <1>3 DEF hardhat!MeasuresItsContracts
<1>5. QED BY <1>1, <1>2, <1>4 DEF HardhatInv, MeasuredSoFar

\* Every step of the runner and of the processes.
LEMMA HardhatStep ==
  ASSUME HardhatInv, [hardhat!Next]_(hardhat!vars)
  PROVE  HardhatInv'
<1>1. CASE UNCHANGED hardhat!vars
  <2>1. UNCHANGED <<state, contracts, pc, registry, asked, toMeasure, measured, answer>>
        BY <1>1 DEF hardhat!vars, hardhat!processVars, hardhat!measureVars
  <2>2. QED BY <2>1 DEF HardhatInv, MeasuredSoFar, hardhat!MeasuresItsContracts,
            hardhat!Serving
<1>2. CASE \/ \E p \in hardhat!Other : hardhat!startOther(p)
           \/ \E p \in hardhat!Process : hardhat!comeUp(p) \/ hardhat!crash(p)
      BY <1>2, ProcessStep DEF hardhat!Process
<1>3. CASE hardhat!runner
  <2>1. hardhat!deployRelay => pc \in {"deploying", "preparing"}
        BY DEF hardhat!deployRelay
  <2>2. QED BY <1>3, <2>1, OtherCall, PrepareStep, MeasureStep, EndOfComparison
            DEF hardhat!runner, hardhat!call
<1>4. QED BY <1>1, <1>2, <1>3 DEF hardhat!Next

\* The transactions a gas comparison averages over are those it was asked for,
\* and those no contract executed are among them only if the node it deployed
\* its registry to is gone, for any number of nodes, of the runner and of
\* others, that start, crash, stop and find the port taken
\* (HardhatRunner.run_gas_comparison).
THEOREM GasComparison == Spec => []MeasuresItsContracts
<1> DEFINE I == program = "hardhat" => HardhatInv
<1>1. Init => I BY Started, HardhatInit
<1>2. I /\ [Next]_vars => I' BY OneProgram, HardhatStep
<1>3. I => MeasuresItsContracts BY DEF MeasuresItsContracts, HardhatInv
<1>4. QED BY <1>1, <1>2, <1>3, PTL DEF Spec

-----------------------------------------------------------------------------
(* The scalability run.                                                    *)

\* A reading of a device, and its number.
Item == Device \X Nat

\* The places of a worker of the pool.
WorkerStates == {"none", "reading", "keeping", "returning", "returned", "raised"}

\* Workers keep items of their own; the pool begins when all are registered.
PoolTypes ==
  /\ worker \in [Device -> WorkerStates] /\ made \in [Device -> Nat]
  /\ local_items \in [Device -> Seq(Item)]
  /\ pc \in {"create", "deploy", "register", "merge", "unwind", "submit", "done",
             "raised"}
  /\ pc \in {"create", "deploy", "register"} => \A d \in Device : worker[d] = "none"

\* What is on the chain, and what was answered, are the first of the items
\* merged.
SubmittedInOrder ==
  /\ verified_items \in Seq(Item) /\ bc_latencies \in Seq(Item)
  /\ bc \in Seq(Item) /\ tx_order \in Seq(Item)
  /\ next \in Nat /\ next <= Len(verified_items) /\ next = Len(bc_latencies)
  /\ code # "gone" => Len(Chain) = next + calls!Unanswered
  /\ \A k \in 1 .. Len(Chain) : Chain[k] = verified_items[k]
  /\ \A k \in 1 .. next : bc_latencies[k] = verified_items[k]
  /\ pc = "create" => tx_order = <<>>
  /\ pc \in {"create", "deploy", "register", "merge", "unwind"} => next = 0
  /\ pc = "done" => next = Len(verified_items)
  /\ flight # "none" => pc \in {"submit", "raised"} /\ next < Len(verified_items)

\* The invariant of the scalability run.
ScalabilityInv ==
  PoolTypes /\ scalability!PhasesApart /\ SubmittedInOrder /\ CallsInv

\* A step of the run appends to what is accepted or to what is delivered.
ScalabilityDelivers == Delivers(Item, verified_items, verified_items')

\* A run begins with a pool that has not begun.
LEMMA ScalabilityInit == scalability!Init => ScalabilityInv
<1> SUFFICES ASSUME scalability!Init PROVE ScalabilityInv
    OBVIOUS
<1> USE DEF scalability!Init, scalability!calls!Init, scalability!relay!Init
<1>1. Chain = <<>> /\ calls!Unanswered = 0 BY DEF Chain, calls!Unanswered
<1>2. PoolTypes BY EmptySeq DEF PoolTypes, WorkerStates
<1>3. SubmittedInOrder BY <1>1, EmptySeq DEF SubmittedInOrder
<1>4. CallsInv BY DEF CallsInv, Backend, Working
<1>5. QED BY <1>2, <1>3, <1>4 DEF ScalabilityInv, scalability!PhasesApart

\* The loop over the items is at the next one to deliver.
LEMMA AtNextItem ==
  ASSUME ScalabilityInv
  PROVE  /\ Chain \in Seq(Item) /\ Len(Chain) \in Nat /\ Len(verified_items) \in Nat
         /\ code = "gone" => Chain = <<>>
         /\ next < Len(verified_items) /\ flight # "mined" =>
              /\ scalability!NextItem \in Item
              /\ Len(Chain) < Len(verified_items)
              /\ code # "gone" => /\ Len(Chain) = next
                                  /\ scalability!NextItem = verified_items[Len(Chain) + 1]
<1>1. /\ verified_items \in Seq(Item) /\ Chain \in Seq(Item) /\ next \in Nat
      BY DEF ScalabilityInv, SubmittedInOrder, Chain
<1>2. Len(verified_items) \in Nat /\ Len(Chain) \in Nat BY <1>1, LenProperties
<1>3. code = "gone" => Chain = <<>> BY DEF ScalabilityInv, CallsInv, Chain
<1>4. ASSUME next < Len(verified_items), flight # "mined"
      PROVE  /\ scalability!NextItem \in Item
             /\ Len(Chain) < Len(verified_items)
             /\ code # "gone" => /\ Len(Chain) = next
                                 /\ scalability!NextItem = verified_items[Len(Chain) + 1]
  <2>1. next + 1 \in 1 .. Len(verified_items) BY <1>1, <1>2, <1>4
  <2>2. scalability!NextItem \in Item
        BY <1>1, <2>1, ElementOfSeq DEF scalability!NextItem
  <2>3. code # "gone" => Len(Chain) = next
        BY <1>1, <1>4 DEF ScalabilityInv, SubmittedInOrder, calls!Unanswered
  <2>4. code = "gone" => Len(Chain) = 0 BY <1>3
  <2>5. QED BY <1>1, <1>2, <1>4, <2>2, <2>3, <2>4 DEF scalability!NextItem
<1>5. QED BY <1>1, <1>2, <1>3, <1>4

\* The next item reaches the chain.
LEMMA NextAppended ==
  ASSUME ScalabilityInv, next < Len(verified_items), flight # "mined", code # "gone",
         NEW chain1, chain1 = Append(Chain, scalability!NextItem)
  PROVE  /\ chain1 \in Seq(Item) /\ Len(chain1) = next + 1
         /\ \A k \in 1 .. Len(chain1) : chain1[k] = verified_items[k]
<1>1. PICK chain : chain = Chain OBVIOUS
<1>2. PICK item : item = scalability!NextItem OBVIOUS
<1>3. /\ chain \in Seq(Item) /\ item \in Item /\ Len(chain) = next
      /\ item = verified_items[Len(chain) + 1]
      BY <1>1, <1>2, AtNextItem
<1>4. /\ chain1 \in Seq(Item) /\ Len(chain1) = Len(chain) + 1 /\ Len(chain) \in Nat
      /\ \A k \in 1 .. Len(chain) : chain1[k] = chain[k]
      /\ chain1[Len(chain) + 1] = item
      BY <1>1, <1>2, <1>3, AppendProperties, LenProperties
<1>5. \A k \in 1 .. Len(chain) : chain[k] = verified_items[k]
      BY <1>1 DEF ScalabilityInv, SubmittedInOrder
<1>6. QED BY <1>3, <1>4, <1>5

\* The steps that submit nothing.
LEMMA SubmitsNothing ==
  ASSUME ScalabilityInv,
         UNCHANGED <<bc, flight, tx_order, verified_items, next, bc_latencies>>,
         pc = "create" \/ UNCHANGED backend,
         code' = "gone" <=> code = "gone",
         CallsInv',
         pc' = "create" => pc = "create",
         pc' \in {"create", "deploy", "register", "merge", "unwind"} =>
           pc \in {"create", "deploy", "register", "merge", "unwind"},
         pc \in {"submit", "raised"} => pc' \in {"submit", "raised", "done"},
         pc' = "done" => pc = "done" \/ next = Len(verified_items),
         Outcome' # Outcome => Outcome = "running"
  PROVE  SubmittedInOrder' /\ ScalabilityDelivers
<1>1. UNCHANGED Chain
  <2>1. CASE UNCHANGED backend BY <2>1 DEF Chain
  <2>2. CASE pc = "create"
    <3>1. bc = <<>> /\ tx_order = <<>>
          BY <2>2 DEF ScalabilityInv, SubmittedInOrder, CallsInv
    <3>2. QED BY <3>1 DEF Chain
  <2>3. QED BY <2>1, <2>2
<1>2. UNCHANGED calls!Unanswered BY DEF calls!Unanswered
<1>3. pc' = "done" => next = Len(verified_items) BY DEF ScalabilityInv, SubmittedInOrder
<1>4. flight # "none" => pc' \in {"submit", "raised"} /\ next < Len(verified_items)
  <2>1. Len(verified_items) \in Nat /\ next \in Nat
        BY AtNextItem DEF ScalabilityInv, SubmittedInOrder
  <2>2. QED BY <1>3, <2>1 DEF ScalabilityInv, SubmittedInOrder
<1>5. SubmittedInOrder' BY <1>1, <1>2, <1>3, <1>4 DEF ScalabilityInv, SubmittedInOrder
<1>6. ScalabilityDelivers
  <2>1. CASE UNCHANGED Outcome BY <1>1, <2>1 DEF ScalabilityDelivers, Delivers
  <2>2. CASE Outcome' = "aborted" /\ Outcome = "running"
        BY <1>1, <2>2 DEF ScalabilityDelivers, Delivers
  <2>3. CASE Outcome' = "done" /\ Outcome = "running"
    <3>1. next = Len(verified_items) BY <1>3, <2>3 DEF Outcome
    <3>2. flight = "none"
          BY <3>1, AtNextItem DEF ScalabilityInv, SubmittedInOrder
    <3>3. calls!Unanswered = 0 BY <3>2 DEF calls!Unanswered
    <3>4. ASSUME code # "gone" PROVE Chain = verified_items
      <4>1. Len(Chain) = Len(verified_items)
            BY <3>1, <3>3, <3>4 DEF ScalabilityInv, SubmittedInOrder
      <4>2. Chain \in Seq(Item) /\ verified_items \in Seq(Item)
            BY AtNextItem DEF ScalabilityInv, SubmittedInOrder
      <4>3. QED BY <4>1, <4>2, SeqEqual DEF ScalabilityInv, SubmittedInOrder
    <3>5. QED BY <1>1, <2>3, <3>2, <3>4 DEF ScalabilityDelivers, Delivers
  <2>4. QED BY <2>1, <2>2, <2>3 DEF Outcome
<1>7. QED BY <1>5, <1>6

\* While the pool works the main thread submits nothing.
LEMMA PoolStep ==
  ASSUME ScalabilityInv,
         scalability!start \/ \E d \in Device : scalability!pool(d)
  PROVE  ScalabilityInv' /\ ScalabilityDelivers
<1>1. UNCHANGED <<backend, code, bc, flight, tx_order, pc, verified_items, next,
                  bc_latencies>>
      BY DEF scalability!start, scalability!pool, scalability!verify, scalability!keep,
             scalability!return, scalability!configVars, scalability!chainVars,
             scalability!callVars, scalability!nodeVars, scalability!mergedVars,
             scalability!submitVars, scalability!mainVars
<1>2. UNCHANGED Outcome /\ CallsInv'
      BY <1>1 DEF Outcome, ScalabilityInv, CallsInv
<1>3. SubmittedInOrder' /\ ScalabilityDelivers
  <2>1. pc' = "done" => pc = "done" BY <1>1
  <2>2. QED BY <1>1, <1>2, <2>1, SubmitsNothing
<1>4. CASE scalability!start
  <2>1. /\ pc \in {"merge", "unwind"} /\ UNCHANGED <<made, local_items>>
        /\ \E s \in WorkerStates : worker' = [worker EXCEPT ![Head(queue)] = s]
        BY <1>4 DEF scalability!start, WorkerStates
  <2>2. PoolTypes' BY <1>1, <2>1 DEF ScalabilityInv, PoolTypes
  <2>3. scalability!PhasesApart' BY <1>1, <2>1 DEF scalability!PhasesApart
  <2>4. QED BY <1>2, <1>3, <2>2, <2>3 DEF ScalabilityInv
<1>5. CASE \E d \in Device : scalability!pool(d)
  <2>1. PICK d \in Device : scalability!pool(d) BY <1>5
  <2>2. worker[d] \in {"reading", "keeping", "returning"}
        BY <2>1 DEF scalability!pool, scalability!verify, scalability!keep,
             scalability!return
  <2>3. pc \in {"merge", "unwind"}
        BY <2>2 DEF ScalabilityInv, PoolTypes, scalability!PhasesApart,
             scalability!Active
  <2>4. \E s \in WorkerStates : worker' = [worker EXCEPT ![d] = s]
        BY <2>1 DEF scalability!pool, scalability!verify, scalability!keep,
             scalability!return, WorkerStates
  <2>5. made' = made \/ made' = [made EXCEPT ![d] = @ + 1]
        BY <2>1 DEF scalability!pool, scalability!verify, scalability!keep,
             scalability!return
  <2>6. \/ local_items' = local_items
        \/ local_items' = [local_items EXCEPT ![d] = Append(@, <<d, made[d] + 1>>)]
        BY <2>1 DEF scalability!pool, scalability!verify, scalability!keep,
             scalability!return
  <2>7. made[d] \in Nat /\ local_items[d] \in Seq(Item)
        BY DEF ScalabilityInv, PoolTypes
  <2>8. Append(local_items[d], <<d, made[d] + 1>>) \in Seq(Item)
        BY <2>7, AppendProperties DEF Item
  <2>9. made' \in [Device -> Nat]
    <3>1. made \in [Device -> Nat] BY DEF ScalabilityInv, PoolTypes
    <3>2. made[d] + 1 \in Nat BY <2>7
    <3>3. made' = made \/ made' = [made EXCEPT ![d] = made[d] + 1] BY <2>5
    <3>4. QED BY <3>1, <3>2, <3>3
  <2>10. local_items' \in [Device -> Seq(Item)]
        BY <2>6, <2>8 DEF ScalabilityInv, PoolTypes
  <2>11. PoolTypes'
        BY <1>1, <2>3, <2>4, <2>9, <2>10 DEF ScalabilityInv, PoolTypes
  <2>12. scalability!PhasesApart' BY <1>1, <2>3 DEF scalability!PhasesApart
  <2>13. QED BY <1>2, <1>3, <2>11, <2>12 DEF ScalabilityInv
<1>6. QED BY <1>4, <1>5

\* The main thread: it waits for the pool before it submits or raises.
LEMMA MainStep ==
  ASSUME ScalabilityInv,
         \/ scalability!createBlockchain \/ scalability!deployContracts
         \/ scalability!register \/ scalability!shutdown \/ scalability!failItem
         \/ scalability!finish \/ UNCHANGED scalability!vars
  PROVE  ScalabilityInv' /\ ScalabilityDelivers
<1> USE DEF scalability!configVars, scalability!chainVars, scalability!callVars,
            scalability!mergedVars, scalability!submitVars, scalability!mainVars
<1>1. UNCHANGED <<bc, flight, tx_order, verified_items, next, bc_latencies, queue,
                  worker, made, local_items>>
      BY DEF scalability!createBlockchain, scalability!deployContracts,
             scalability!register, scalability!shutdown, scalability!failItem,
             scalability!finish, scalability!vars, scalability!nodeVars,
             scalability!workerVars, scalability!calls!deploy_contracts
<1>2. \/ UNCHANGED <<backend, code, pc>>
      \/ /\ pc = "create" /\ UNCHANGED code
         /\ \/ backend' = "hardhat" /\ pc' = "deploy"
            \/ backend' = "simulated" /\ pc' = "register"
      \/ pc = "deploy" /\ pc' = "register" /\ code' = "there" /\ UNCHANGED backend
      \/ pc = "deploy" /\ pc' = "raised" /\ UNCHANGED <<backend, code>>
      \/ pc = "register" /\ pc' \in {"merge", "raised"} /\ UNCHANGED <<backend, code>>
      \/ /\ pc = "merge" /\ pc' = "submit" /\ scalability!PoolEmpty
         /\ UNCHANGED <<backend, code>>
      \/ /\ pc = "unwind" /\ pc' = "raised" /\ scalability!PoolEmpty
         /\ UNCHANGED <<backend, code>>
      \/ pc = "submit" /\ pc' = "raised" /\ UNCHANGED <<backend, code>>
      \/ /\ pc = "submit" /\ pc' = "done" /\ next = Len(verified_items)
         /\ UNCHANGED <<backend, code>>
      BY DEF scalability!createBlockchain, scalability!deployContracts,
             scalability!register, scalability!shutdown, scalability!failItem,
             scalability!finish, scalability!vars, scalability!Submitting,
             scalability!calls!deploy_contracts
<1>3. UNCHANGED scalability!Active BY <1>1 DEF scalability!Active
<1>4. PoolTypes' BY <1>1, <1>2 DEF ScalabilityInv, PoolTypes
<1>5. scalability!PhasesApart'
      BY <1>1, <1>2, <1>3 DEF ScalabilityInv, PoolTypes, scalability!PhasesApart,
         scalability!PoolEmpty, scalability!Active
<1>6. CallsInv' BY <1>1, <1>2 DEF ScalabilityInv, CallsInv, Backend, Working
<1>7. SubmittedInOrder' /\ ScalabilityDelivers
  <2>1. code' = "gone" <=> code = "gone" BY <1>2 DEF ScalabilityInv, CallsInv
  <2>2. pc = "create" \/ UNCHANGED backend BY <1>2
  <2>3. /\ pc' = "create" => pc = "create"
        /\ pc' \in {"create", "deploy", "register", "merge", "unwind"} =>
             pc \in {"create", "deploy", "register", "merge", "unwind"}
        /\ pc \in {"submit", "raised"} => pc' \in {"submit", "raised", "done"}
        /\ pc' = "done" => pc = "done" \/ next = Len(verified_items)
        BY <1>2
  <2>4. Outcome' # Outcome => Outcome = "running" BY <1>2 DEF Outcome
  <2>5. QED BY <1>1, <1>6, <2>1, <2>2, <2>3, <2>4, SubmitsNothing
<1>8. QED BY <1>4, <1>5, <1>6, <1>7 DEF ScalabilityInv

\* A merge accepts what one worker has kept.
LEMMA MergeStep ==
  ASSUME ScalabilityInv, NEW d \in Device, scalability!merge(d)
  PROVE  ScalabilityInv' /\ ScalabilityDelivers
<1>1. /\ UNCHANGED <<backend, code, bc, flight, tx_order, next, bc_latencies, queue,
                     worker, made, local_items>>
      /\ pc = "merge" /\ pc' \in {"merge", "unwind"}
      /\ \/ verified_items' = verified_items \o local_items[d] /\ UNCHANGED pc
         \/ UNCHANGED verified_items
      BY DEF scalability!merge, scalability!configVars, scalability!chainVars,
             scalability!callVars, scalability!nodeVars, scalability!workerVars,
             scalability!submitVars, scalability!Merged
<1>2. UNCHANGED <<Chain, calls!Unanswered>> BY <1>1 DEF Chain, calls!Unanswered
<1>3. PoolTypes' BY <1>1 DEF ScalabilityInv, PoolTypes
<1>4. scalability!PhasesApart' BY <1>1 DEF scalability!PhasesApart
<1>5. /\ verified_items \in Seq(Item) /\ local_items[d] \in Seq(Item) /\ next = 0
      /\ flight = "none" /\ Len(Chain) = 0
  <2>1. /\ verified_items \in Seq(Item) /\ local_items[d] \in Seq(Item) /\ next = 0
        /\ flight = "none"
        BY <1>1 DEF ScalabilityInv, PoolTypes, SubmittedInOrder
  <2>2. calls!Unanswered = 0 BY <2>1 DEF calls!Unanswered
  <2>3. Len(Chain) = 0
        BY <2>1, <2>2, AtNextItem DEF ScalabilityInv, SubmittedInOrder
  <2>4. QED BY <2>1, <2>3
<1>6. verified_items' \in Seq(Item) BY <1>1, <1>5, ConcatProperties
<1>7. SubmittedInOrder'
  <2>1. Len(verified_items') \in Nat BY <1>6, LenProperties
  <2>2. next' = 0 /\ Len(Chain') = 0 BY <1>1, <1>2, <1>5
  <2>3. QED BY <1>1, <1>2, <1>5, <1>6, <2>1, <2>2 DEF ScalabilityInv, SubmittedInOrder
<1>8. CallsInv' BY <1>1 DEF ScalabilityInv, CallsInv, Working
<1>9. Outcome = "running" /\ Outcome' = "running" BY <1>1 DEF Outcome
<1>10. ScalabilityDelivers
      BY <1>1, <1>2, <1>5, <1>9 DEF ScalabilityDelivers, Delivers
<1>11. QED BY <1>3, <1>4, <1>7, <1>8, <1>10 DEF ScalabilityInv

\* The pool has ended before the first submission.
LEMMA PoolKeeps ==
  ASSUME ScalabilityInv, UNCHANGED <<queue, worker, made, local_items, pc>>
  PROVE  PoolTypes' /\ scalability!PhasesApart'
<1>1. UNCHANGED scalability!Active BY DEF scalability!Active
<1>2. QED BY <1>1 DEF ScalabilityInv, PoolTypes, scalability!PhasesApart

\* An item is sent.
LEMMA SendNext ==
  ASSUME ScalabilityInv, scalability!sendItem
  PROVE  ScalabilityInv' /\ ScalabilityDelivers
<1>1. /\ pc = "submit" /\ next < Len(verified_items)
      /\ backend = "hardhat" /\ flight = "none" /\ flight' = "sent"
      /\ UNCHANGED <<backend, code, bc, tx_order, verified_items, next, bc_latencies,
                     queue, worker, made, local_items, pc>>
      BY DEF scalability!sendItem, scalability!Submitting, scalability!calls!send,
         scalability!configVars, scalability!chainVars, scalability!nodeVars,
         scalability!workerVars, scalability!mergedVars, scalability!submitVars,
         scalability!mainVars
<1>2. UNCHANGED <<Chain, Outcome, calls!Unanswered>>
      BY <1>1 DEF Chain, Outcome, calls!Unanswered
<1>3. CallsInv' BY <1>1 DEF ScalabilityInv, CallsInv, Working
<1>4. SubmittedInOrder' BY <1>1, <1>2 DEF ScalabilityInv, SubmittedInOrder
<1>5. ScalabilityDelivers
  <2>1. Outcome = "running" BY <1>1 DEF Outcome
  <2>2. Len(Chain) < Len(verified_items) BY <1>1, AtNextItem
  <2>3. QED BY <1>1, <1>2, <2>1, <2>2 DEF ScalabilityDelivers, Delivers
<1>6. QED BY <1>1, <1>3, <1>4, <1>5, PoolKeeps DEF ScalabilityInv

\* The latency of the next item is recorded.
LEMMA NextRecorded ==
  ASSUME ScalabilityInv, next < Len(verified_items), scalability!Recorded,
         UNCHANGED verified_items
  PROVE  /\ bc_latencies' \in Seq(Item)
         /\ next' = next + 1 /\ next' \in Nat /\ next' <= Len(verified_items')
         /\ next' = Len(bc_latencies')
         /\ \A k \in 1 .. next' : bc_latencies'[k] = verified_items'[k]
<1>1. /\ verified_items \in Seq(Item) /\ next \in Nat /\ Len(verified_items) \in Nat
      /\ bc_latencies \in Seq(Item) /\ Len(bc_latencies) = next
      /\ \A k \in 1 .. next : bc_latencies[k] = verified_items[k]
      BY AtNextItem DEF ScalabilityInv, SubmittedInOrder
<1>2. PICK item : item = scalability!NextItem OBVIOUS
<1>3. next + 1 \in 1 .. Len(verified_items) BY <1>1
<1>4. item = verified_items[next + 1] /\ item \in Item
      BY <1>1, <1>2, <1>3, ElementOfSeq DEF scalability!NextItem
<1>5. bc_latencies' = Append(bc_latencies, item) /\ next' = next + 1
      BY <1>2 DEF scalability!Recorded
<1>6. /\ bc_latencies' \in Seq(Item) /\ Len(bc_latencies') = next + 1
      /\ \A k \in 1 .. next : bc_latencies'[k] = bc_latencies[k]
      /\ bc_latencies'[next + 1] = item
      BY <1>1, <1>4, <1>5, AppendProperties
<1>7. QED BY <1>1, <1>3, <1>4, <1>5, <1>6

\* An item is answered.
LEMMA AnswerNext ==
  ASSUME ScalabilityInv, scalability!answerItem
  PROVE  ScalabilityInv' /\ ScalabilityDelivers
<1>1. /\ pc = "submit" /\ next < Len(verified_items) /\ scalability!Recorded
      /\ flight = "mined" /\ flight' = "none"
      /\ UNCHANGED <<backend, code, bc, tx_order, verified_items,
                     queue, worker, made, local_items, pc>>
      BY DEF scalability!answerItem, scalability!Submitting, scalability!calls!answer,
         scalability!configVars, scalability!chainVars, scalability!nodeVars,
         scalability!workerVars, scalability!mergedVars
<1>2. UNCHANGED <<Chain, Outcome>> BY <1>1 DEF Chain, Outcome
<1>3. CallsInv' BY <1>1 DEF ScalabilityInv, CallsInv
<1>4. SubmittedInOrder'
  <2>1. calls!Unanswered = 1 /\ calls!Unanswered' = 0 BY <1>1 DEF calls!Unanswered
  <2>2. next' = next + 1 BY <1>1 DEF scalability!Recorded
  <2>3. code' # "gone" => Len(Chain') = next' + calls!Unanswered'
        BY <1>1, <1>2, <2>1, <2>2 DEF ScalabilityInv, SubmittedInOrder
  <2>4. QED BY <1>1, <1>2, <2>3, NextRecorded DEF ScalabilityInv, SubmittedInOrder
<1>5. ScalabilityDelivers BY <1>1, <1>2 DEF ScalabilityDelivers, Delivers
<1>6. QED BY <1>1, <1>3, <1>4, <1>5, PoolKeeps DEF ScalabilityInv

\* An item is submitted to the simulation.
LEMMA SimulateNext ==
  ASSUME ScalabilityInv, scalability!simulateItem
  PROVE  ScalabilityInv' /\ ScalabilityDelivers
<1> DEFINE item == scalability!NextItem
<1>1. /\ pc = "submit" /\ next < Len(verified_items) /\ scalability!Recorded
      /\ backend = "simulated" /\ tx_order' = Append(tx_order, item)
      /\ UNCHANGED <<backend, code, bc, flight, verified_items,
                     queue, worker, made, local_items, pc>>
      BY DEF scalability!simulateItem, scalability!Submitting,
         scalability!relay!submit_verified_transaction,
         scalability!relay!submit_meta_transaction, scalability!configVars,
         scalability!chainVars, scalability!callVars, scalability!workerVars,
         scalability!mergedVars
<1>2. UNCHANGED Outcome BY <1>1 DEF Outcome
<1>3. code = "none" /\ flight = "none" BY <1>1 DEF ScalabilityInv, CallsInv
<1>4. Len(Chain) < Len(verified_items) /\ item = verified_items[Len(Chain) + 1]
      BY <1>1, <1>3, AtNextItem
<1> HIDE DEF item
<1>5. Chain' = Append(Chain, item) /\ Chain' = tx_order' BY <1>1 DEF Chain
<1>6. /\ Chain' \in Seq(Item) /\ Len(Chain') = next + 1
      /\ \A k \in 1 .. Len(Chain') : Chain'[k] = verified_items[k]
  <2>1. PICK chain1 : chain1 = Chain' OBVIOUS
  <2>2. chain1 = Append(Chain, scalability!NextItem) BY <1>5, <2>1 DEF item
  <2>3. QED BY <1>1, <1>3, <2>1, <2>2, NextAppended
<1>7. CallsInv' BY <1>1 DEF ScalabilityInv, CallsInv
<1>8. SubmittedInOrder'
  <2>1. calls!Unanswered' = 0 BY <1>1, <1>3 DEF calls!Unanswered
  <2>2. next' = next + 1 /\ next \in Nat
        BY <1>1 DEF scalability!Recorded, ScalabilityInv, SubmittedInOrder
  <2>3. Len(Chain') = next' + calls!Unanswered' BY <1>6, <2>1, <2>2
  <2>4. QED
        BY <1>1, <1>3, <1>5, <1>6, <2>3, NextRecorded DEF ScalabilityInv, SubmittedInOrder
<1>9. ScalabilityDelivers
  <2>1. Outcome = "running" BY <1>1 DEF Outcome
  <2>2. QED BY <1>1, <1>2, <1>3, <1>4, <1>5, <2>1 DEF ScalabilityDelivers, Delivers
<1>10. QED BY <1>1, <1>7, <1>8, <1>9, PoolKeeps DEF ScalabilityInv

\* The node stops, starts, or mines what was sent, also when the run has raised.
LEMMA NodeUnderRun ==
  ASSUME ScalabilityInv, scalability!environment
  PROVE  ScalabilityInv' /\ ScalabilityDelivers
<1> DEFINE item == scalability!NextItem
<1>1. /\ calls!stop \/ calls!start \/ calls!mine(item)
      /\ UNCHANGED <<backend, tx_order, verified_items, next, bc_latencies,
                     queue, worker, made, local_items, pc>>
      BY DEF scalability!environment, scalability!calls!stop, scalability!calls!start,
         scalability!calls!mine, scalability!calls!Stored, calls!stop, calls!start,
         calls!mine, calls!Stored, scalability!configVars, scalability!chainVars,
         scalability!nodeVars, scalability!workerVars, scalability!mergedVars,
         scalability!submitVars, scalability!mainVars
<1>2. ASSUME flight = "sent"
      PROVE  /\ next < Len(verified_items) /\ item \in Item
             /\ Len(Chain) < Len(verified_items)
             /\ code # "gone" => item = verified_items[Len(Chain) + 1]
  <2>1. next < Len(verified_items) BY <1>2 DEF ScalabilityInv, SubmittedInOrder
  <2>2. QED BY <1>2, <2>1, AtNextItem
<1> HIDE DEF item
<1>3. CallsInv' BY <1>1, NodeKeeps DEF ScalabilityInv
<1>4. ScalabilityDelivers
  <2>1. flight = "sent" /\ code = "there" =>
          Len(bc) < Len(verified_items) /\ item = verified_items[Len(bc) + 1]
        BY <1>2 DEF ScalabilityInv, CallsInv, Chain
  <2>2. verified_items \in Seq(Item) /\ CallsInv
        BY DEF ScalabilityInv, SubmittedInOrder
  <2>3. Delivers(Item, verified_items, verified_items)
        BY <1>1, <2>1, <2>2, NodeDelivers
  <2>4. QED BY <1>1, <2>3 DEF ScalabilityDelivers
<1>5. bc' \in Seq(Item)
  <2>1. bc \in Seq(Item) BY DEF ScalabilityInv, SubmittedInOrder
  <2>2. flight = "sent" => Append(bc, item) \in Seq(Item)
        BY <1>2, <2>1, AppendProperties
  <2>3. <<>> \in Seq(Item) BY EmptySeq
  <2>4. QED BY <1>1, <2>1, <2>2, <2>3 DEF calls!stop, calls!start, calls!mine, calls!Stored
<1>6. flight' # "none" => flight # "none"
      BY <1>1 DEF calls!stop, calls!start, calls!mine
<1>7. /\ code' # "gone" => Len(Chain') = next' + calls!Unanswered'
      /\ \A k \in 1 .. Len(Chain') : Chain'[k] = verified_items'[k]
  <2>1. CASE code' = "gone"
    <3>1. Chain' = <<>> BY <1>3, <2>1 DEF CallsInv, Chain
    <3>2. QED BY <2>1, <3>1
  <2>2. CASE code' # "gone" /\ calls!mine(item)
    <3>1. /\ flight = "sent" /\ flight' = "mined" /\ UNCHANGED code
          /\ code = "there" /\ bc' = Append(bc, item) /\ backend = "hardhat"
          BY <2>2 DEF calls!mine, calls!Stored, ScalabilityInv, CallsInv
    <3>2. Chain' = Append(Chain, item) BY <1>1, <3>1 DEF Chain
    <3>3. calls!Unanswered' = 1 BY <3>1 DEF calls!Unanswered
    <3>4. PICK chain1 : chain1 = Chain' OBVIOUS
    <3>5. chain1 = Append(Chain, scalability!NextItem) BY <3>2, <3>4 DEF item
    <3>6. QED BY <1>1, <1>2, <3>1, <3>3, <3>4, <3>5, NextAppended
  <2>3. CASE code' # "gone" /\ ~calls!mine(item)
    <3>1. UNCHANGED <<code, flight>> /\ UNCHANGED Chain
      <4>1. CASE calls!start BY <1>1, <4>1 DEF calls!start, Chain
      <4>2. CASE calls!stop
        <5>1. UNCHANGED <<code, flight>> /\ code = "none" /\ bc = <<>> /\ bc' = <<>>
              BY <2>3, <4>2 DEF calls!stop, ScalabilityInv, CallsInv
        <5>2. QED BY <1>1, <5>1 DEF Chain
      <4>3. QED BY <1>1, <2>3, <4>1, <4>2
    <3>2. UNCHANGED calls!Unanswered BY <3>1 DEF calls!Unanswered
    <3>3. QED BY <1>1, <3>1, <3>2 DEF ScalabilityInv, SubmittedInOrder
  <2>4. QED BY <2>1, <2>2, <2>3
<1>8. SubmittedInOrder'
      BY <1>1, <1>5, <1>6, <1>7 DEF ScalabilityInv, SubmittedInOrder
<1>9. QED BY <1>1, <1>3, <1>4, <1>8, PoolKeeps DEF ScalabilityInv

\* Every step of the run.
LEMMA ScalabilityStep ==
  ASSUME ScalabilityInv, [scalability!Next]_(scalability!vars)
  PROVE  ScalabilityInv' /\ ScalabilityDelivers
BY PoolStep, MainStep, MergeStep, SendNext, AnswerNext, SimulateNext, NodeUnderRun
   DEF scalability!Next, scalability!main

\* No thread outlives a scalability run and none runs while it submits, for
\* every set of devices and every size of the pool, also when a worker raises
\* while others run or wait in the queue (ScalabilityRunner.run).
THEOREM Phases == Spec => []PhasesApart
<1> DEFINE I == program = "scalability" => ScalabilityInv
<1>1. Init => I BY Started, ScalabilityInit
<1>2. I /\ [Next]_vars => I' BY OneProgram, ScalabilityStep
<1>3. I => PhasesApart BY DEF ScalabilityInv, PhasesApart
<1>4. QED BY <1>1, <1>2, <1>3, PTL DEF Spec

-----------------------------------------------------------------------------
(* The gateway shared by the pool of a scalability run.                    *)

\* The run counts as everybody does.
LEMMA SameCount == \A S : scalability!Cardinality(S) = Cardinality(S)
BY DEF scalability!Cardinality, Cardinality, scalability!IsFiniteSet, IsFiniteSet

\* What the coins of a ledger are.
LEMMA CoinsMembership ==
  ASSUME NEW S, NEW f \in [S -> Nat]
  PROVE  \A c : c \in scalability!Coins(f) <=>
                  \E a \in S, k \in Nat : c = <<a, k>> /\ 1 <= k /\ k <= f[a]
BY DEF scalability!Coins

\* A total whose coins can be counted.
Countable(f) == IsFiniteSet(scalability!Coins(f))

\* Counting one more under a key.
LEMMA TotalOneMore ==
  ASSUME NEW S, NEW f \in [S -> Nat], NEW x \in S, Countable(f),
         NEW g \in [S -> Nat], g[x] = f[x] + 1, \A a \in S : a # x => g[a] = f[a]
  PROVE  Countable(g) /\ scalability!Total(g) = scalability!Total(f) + 1
<1>1. g \in [S -> Nat] /\ g[x] = f[x] + 1 /\ \A a \in S : a # x => g[a] = f[a]
      OBVIOUS
<1>2. f[x] \in Nat OBVIOUS
<1>3. scalability!Coins(g) = scalability!Coins(f) \cup {<<x, f[x] + 1>>}
  <2>1. ASSUME NEW c \in scalability!Coins(g)
        PROVE  c \in scalability!Coins(f) \cup {<<x, f[x] + 1>>}
    <3>1. PICK a \in S, k \in Nat : c = <<a, k>> /\ 1 <= k /\ k <= g[a]
          BY <1>1, CoinsMembership
    <3>2. k <= f[a] \/ (a = x /\ k = f[x] + 1) BY <1>1, <1>2, <3>1
    <3>3. QED BY <3>1, <3>2, CoinsMembership
  <2>2. ASSUME NEW c \in scalability!Coins(f) PROVE c \in scalability!Coins(g)
    <3>1. PICK a \in S, k \in Nat : c = <<a, k>> /\ 1 <= k /\ k <= f[a]
          BY CoinsMembership
    <3>2. k <= g[a] BY <1>1, <1>2, <3>1
    <3>3. QED BY <1>1, <3>1, <3>2, CoinsMembership
  <2>3. <<x, f[x] + 1>> \in scalability!Coins(g)
    <3>1. f[x] + 1 \in Nat /\ 1 <= f[x] + 1 /\ f[x] + 1 <= g[x] BY <1>1, <1>2
    <3>2. QED BY <1>1, <3>1, CoinsMembership
  <2>4. QED BY <2>1, <2>2, <2>3
<1>4. <<x, f[x] + 1>> \notin scalability!Coins(f)
  <2>1. ~(f[x] + 1 <= f[x]) BY <1>2
  <2>2. QED BY <2>1, CoinsMembership
<1>5. PICK coin : coin = <<x, f[x] + 1>> OBVIOUS
<1>6. PICK C : C = scalability!Coins(f) OBVIOUS
<1>7. IsFiniteSet(C \cup {coin}) /\ Cardinality(C \cup {coin}) = Cardinality(C) + 1
      BY <1>4, <1>5, <1>6, FS_AddElement DEF Countable
<1>8. QED BY <1>3, <1>5, <1>6, <1>7, SameCount DEF Countable, scalability!Total

\* Counting under one key more.
LEMMA TotalNewKey ==
  ASSUME NEW S, NEW f \in [S -> Nat], Countable(f), NEW x, x \notin S,
         NEW g \in [S \cup {x} -> Nat], \A a \in S : g[a] = f[a]
  PROVE  Countable(g) /\ scalability!Total(g) = scalability!Total(f) + g[x]
<1> DEFINE pile == {x} \X (1 .. g[x])
<1>1. g[x] \in Nat OBVIOUS
<1>2. IsFiniteSet(pile) /\ Cardinality(pile) = g[x]
  <2>1. IsFiniteSet(1 .. g[x]) /\ Cardinality(1 .. g[x]) = g[x]
        BY <1>1, FS_Interval
  <2>2. IsFiniteSet({x}) /\ Cardinality({x}) = 1 BY FS_Singleton
  <2>3. IsFiniteSet(pile) /\ Cardinality(pile) = Cardinality({x}) * Cardinality(1 .. g[x])
        BY <2>1, <2>2, FS_Product
  <2>4. QED BY <1>1, <2>1, <2>2, <2>3
<1>3. scalability!Coins(g) = scalability!Coins(f) \cup pile
  <2>1. ASSUME NEW c \in scalability!Coins(g) PROVE c \in scalability!Coins(f) \cup pile
    <3>1. PICK a \in S \cup {x}, k \in Nat : c = <<a, k>> /\ 1 <= k /\ k <= g[a]
          BY CoinsMembership
    <3>2. CASE a = x
      <4>1. k \in 1 .. g[x] BY <1>1, <3>1, <3>2
      <4>2. QED BY <3>1, <3>2, <4>1
    <3>3. CASE a \in S
      <4>1. k <= f[a] BY <3>1, <3>3
      <4>2. QED BY <3>1, <3>3, <4>1, CoinsMembership
    <3>4. QED BY <3>2, <3>3
  <2>2. ASSUME NEW c \in scalability!Coins(f) PROVE c \in scalability!Coins(g)
    <3>1. PICK a \in S, k \in Nat : c = <<a, k>> /\ 1 <= k /\ k <= f[a]
          BY CoinsMembership
    <3>2. QED BY <3>1, CoinsMembership
  <2>3. ASSUME NEW c \in pile PROVE c \in scalability!Coins(g)
    <3>1. PICK k \in 1 .. g[x] : c = <<x, k>> OBVIOUS
    <3>2. k \in Nat /\ 1 <= k /\ k <= g[x] BY <1>1
    <3>3. QED BY <3>1, <3>2, CoinsMembership
  <2>4. QED BY <2>1, <2>2, <2>3
<1>4. scalability!Coins(f) \cap pile = {} BY CoinsMembership
<1> HIDE DEF pile
<1>5. Cardinality(scalability!Coins(f)) \in Nat BY FS_CardinalityType DEF Countable
<1>6. QED
  <2>1. IsFiniteSet(scalability!Coins(g))
        /\ Cardinality(scalability!Coins(g))
             = Cardinality(scalability!Coins(f)) + g[x] - Cardinality({})
        BY <1>2, <1>3, <1>4, FS_Union DEF Countable
  <2>2. QED BY <1>1, <1>5, <2>1, FS_EmptySet, SameCount DEF Countable, scalability!Total

\* Nothing is counted.
LEMMA TotalZero ==
  ASSUME NEW S, NEW f \in [S -> Nat], \A a \in S : f[a] = 0
  PROVE  Countable(f) /\ scalability!Total(f) = 0
<1>1. scalability!Coins(f) = {} BY CoinsMembership
<1>2. QED BY <1>1, FS_EmptySet, SameCount DEF Countable, scalability!Total

\* What is in a sequence that is extended.
LEMMA AppendHolds ==
  ASSUME NEW S, NEW s \in Seq(S), NEW e \in S
  PROVE  scalability!ToSet(Append(s, e)) = scalability!ToSet(s) \cup {e}
<1>1. /\ Append(s, e) \in Seq(S) /\ Len(Append(s, e)) = Len(s) + 1
      /\ DOMAIN s = 1 .. Len(s) /\ DOMAIN Append(s, e) = 1 .. Len(s) + 1
      /\ Append(s, e)[Len(s) + 1] = e /\ Len(s) \in Nat
      /\ \A k \in 1 .. Len(s) : Append(s, e)[k] = s[k]
      OBVIOUS
<1>2. PICK t : t = Append(s, e) OBVIOUS
<1>3. \A k \in 1 .. Len(s) + 1 : k \in 1 .. Len(s) \/ k = Len(s) + 1 BY <1>1
<1>4. \A k \in 1 .. Len(s) : k \in 1 .. Len(s) + 1 BY <1>1
<1>5. Len(s) + 1 \in 1 .. Len(s) + 1 BY <1>1
<1>6. {t[k] : k \in 1 .. Len(s) + 1} = {s[k] : k \in 1 .. Len(s)} \cup {e}
      BY <1>1, <1>2, <1>3, <1>4, <1>5
<1>7. QED BY <1>1, <1>2, <1>6 DEF scalability!ToSet

\* The devices wait in a row.
LEMMA DevicesInARow ==
  LET row == scalability!SetToSeq(Device) IN
  /\ row \in Seq(Device)
  /\ \A j, k \in 1 .. Len(row) : row[j] = row[k] => j = k
<1> DEFINE row == scalability!SetToSeq(Device)
<1>1. IsFiniteSet(Device) BY ParameterAssumption
<1>2. PICK c \in Nat : c = Cardinality(Device) BY <1>1, FS_CardinalityType
<1>3. \E f \in [1 .. c -> Device] : scalability!IsInjective(f)
  <2>1. ExistsBijection(1 .. c, Device) BY <1>1, <1>2, FS_CardinalityType
  <2>2. PICK f \in Bijection(1 .. c, Device) : TRUE BY <2>1 DEF ExistsBijection
  <2>3. f \in [1 .. c -> Device] /\ scalability!IsInjective(f)
        BY <2>2 DEF Bijection, Injection, IsInjective, scalability!IsInjective
  <2>4. QED BY <2>3
<1>4. row \in [1 .. c -> Device] /\ scalability!IsInjective(row)
      BY <1>2, <1>3, SameCount DEF scalability!SetToSeq
<1> HIDE DEF row
<1>5. row \in Seq(Device) BY <1>4, SeqDef
<1>6. DOMAIN row = 1 .. Len(row) BY <1>5, LenProperties
<1>7. \A j, k \in 1 .. Len(row) : row[j] = row[k] => j = k
      BY <1>4, <1>6 DEF scalability!IsInjective
<1>8. QED BY <1>5, <1>7 DEF row

\* How far the workers are: what they have made was verified or failed, and a
\* worker that returns has made all.  Those of the queue have not begun, those
\* that were merged have returned, and nothing is submitted before all are.
WorkersProgress ==
  /\ queue \in Seq(Device)
  /\ \A j, k \in 1 .. Len(queue) : queue[j] = queue[k] => j = k
  /\ \A k \in 1 .. Len(queue) : worker[queue[k]] = "none"
  /\ local_failed \in [Device -> Nat]
  /\ \A d \in Device :
       /\ made[d] = local_failed[d] + Len(local_items[d])
       /\ worker[d] = "none" => made[d] = 0
       /\ worker[d] \in {"reading", "keeping"} => made[d] < PerDevice
       /\ worker[d] \in {"returning", "returned"} => made[d] = PerDevice
  /\ merged \in SUBSET Device /\ \A d \in merged : worker[d] = "returned"
  /\ pc \in {"submit", "done"} => merged = Device

\* The ledgers that are summed up.
Lengths == [d \in Device |-> Len(local_items[d])]
MergedLengths == [d \in merged |-> Len(local_items[d])]
MergedFailed == [d \in merged |-> local_failed[d]]

Keepers == {d \in Device : worker[d] = "keeping"}

\* The gateway agrees with its threads, and a merged worker accounts for all of
\* its readings.
GatewayCounts ==
  /\ batch \in Seq(Item)
  /\ relayed_count \in Nat /\ failed_count \in Nat /\ failed_transactions \in Nat
  /\ Countable(local_failed) /\ Countable(Lengths)
  /\ Countable(MergedLengths) /\ Countable(MergedFailed)
  /\ scalability!GatewayAgrees
  /\ failed_transactions + Len(verified_items) = Cardinality(merged) * PerDevice

\* The invariant of the counts.
GatewayInv == ScalabilityInv /\ WorkersProgress /\ GatewayCounts

\* Nothing is counted before the pool begins.
LEMMA GatewayInit == scalability!Init => GatewayInv
<1> SUFFICES ASSUME scalability!Init PROVE GatewayInv
    OBVIOUS
<1>1. ScalabilityInv BY ScalabilityInit
<1>2. /\ queue = scalability!SetToSeq(Device) /\ worker = [d \in Device |-> "none"]
      /\ made = [d \in Device |-> 0] /\ local_failed = [d \in Device |-> 0]
      /\ local_items = [d \in Device |-> <<>>] /\ pc = "create" /\ merged = {}
      /\ failed_transactions = 0 /\ verified_items = <<>>
      /\ relayed_count = 0 /\ failed_count = 0 /\ batch = <<>>
      BY DEF scalability!Init, scalability!gateway!Init
<1>3. WorkersProgress
  <2>1. /\ queue \in Seq(Device)
        /\ \A j, k \in 1 .. Len(queue) : queue[j] = queue[k] => j = k
        BY <1>2, DevicesInARow
  <2>2. \A k \in 1 .. Len(queue) : queue[k] \in Device BY <2>1, ElementOfSeq
  <2>3. \A k \in 1 .. Len(queue) : worker[queue[k]] = "none" BY <1>2, <2>2
  <2>4. \A d \in Device : made[d] = local_failed[d] + Len(local_items[d])
        BY <1>2, EmptySeq
  <2>5. QED BY <1>2, <2>1, <2>3, <2>4 DEF WorkersProgress
<1>4. GatewayCounts
  <2>1. /\ batch \in Seq(Item) /\ Len(batch) = 0 /\ Len(verified_items) = 0
        /\ \A d \in Device : Len(local_items[d]) = 0
        BY <1>2, EmptySeq
  <2>2. Countable(local_failed) /\ scalability!Total(local_failed) = 0
    <3>1. local_failed \in [Device -> Nat] /\ \A d \in Device : local_failed[d] = 0
          BY <1>2
    <3>2. QED BY <3>1, TotalZero
  <2>3. Countable(Lengths) /\ scalability!Total(Lengths) = 0
    <3>1. Lengths \in [Device -> Nat] /\ \A d \in Device : Lengths[d] = 0
          BY <2>1 DEF Lengths
    <3>2. QED BY <3>1, TotalZero
  <2>4. /\ Countable(MergedLengths) /\ scalability!Total(MergedLengths) = 0
        /\ Countable(MergedFailed) /\ scalability!Total(MergedFailed) = 0
    <3>1. MergedLengths \in [{} -> Nat] /\ MergedFailed \in [{} -> Nat]
          BY <1>2 DEF MergedLengths, MergedFailed
    <3>2. QED BY <3>1, TotalZero
  <2>5. scalability!Keeping = 0
    <3>1. {d \in Device : worker[d] = "keeping"} = {} BY <1>2
    <3>2. QED BY <3>1, SameCount, FS_EmptySet DEF scalability!Keeping
  <2>6. scalability!ToSet(batch) = {} /\ \A d \in Device : scalability!ToSet(local_items[d]) = {}
    <3>1. DOMAIN batch = {} /\ \A d \in Device : DOMAIN local_items[d] = {}
          BY <1>2, EmptySeq
    <3>2. QED BY <3>1 DEF scalability!ToSet
  <2>7. UNION {scalability!ToSet(local_items[d]) : d \in Device} = {} BY <2>6
  <2>8. scalability!GatewayAgrees
        BY <1>2, <2>1, <2>2, <2>3, <2>4, <2>5, <2>6, <2>7
        DEF scalability!GatewayAgrees, Lengths, MergedLengths, MergedFailed
  <2>9. Cardinality(merged) * PerDevice = 0
        BY <1>2, FS_EmptySet, ParameterAssumption
  <2>10. QED BY <1>2, <2>1, <2>2, <2>3, <2>4, <2>8, <2>9 DEF GatewayCounts
<1>5. QED BY <1>1, <1>3, <1>4 DEF GatewayInv

\* A step of the run that counts nothing.
LEMMA QuietCounts ==
  ASSUME GatewayCounts,
         UNCHANGED <<batch, relayed_count, failed_count, local_failed, local_items,
                     merged, failed_transactions, verified_items>>,
         Keepers' = Keepers
  PROVE  GatewayCounts'
<1>1. UNCHANGED <<Lengths, MergedLengths, MergedFailed>>
      BY DEF Lengths, MergedLengths, MergedFailed
<1>2. scalability!Keeping' = scalability!Keeping BY DEF scalability!Keeping, Keepers
<1>3. scalability!GatewayAgrees'
      BY <1>1, <1>2 DEF GatewayCounts, scalability!GatewayAgrees
<1>4. QED BY <1>1, <1>3 DEF GatewayCounts

\* A thread takes the next worker.
LEMMA StartCounts ==
  ASSUME GatewayInv, scalability!start
  PROVE  WorkersProgress' /\ GatewayCounts'
<1> DEFINE d == Head(queue)
<1>1. /\ queue # <<>> /\ queue' = Tail(queue) /\ pc \in {"merge", "unwind"}
      /\ worker' = [worker EXCEPT ![d] =
                      IF PerDevice = 0 THEN "returning" ELSE "reading"]
      /\ UNCHANGED <<batch, relayed_count, failed_count, made, local_failed,
                     local_items, pc, merged, failed_transactions, verified_items>>
      BY DEF scalability!start, scalability!gatewayVars,
             scalability!mergedVars, scalability!mainVars
<1>2. /\ queue \in Seq(Device) /\ Len(queue) \in Nat
      /\ \A j, k \in 1 .. Len(queue) : queue[j] = queue[k] => j = k
      /\ \A k \in 1 .. Len(queue) : worker[queue[k]] = "none"
      /\ worker \in [Device -> WorkerStates] /\ PerDevice \in Nat
      BY LenProperties, ParameterAssumption
         DEF GatewayInv, WorkersProgress, ScalabilityInv, PoolTypes
<1>3. /\ queue' \in Seq(Device) /\ Len(queue') = Len(queue) - 1 /\ Len(queue) > 0
      /\ \A k \in 1 .. Len(queue') : queue'[k] = queue[k + 1]
      /\ d = queue[1] /\ d \in Device
      BY <1>1, <1>2, HeadTailProperties, EmptySeq
<1> HIDE DEF d
<1>4. 1 \in 1 .. Len(queue) /\ worker[d] = "none" BY <1>2, <1>3
<1>5. \A k \in 1 .. Len(queue') : k + 1 \in 1 .. Len(queue) BY <1>2, <1>3
<1>6. \A j, k \in 1 .. Len(queue') : queue'[j] = queue'[k] => j = k
  <2> SUFFICES ASSUME NEW j \in 1 .. Len(queue'), NEW k \in 1 .. Len(queue'),
                      queue'[j] = queue'[k]
               PROVE  j = k
      OBVIOUS
  <2>1. j + 1 = k + 1 BY <1>2, <1>3, <1>5
  <2>2. QED BY <1>2, <1>3, <2>1
<1>7. \A k \in 1 .. Len(queue') : worker'[queue'[k]] = "none"
  <2> SUFFICES ASSUME NEW k \in 1 .. Len(queue')
               PROVE  worker'[queue'[k]] = "none"
      OBVIOUS
  <2>1. k + 1 \in 1 .. Len(queue) /\ k + 1 # 1 BY <1>2, <1>3
  <2>2. queue'[k] # d /\ queue'[k] \in Device /\ worker[queue'[k]] = "none"
        BY <1>2, <1>3, <1>4, <2>1, ElementOfSeq
  <2>3. QED BY <1>1, <1>2, <2>2
<1>8. WorkersProgress'
  <2>1. \A e \in Device : e # d => worker'[e] = worker[e] BY <1>1, <1>2
  <2>2. /\ made[d] = 0 /\ worker'[d] \in {"reading", "returning"}
        /\ worker'[d] = "reading" => PerDevice > 0
        /\ worker'[d] = "returning" => PerDevice = 0
        BY <1>1, <1>2, <1>3, <1>4 DEF GatewayInv, WorkersProgress
  <2>3. \A e \in Device :
          /\ made[e] = local_failed[e] + Len(local_items[e])
          /\ worker'[e] = "none" => made[e] = 0
          /\ worker'[e] \in {"reading", "keeping"} => made[e] < PerDevice
          /\ worker'[e] \in {"returning", "returned"} => made[e] = PerDevice
        BY <1>2, <2>1, <2>2 DEF GatewayInv, WorkersProgress
  <2>4. \A e \in merged : worker'[e] = "returned"
        BY <1>4, <2>1 DEF GatewayInv, WorkersProgress
  <2>5. QED BY <1>1, <1>3, <1>6, <1>7, <2>3, <2>4 DEF GatewayInv, WorkersProgress
<1>9. Keepers' = Keepers BY <1>1, <1>2, <1>3, <1>4 DEF Keepers
<1>10. QED BY <1>1, <1>8, <1>9, QuietCounts DEF GatewayInv

\* What a step of the worker of d must respect for the others.
LEMMA OneWorker ==
  ASSUME GatewayInv, NEW d \in Device, worker[d] # "none", worker[d] # "returned",
         UNCHANGED <<queue, pc, merged>>,
         \A e \in Device : e # d => /\ worker'[e] = worker[e] /\ made'[e] = made[e]
                                    /\ local_failed'[e] = local_failed[e]
                                    /\ local_items'[e] = local_items[e],
         local_failed' \in [Device -> Nat],
         made'[d] = local_failed'[d] + Len(local_items'[d]),
         worker'[d] # "none",
         worker'[d] \in {"reading", "keeping"} => made'[d] < PerDevice,
         worker'[d] \in {"returning", "returned"} => made'[d] = PerDevice
  PROVE  WorkersProgress'
<1>1. \A e \in Device :
        /\ made'[e] = local_failed'[e] + Len(local_items'[e])
        /\ worker'[e] = "none" => made'[e] = 0
        /\ worker'[e] \in {"reading", "keeping"} => made'[e] < PerDevice
        /\ worker'[e] \in {"returning", "returned"} => made'[e] = PerDevice
      BY DEF GatewayInv, WorkersProgress
<1>2. \A k \in 1 .. Len(queue') : worker'[queue'[k]] = "none"
  <2> SUFFICES ASSUME NEW k \in 1 .. Len(queue) PROVE worker'[queue[k]] = "none"
      OBVIOUS
  <2>1. queue \in Seq(Device) /\ worker[queue[k]] = "none"
        BY DEF GatewayInv, WorkersProgress
  <2>2. queue[k] \in Device /\ queue[k] # d BY <2>1, ElementOfSeq
  <2>3. QED BY <2>1, <2>2
<1>3. \A e \in merged' : worker'[e] = "returned" BY DEF GatewayInv, WorkersProgress
<1>4. QED BY <1>1, <1>2, <1>3 DEF GatewayInv, WorkersProgress

\* What was merged stays as it was while a worker that has not returned works.
LEMMA MergedStays ==
  ASSUME GatewayInv, NEW d \in Device, worker[d] # "returned", merged' = merged,
         \A e \in Device : e # d => /\ local_failed'[e] = local_failed[e]
                                    /\ local_items'[e] = local_items[e]
  PROVE  UNCHANGED <<MergedLengths, MergedFailed>>
<1>1. merged \subseteq Device /\ d \notin merged BY DEF GatewayInv, WorkersProgress
<1>2. QED BY <1>1 DEF MergedLengths, MergedFailed

\* What the invariant says of one worker.
LEMMA WorkerFacts ==
  ASSUME GatewayInv, NEW d \in Device
  PROVE  /\ made \in [Device -> Nat] /\ local_failed \in [Device -> Nat]
         /\ worker \in [Device -> WorkerStates]
         /\ local_items \in [Device -> Seq(Item)]
         /\ made[d] \in Nat /\ local_failed[d] \in Nat
         /\ local_items[d] \in Seq(Item) /\ Len(local_items[d]) \in Nat
         /\ made[d] = local_failed[d] + Len(local_items[d])
         /\ worker[d] \in {"reading", "keeping"} => made[d] < PerDevice
         /\ worker[d] \in {"returning", "returned"} => made[d] = PerDevice
         /\ PerDevice \in Nat
         /\ IsFiniteSet(Keepers) /\ Cardinality(Keepers) \in Nat
         /\ scalability!Keeping = Cardinality(Keepers)
<1>1. Keepers \in SUBSET Device BY DEF Keepers
<1>2. IsFiniteSet(Keepers) /\ Cardinality(Keepers) \in Nat
      BY <1>1, ParameterAssumption, FS_Subset, FS_CardinalityType
<1>3. scalability!Keeping = Cardinality(Keepers)
      BY SameCount DEF scalability!Keeping, Keepers
<1>4. local_items[d] \in Seq(Item) BY DEF GatewayInv, ScalabilityInv, PoolTypes
<1>5. Len(local_items[d]) \in Nat BY <1>4, LenProperties
<1>6. QED BY <1>2, <1>3, <1>4, <1>5, ParameterAssumption
      DEF GatewayInv, ScalabilityInv, PoolTypes, WorkersProgress

\* A worker returns or raises.
LEMMA ReturnCounts ==
  ASSUME GatewayInv, NEW d \in Device, scalability!return(d)
  PROVE  WorkersProgress' /\ GatewayCounts'
<1>1. /\ \/ worker[d] = "returning" /\ worker' = [worker EXCEPT ![d] = "returned"]
         \/ worker[d] = "reading" /\ worker' = [worker EXCEPT ![d] = "raised"]
      /\ UNCHANGED <<batch, relayed_count, failed_count, queue, made, local_failed,
                     local_items, pc, merged, failed_transactions, verified_items>>
      BY DEF scalability!return, scalability!gatewayVars,
             scalability!mergedVars, scalability!mainVars
<1>2. /\ worker'[d] \in {"returned", "raised"}
      /\ worker'[d] = "returned" => worker[d] = "returning"
      /\ \A e \in Device : e # d => worker'[e] = worker[e]
      BY <1>1, WorkerFacts
<1>3. WorkersProgress' BY <1>1, <1>2, WorkerFacts, OneWorker
<1>4. Keepers' = Keepers BY <1>1, <1>2 DEF Keepers
<1>5. QED BY <1>1, <1>3, <1>4, QuietCounts DEF GatewayInv

\* A reading that fails is counted by the gateway and by its worker.
LEMMA FailedCounts ==
  ASSUME GatewayInv, NEW d \in Device, scalability!verify(d, FALSE)
  PROVE  WorkersProgress' /\ GatewayCounts'
<1>1. /\ worker[d] = "reading"
      /\ failed_count' = failed_count + 1
      /\ worker' = [worker EXCEPT ![d] =
                      IF made[d] + 1 = PerDevice THEN "returning" ELSE "reading"]
      /\ made' = [made EXCEPT ![d] = @ + 1]
      /\ local_failed' = [local_failed EXCEPT ![d] = @ + 1]
      /\ UNCHANGED <<batch, relayed_count, queue, local_items, pc, merged,
                     failed_transactions, verified_items>>
      BY DEF scalability!verify, scalability!gateway!count,
             scalability!mergedVars, scalability!mainVars,
             scalability!LastReading
<1>2. /\ local_failed' \in [Device -> Nat] /\ local_failed'[d] = local_failed[d] + 1
      /\ \A e \in Device : e # d => local_failed'[e] = local_failed[e]
      BY <1>1, WorkerFacts
<1>3. made'[d] = made[d] + 1 /\ \A e \in Device : e # d => made'[e] = made[e]
      BY <1>1, WorkerFacts
<1>4. /\ worker'[d] = IF made[d] + 1 = PerDevice THEN "returning" ELSE "reading"
      /\ \A e \in Device : e # d => worker'[e] = worker[e]
      BY <1>1, WorkerFacts
<1>5. made'[d] = local_failed'[d] + Len(local_items'[d])
      BY <1>1, <1>2, <1>3, WorkerFacts
<1>6. made[d] + 1 = PerDevice \/ made[d] + 1 < PerDevice BY <1>1, WorkerFacts
<1>7. WorkersProgress' BY <1>1, <1>2, <1>3, <1>4, <1>5, <1>6, OneWorker
<1>8. UNCHANGED <<MergedLengths, MergedFailed, Lengths>>
      BY <1>1, <1>2, MergedStays DEF Lengths
<1>9. Countable(local_failed)'
      /\ scalability!Total(local_failed)' = scalability!Total(local_failed) + 1
  <2>1. PICK g : g = local_failed' OBVIOUS
  <2>2. Countable(local_failed) BY DEF GatewayInv, GatewayCounts
  <2>3. /\ local_failed \in [Device -> Nat] /\ g \in [Device -> Nat]
        /\ g[d] = local_failed[d] + 1
        /\ \A e \in Device : e # d => g[e] = local_failed[e]
        BY <1>2, <2>1, WorkerFacts
  <2>4. Countable(g) /\ scalability!Total(g) = scalability!Total(local_failed) + 1
        BY <2>2, <2>3, TotalOneMore
  <2>5. QED BY <2>1, <2>4
<1>10. Keepers' = Keepers BY <1>1, <1>4 DEF Keepers
<1>11. scalability!Keeping' = scalability!Keeping BY <1>10 DEF scalability!Keeping, Keepers
<1>12. scalability!GatewayAgrees'
      BY <1>1, <1>8, <1>9, <1>11 DEF GatewayInv, GatewayCounts,
         scalability!GatewayAgrees, Lengths, MergedLengths, MergedFailed
<1>13. GatewayCounts'
      BY <1>1, <1>8, <1>9, <1>12 DEF GatewayInv, GatewayCounts
<1>14. QED BY <1>7, <1>13

\* A verified reading is counted, and its worker is about to keep it.
LEMMA VerifiedCounts ==
  ASSUME GatewayInv, NEW d \in Device, scalability!verify(d, TRUE)
  PROVE  WorkersProgress' /\ GatewayCounts'
<1>1. /\ worker[d] = "reading" /\ worker' = [worker EXCEPT ![d] = "keeping"]
      /\ relayed_count' = relayed_count + 1
      /\ UNCHANGED <<batch, failed_count, queue, made, local_failed, local_items, pc,
                     merged, failed_transactions, verified_items>>
      BY DEF scalability!verify, scalability!gateway!count,
             scalability!mergedVars, scalability!mainVars
<1>2. worker'[d] = "keeping" /\ \A e \in Device : e # d => worker'[e] = worker[e]
      BY <1>1, WorkerFacts
<1>3. WorkersProgress' BY <1>1, <1>2, WorkerFacts, OneWorker
<1>4. scalability!Keeping' = scalability!Keeping + 1
  <2>1. Keepers' = Keepers \cup {d} /\ d \notin Keepers BY <1>1, <1>2 DEF Keepers
  <2>2. Cardinality(Keepers \cup {d}) = Cardinality(Keepers) + 1
        BY <2>1, WorkerFacts, FS_AddElement
  <2>3. scalability!Keeping' = scalability!Cardinality(Keepers')
        BY DEF scalability!Keeping, Keepers
  <2>4. QED BY <2>1, <2>2, <2>3, SameCount, WorkerFacts
<1>5. UNCHANGED <<Lengths, MergedLengths, MergedFailed>>
      BY <1>1 DEF Lengths, MergedLengths, MergedFailed
<1>6. Len(batch) \in Nat /\ scalability!Keeping \in Nat /\ relayed_count \in Nat
      BY WorkerFacts, LenProperties DEF GatewayInv, GatewayCounts
<1>7. relayed_count' = Len(batch') + scalability!Keeping'
      BY <1>1, <1>4, <1>6 DEF GatewayInv, GatewayCounts, scalability!GatewayAgrees
<1>8. scalability!GatewayAgrees'
      BY <1>1, <1>5, <1>7 DEF GatewayInv, GatewayCounts, scalability!GatewayAgrees
<1>9. GatewayCounts' BY <1>1, <1>5, <1>6, <1>8 DEF GatewayInv, GatewayCounts
<1>10. QED BY <1>3, <1>9

\* A reading that is kept is the gateway's and the worker's.
LEMMA KeepCounts ==
  ASSUME GatewayInv, NEW d \in Device, scalability!keep(d)
  PROVE  WorkersProgress' /\ GatewayCounts'
<1> DEFINE item == <<d, made[d] + 1>>
<1>1. /\ worker[d] = "keeping" /\ batch' = Append(batch, item)
      /\ local_items' = [local_items EXCEPT ![d] = Append(@, item)]
      /\ made' = [made EXCEPT ![d] = @ + 1]
      /\ worker' = [worker EXCEPT ![d] =
                      IF made[d] + 1 = PerDevice THEN "returning" ELSE "reading"]
      /\ UNCHANGED <<relayed_count, failed_count, queue, local_failed, pc, merged,
                     failed_transactions, verified_items>>
      BY DEF scalability!keep, scalability!gateway!keep,
             scalability!mergedVars, scalability!mainVars,
             scalability!LastReading
<1>2. item \in Item BY WorkerFacts DEF Item
<1> HIDE DEF item
<1>3. batch \in Seq(Item) /\ Len(batch) \in Nat
      BY LenProperties DEF GatewayInv, GatewayCounts
<1>4. batch' \in Seq(Item) /\ Len(batch') = Len(batch) + 1
      BY <1>1, <1>2, <1>3, AppendProperties
<1>5. /\ local_items'[d] = Append(local_items[d], item)
      /\ \A e \in Device : e # d => local_items'[e] = local_items[e]
      BY <1>1, WorkerFacts
<1>6. Len(local_items'[d]) = Len(local_items[d]) + 1
      BY <1>2, <1>5, WorkerFacts, AppendProperties
<1>7. made'[d] = made[d] + 1 /\ \A e \in Device : e # d => made'[e] = made[e]
      BY <1>1, WorkerFacts
<1>8. /\ worker'[d] = IF made[d] + 1 = PerDevice THEN "returning" ELSE "reading"
      /\ \A e \in Device : e # d => worker'[e] = worker[e]
      BY <1>1, WorkerFacts
<1>9. made'[d] = local_failed'[d] + Len(local_items'[d])
      BY <1>1, <1>6, <1>7, WorkerFacts
<1>10. made[d] + 1 = PerDevice \/ made[d] + 1 < PerDevice BY <1>1, WorkerFacts
<1>11. local_failed' \in [Device -> Nat] BY <1>1, WorkerFacts
<1>12. WorkersProgress'
  <2>1. /\ worker[d] # "none" /\ worker[d] # "returned" /\ worker'[d] # "none"
        /\ worker'[d] \in {"reading", "keeping"} => made'[d] < PerDevice
        /\ worker'[d] \in {"returning", "returned"} => made'[d] = PerDevice
        BY <1>1, <1>7, <1>8, <1>10
  <2>2. \A e \in Device : e # d => /\ worker'[e] = worker[e] /\ made'[e] = made[e]
                                   /\ local_failed'[e] = local_failed[e]
                                   /\ local_items'[e] = local_items[e]
        BY <1>1, <1>5, <1>7, <1>8
  <2>3. UNCHANGED <<queue, pc, merged>> BY <1>1
  <2>4. QED BY <1>9, <1>11, <2>1, <2>2, <2>3, OneWorker
<1>13. UNCHANGED <<MergedLengths, MergedFailed>> BY <1>1, <1>5, MergedStays
<1>14. Countable(Lengths)' /\ scalability!Total(Lengths)' = scalability!Total(Lengths) + 1
  <2>1. PICK g : g = Lengths' OBVIOUS
  <2>2. Lengths \in [Device -> Nat] /\ Lengths[d] = Len(local_items[d])
        BY WorkerFacts DEF Lengths
  <2>3. /\ g \in [Device -> Nat] /\ g[d] = Lengths[d] + 1
        /\ \A e \in Device : e # d => g[e] = Lengths[e]
    <3>1. \A e \in Device : g[e] = Len(local_items'[e]) /\ g = [x \in Device |-> g[x]]
          BY <2>1 DEF Lengths
    <3>2. \A e \in Device : e # d => g[e] = Lengths[e]
          BY <1>5, <3>1 DEF Lengths
    <3>3. g[d] = Lengths[d] + 1 BY <1>6, <2>2, <3>1
    <3>4. QED BY <2>2, <3>1, <3>2, <3>3
  <2>4. Countable(Lengths) BY DEF GatewayInv, GatewayCounts
  <2>5. Countable(g) /\ scalability!Total(g) = scalability!Total(Lengths) + 1
        BY <2>2, <2>3, <2>4, TotalOneMore
  <2>6. QED BY <2>1, <2>5
<1>15. scalability!Keeping' = scalability!Keeping - 1
  <2>1. Keepers' = Keepers \ {d} /\ d \in Keepers BY <1>1, <1>8 DEF Keepers
  <2>2. Cardinality(Keepers \ {d}) = Cardinality(Keepers) - 1
        BY <2>1, WorkerFacts, FS_RemoveElement
  <2>3. scalability!Keeping' = scalability!Cardinality(Keepers')
        BY DEF scalability!Keeping, Keepers
  <2>4. QED BY <2>1, <2>2, <2>3, SameCount, WorkerFacts
<1>16. relayed_count' = Len(batch') + scalability!Keeping'
  <2>1. scalability!Keeping \in Nat BY WorkerFacts
  <2>2. QED BY <1>1, <1>3, <1>4, <1>15, <2>1
        DEF GatewayInv, GatewayCounts, scalability!GatewayAgrees
<1>17. Len(batch') = scalability!Total(Lengths)'
      BY <1>4, <1>14 DEF GatewayInv, GatewayCounts, scalability!GatewayAgrees, Lengths
<1>18. scalability!ToSet(batch)' = UNION {scalability!ToSet(local_items'[e]) : e \in Device}
  <2>1. scalability!ToSet(Append(batch, item)) = scalability!ToSet(batch) \cup {item}
        BY <1>2, <1>3, AppendHolds
  <2>2. scalability!ToSet(Append(local_items[d], item))
          = scalability!ToSet(local_items[d]) \cup {item}
        BY <1>2, WorkerFacts, AppendHolds
  <2>3. scalability!ToSet(batch)
          = UNION {scalability!ToSet(local_items[e]) : e \in Device}
        BY DEF GatewayInv, GatewayCounts, scalability!GatewayAgrees
  <2>4. \A e \in Device : scalability!ToSet(local_items'[e])
          = IF e = d THEN scalability!ToSet(local_items[d]) \cup {item}
                     ELSE scalability!ToSet(local_items[e])
        BY <1>5, <2>2
  <2>5. UNION {scalability!ToSet(local_items'[e]) : e \in Device}
          = scalability!ToSet(batch) \cup {item}
        BY <2>3, <2>4
  <2>6. QED BY <1>1, <2>1, <2>5
<1>19. scalability!GatewayAgrees'
      BY <1>1, <1>13, <1>16, <1>17, <1>18 DEF GatewayInv, GatewayCounts,
         scalability!GatewayAgrees, Lengths, MergedLengths, MergedFailed
<1>20. GatewayCounts'
      BY <1>1, <1>4, <1>13, <1>14, <1>19 DEF GatewayInv, GatewayCounts
<1>21. QED BY <1>12, <1>20

\* A merge that raises, and the steps of the main thread that count nothing.
LEMMA MainQuiet ==
  ASSUME GatewayInv,
         UNCHANGED <<batch, relayed_count, failed_count, queue, worker, made,
                     local_failed, local_items, merged, failed_transactions,
                     verified_items>>,
         pc' \in {"submit", "done"} => pc \in {"submit", "done"} \/ merged = Device
  PROVE  WorkersProgress' /\ GatewayCounts'
<1>1. WorkersProgress' BY DEF GatewayInv, WorkersProgress
<1>2. Keepers' = Keepers BY DEF Keepers
<1>3. QED BY <1>1, <1>2, QuietCounts DEF GatewayInv

\* A worker's result is merged.
LEMMA MergeCounts ==
  ASSUME GatewayInv, NEW d \in Device, scalability!merge(d)
  PROVE  WorkersProgress' /\ GatewayCounts'
<1>1. /\ d \notin merged /\ pc = "merge" /\ worker[d] \in {"returned", "raised"}
      /\ UNCHANGED <<batch, relayed_count, failed_count, queue, worker, made,
                     local_failed, local_items>>
      BY DEF scalability!merge, scalability!gatewayVars, scalability!workerVars
<1>2. CASE worker[d] = "returned"
  <2>1. /\ merged' = merged \cup {d} /\ UNCHANGED pc
        /\ failed_transactions' = failed_transactions + local_failed[d]
        /\ verified_items' = verified_items \o local_items[d]
        BY <1>2 DEF scalability!merge, scalability!Merged
  <2>2. merged \in SUBSET Device /\ failed_transactions \in Nat
        BY DEF GatewayInv, WorkersProgress, GatewayCounts
  <2>3. IsFiniteSet(merged) /\ Cardinality(merged) \in Nat
        BY <2>2, ParameterAssumption, FS_Subset, FS_CardinalityType
  <2>4. Cardinality(merged') = Cardinality(merged) + 1
        BY <1>1, <2>1, <2>3, FS_AddElement
  <2>5. verified_items \in Seq(Item) /\ Len(verified_items) \in Nat
        BY LenProperties DEF GatewayInv, ScalabilityInv, SubmittedInOrder
  <2>6. Len(verified_items') = Len(verified_items) + Len(local_items[d])
        BY <2>1, <2>5, WorkerFacts, ConcatProperties
  <2>7. failed_transactions' + Len(verified_items') = Cardinality(merged') * PerDevice
    <3>1. local_failed[d] + Len(local_items[d]) = PerDevice BY <1>2, WorkerFacts
    <3>2. (Cardinality(merged) + 1) * PerDevice
            = Cardinality(merged) * PerDevice + PerDevice
          BY <2>3, WorkerFacts
    <3>3. failed_transactions + Len(verified_items) = Cardinality(merged) * PerDevice
          BY DEF GatewayInv, GatewayCounts
    <3>4. QED BY <2>1, <2>2, <2>4, <2>5, <2>6, <3>1, <3>2, <3>3, WorkerFacts
  <2>8. /\ Countable(MergedLengths)'
        /\ scalability!Total(MergedLengths)'
             = scalability!Total(MergedLengths) + Len(local_items[d])
    <3>1. PICK g : g = MergedLengths' OBVIOUS
    <3>2. \A e \in Device : Len(local_items[e]) \in Nat BY WorkerFacts
    <3>3. MergedLengths \in [merged -> Nat] /\ g \in [merged \cup {d} -> Nat]
          BY <1>1, <2>1, <2>2, <3>1, <3>2 DEF MergedLengths
    <3>4. g[d] = Len(local_items[d]) /\ \A e \in merged : g[e] = MergedLengths[e]
          BY <1>1, <2>1, <2>2, <3>1 DEF MergedLengths
    <3>5. Countable(MergedLengths) BY DEF GatewayInv, GatewayCounts
    <3>6. /\ Countable(g)
          /\ scalability!Total(g) = scalability!Total(MergedLengths) + g[d]
          BY <1>1, <3>3, <3>4, <3>5, TotalNewKey
    <3>7. QED BY <3>1, <3>4, <3>6
  <2>9. /\ Countable(MergedFailed)'
        /\ scalability!Total(MergedFailed)'
             = scalability!Total(MergedFailed) + local_failed[d]
    <3>1. PICK g : g = MergedFailed' OBVIOUS
    <3>2. \A e \in Device : local_failed[e] \in Nat BY WorkerFacts
    <3>3. MergedFailed \in [merged -> Nat] /\ g \in [merged \cup {d} -> Nat]
          BY <1>1, <2>1, <2>2, <3>1, <3>2 DEF MergedFailed
    <3>4. g[d] = local_failed[d] /\ \A e \in merged : g[e] = MergedFailed[e]
          BY <1>1, <2>1, <2>2, <3>1 DEF MergedFailed
    <3>5. Countable(MergedFailed) BY DEF GatewayInv, GatewayCounts
    <3>6. /\ Countable(g)
          /\ scalability!Total(g) = scalability!Total(MergedFailed) + g[d]
          BY <1>1, <3>3, <3>4, <3>5, TotalNewKey
    <3>7. QED BY <3>1, <3>4, <3>6
  <2>10. Lengths' = Lengths /\ scalability!Keeping' = scalability!Keeping
        BY <1>1 DEF Lengths, scalability!Keeping
  <2>11. /\ Len(verified_items') = scalability!Total(MergedLengths)'
         /\ failed_transactions' = scalability!Total(MergedFailed)'
        BY <2>1, <2>6, <2>8, <2>9 DEF GatewayInv, GatewayCounts,
           scalability!GatewayAgrees, MergedLengths, MergedFailed
  <2>12. scalability!GatewayAgrees'
        BY <1>1, <2>10, <2>11 DEF GatewayInv, GatewayCounts, scalability!GatewayAgrees,
           Lengths, MergedLengths, MergedFailed
  <2>13. failed_transactions' \in Nat BY <2>1, <2>2, WorkerFacts
  <2>14. GatewayCounts'
        BY <1>1, <2>7, <2>8, <2>9, <2>10, <2>12, <2>13 DEF GatewayInv, GatewayCounts
  <2>15. merged' \in SUBSET Device /\ \A e \in merged' : worker'[e] = "returned"
        BY <1>1, <1>2, <2>1, <2>2 DEF GatewayInv, WorkersProgress
  <2>16. WorkersProgress'
        BY <1>1, <2>1, <2>15 DEF GatewayInv, WorkersProgress
  <2>17. QED BY <2>14, <2>16
<1>3. CASE worker[d] = "raised"
  <2>1. UNCHANGED <<merged, failed_transactions, verified_items>> /\ pc' = "unwind"
        BY <1>3 DEF scalability!merge
  <2>2. QED BY <1>1, <2>1, MainQuiet
<1>4. QED BY <1>1, <1>2, <1>3

\* Every step of the run.
LEMMA GatewayStep == GatewayInv /\ [scalability!Next]_(scalability!vars) => GatewayInv'
<1> SUFFICES ASSUME GatewayInv, [scalability!Next]_(scalability!vars)
             PROVE  GatewayInv'
    OBVIOUS
<1>1. ScalabilityInv' BY ScalabilityStep DEF GatewayInv
<1>2. CASE scalability!start BY <1>1, <1>2, StartCounts DEF GatewayInv
<1>3. CASE \E d \in Device : scalability!pool(d)
  <2>1. PICK d \in Device : scalability!pool(d) BY <1>3
  <2>2. scalability!verify(d, TRUE) \/ scalability!verify(d, FALSE)
        \/ scalability!keep(d) \/ scalability!return(d)
        BY <2>1 DEF scalability!pool
  <2>3. QED BY <1>1, <2>2, VerifiedCounts, FailedCounts, KeepCounts, ReturnCounts
        DEF GatewayInv
<1>4. CASE \E d \in Device : scalability!merge(d)
      BY <1>1, <1>4, MergeCounts DEF GatewayInv
<1> USE DEF scalability!mergedVars, scalability!submitVars
<1>5. CASE \/ scalability!createBlockchain \/ scalability!deployContracts
           \/ scalability!register \/ scalability!shutdown \/ scalability!finish
           \/ scalability!sendItem \/ scalability!answerItem
           \/ scalability!failItem \/ scalability!simulateItem
           \/ scalability!environment \/ UNCHANGED scalability!vars
  <2>1. UNCHANGED <<batch, relayed_count, failed_count, queue, worker, made,
                    local_failed, local_items, merged, failed_transactions,
                    verified_items>>
        BY <1>5 DEF scalability!createBlockchain, scalability!deployContracts,
           scalability!register, scalability!shutdown, scalability!finish,
           scalability!sendItem, scalability!answerItem, scalability!failItem,
           scalability!simulateItem, scalability!environment, scalability!vars,
           scalability!gatewayVars, scalability!workerVars, scalability!mainVars
  <2>2. pc' \in {"submit", "done"} => pc \in {"submit", "done"} \/ merged = Device
        BY <1>5 DEF scalability!createBlockchain, scalability!deployContracts,
           scalability!register, scalability!shutdown, scalability!finish,
           scalability!sendItem, scalability!answerItem, scalability!failItem,
           scalability!simulateItem, scalability!environment, scalability!vars,
           scalability!mainVars
  <2>3. QED BY <1>1, <2>1, <2>2, MainQuiet DEF GatewayInv
<1>6. QED BY <1>2, <1>3, <1>4, <1>5 DEF scalability!Next, scalability!main

\* The result of a run that is done.
LEMMA GatewaySays ==
  GatewayInv => scalability!GatewayAgrees /\ scalability!ResultComplete
<1> SUFFICES ASSUME GatewayInv, pc = "done"
             PROVE  scalability!GatewayAgrees /\ scalability!ResultComplete
    BY DEF GatewayInv, GatewayCounts, scalability!ResultComplete
<1>1. merged = Device BY DEF GatewayInv, WorkersProgress
<1>2. Keepers = {} BY DEF GatewayInv, ScalabilityInv, scalability!PhasesApart,
                         scalability!Active, Keepers
<1>3. scalability!Keeping = 0
      BY <1>2, SameCount, FS_EmptySet DEF scalability!Keeping, Keepers
<1>4. relayed_count = Len(batch) /\ Len(batch) \in Nat
      BY <1>3, LenProperties DEF GatewayInv, GatewayCounts, scalability!GatewayAgrees
<1>5. MergedLengths = Lengths /\ MergedFailed = local_failed
      BY <1>1 DEF MergedLengths, Lengths, MergedFailed, GatewayInv, WorkersProgress
<1>6. Len(verified_items) = relayed_count /\ failed_transactions = failed_count
      BY <1>4, <1>5 DEF GatewayInv, GatewayCounts, scalability!GatewayAgrees,
         MergedLengths, Lengths, MergedFailed
<1>7. /\ verified_items \in Seq(Item) /\ bc_latencies \in Seq(Item)
      /\ Len(bc_latencies) = Len(verified_items)
      /\ \A k \in 1 .. Len(verified_items) : bc_latencies[k] = verified_items[k]
      BY DEF GatewayInv, ScalabilityInv, SubmittedInOrder
<1>8. Len(verified_items) \in Nat BY <1>7, LenProperties
<1>9. PICK len \in Nat : len = Len(verified_items) BY <1>8
<1>10. scalability!Min({len, len}) = len
  <2>1. \E x \in {len, len} : \A y \in {len, len} : x <= y BY <1>9
  <2>2. QED BY <2>1 DEF scalability!Min
<1>11. /\ scalability!Result.total_transactions = len
       /\ scalability!Result.failed_transactions = failed_transactions
       /\ scalability!Result.overall_latencies
            = [k \in 1 .. len |-> [gateway |-> verified_items[k],
                                   chain |-> bc_latencies[k]]]
       BY <1>7, <1>9, <1>10 DEF scalability!Result
<1>12. PICK lat : lat = [k \in 1 .. len |-> [gateway |-> verified_items[k],
                                             chain |-> bc_latencies[k]]]
       OBVIOUS
<1>13. DOMAIN lat = 1 .. len /\ Len(lat) = len BY <1>9, <1>12
<1>14. \A k \in DOMAIN lat : lat[k].gateway = lat[k].chain
       BY <1>7, <1>9, <1>12, <1>13
<1>15. len + failed_transactions = Cardinality(Device) * PerDevice
  <2>1. failed_transactions + Len(verified_items) = Cardinality(Device) * PerDevice
        BY <1>1 DEF GatewayInv, GatewayCounts
  <2>2. failed_transactions \in Nat BY DEF GatewayInv, GatewayCounts
  <2>3. QED BY <1>9, <2>1, <2>2
<1>16. scalability!ResultComplete
       BY <1>6, <1>9, <1>11, <1>12, <1>13, <1>14, <1>15, SameCount
       DEF scalability!ResultComplete
<1>17. QED BY <1>16 DEF GatewayInv, GatewayCounts

\* The gateway that the threads of a scalability run share loses no update,
\* however they interleave, and the result accounts for every reading, for
\* every set of devices, number of readings and size of the pool
\* (ScalabilityRunner.run, Gateway.relay_data).
THEOREM GatewayTotals == Spec => []GatewayAgrees
<1> DEFINE I == program = "scalability" => GatewayInv
<1>1. Init => I BY Started, GatewayInit
<1>2. I /\ [Next]_vars => I' BY OneProgram, GatewayStep
<1>3. I => GatewayAgrees BY GatewaySays DEF GatewayAgrees
<1>4. QED BY <1>1, <1>2, <1>3, PTL DEF Spec

-----------------------------------------------------------------------------
(* Both runners deliver.                                                   *)

\* A step that delivers is one of the abstract delivery, or changes nothing of it.
LEMMA DeliveryStep ==
  ASSUME NEW S, Accepted \in Seq(S), Delivered \in Seq(S),
         program \in {"relay_path", "scalability"}, program' = program,
         Delivered = Chain, Delivered' = Chain', RunStatus = Outcome,
         RunStatus' = Outcome', Delivers(S, Accepted, Accepted')
  PROVE  [delivery!Next]_(delivery!vars)
<1>1. PICK acc : acc = Accepted OBVIOUS
<1>2. PICK acc1 : acc1 = Accepted' OBVIOUS
<1>3. /\ HandedOver = (flight = "sent") /\ HandedOver' = (flight' = "sent")
      /\ ChainIntact = (code # "gone") /\ ChainIntact' = (code' # "gone")
      BY DEF HandedOver, ChainIntact
<1>4. CASE /\ (flight' = "sent" <=> flight = "sent") /\ (code' = "gone" <=> code = "gone")
           /\ UNCHANGED <<Accepted, Delivered, RunStatus>>
      BY <1>3, <1>4 DEF delivery!vars
<1>5. CASE /\ RunStatus = "running" /\ RunStatus' = "running"
           /\ Delivered' = Delivered
           /\ (flight' = "sent" <=> flight = "sent") /\ (code' = "gone" <=> code = "gone")
           /\ \E new \in Seq(S) : Accepted' = Accepted \o new
  <2>0. HandedOver' = HandedOver /\ ChainIntact' = ChainIntact BY <1>3, <1>5
  <2>1. PICK new \in Seq(S) : acc1 = acc \o new BY <1>1, <1>2, <1>5
  <2>2. acc \in Seq(S) /\ Len(acc) \in Nat /\ Len(new) \in Nat
        BY <1>1, <2>1, LenProperties
  <2>3. /\ acc1 \in Seq(S) /\ Len(acc1) = Len(acc) + Len(new)
        /\ \A k \in 1 .. Len(acc1) :
             acc1[k] = IF k <= Len(acc) THEN acc[k] ELSE new[k - Len(acc)]
        BY <2>1, <2>2, ConcatProperties
  <2>4. CASE Len(new) = 0
    <3>1. Len(acc1) = Len(acc) /\ \A k \in 1 .. Len(acc) : acc1[k] = acc[k]
          BY <2>2, <2>3, <2>4
    <3>2. acc1 = acc BY <2>2, <2>3, <3>1, SeqEqual
    <3>3. QED BY <1>1, <1>2, <1>5, <2>0, <3>2 DEF delivery!vars
  <2>5. CASE Len(new) # 0
    <3> DEFINE tail == SubSeq(acc1, Len(acc) + 1, Len(acc1))
    <3>1. /\ tail \in Seq(S) /\ Len(tail) = Len(new)
          /\ \A k \in 1 .. Len(new) : tail[k] = acc1[Len(acc) + k]
      <4>1. /\ Len(acc) + 1 \in 1 .. Len(acc1) + 1 /\ Len(acc1) \in Len(acc) .. Len(acc1)
            BY <2>2, <2>3
      <4>2. QED BY <2>2, <2>3, <4>1, SubSeqProperties
    <3> HIDE DEF tail
    <3>2. ASSUME NEW k \in 1 .. Len(new) PROVE tail[k] = new[k]
      <4>1. /\ Len(acc) + k \in 1 .. Len(acc1) /\ ~(Len(acc) + k <= Len(acc))
            /\ (Len(acc) + k) - Len(acc) = k
            BY <2>2, <2>3
      <4>2. QED BY <2>3, <3>1, <4>1
    <3>3. tail = new BY <2>1, <3>1, <3>2, SeqEqual
    <3>4. Len(acc1) > Len(acc) /\ acc1 = acc \o tail BY <2>1, <2>2, <2>3, <2>5, <3>3
    <3>5. delivery!AcceptSome
          BY <1>1, <1>2, <1>5, <2>0, <3>4 DEF tail, delivery!AcceptSome, delivery!Accept
    <3>6. QED BY <3>5 DEF delivery!Next
  <2>6. QED BY <2>4, <2>5
<1>6. CASE /\ RunStatus = "running" /\ RunStatus' = "running"
           /\ Accepted' = Accepted /\ Delivered' = Delivered
           /\ flight # "sent" /\ flight' = "sent" /\ (code' = "gone" <=> code = "gone")
           /\ Len(Delivered) < Len(Accepted)
  <2>1. ~HandedOver /\ HandedOver' = TRUE /\ ChainIntact' = ChainIntact
        BY <1>3, <1>6
  <2>2. delivery!HandOver BY <1>6, <2>1 DEF delivery!HandOver
  <2>3. QED BY <2>2 DEF delivery!Next
<1>7. CASE /\ RunStatus = "running" \/ flight = "sent"
           /\ RunStatus' = RunStatus /\ Accepted' = Accepted /\ flight' # "sent"
           /\ code # "gone" /\ code' # "gone" /\ Len(Delivered) < Len(Accepted)
           /\ Delivered' = Append(Delivered, Accepted[Len(Delivered) + 1])
  <2>1. /\ RunStatus = "running" \/ HandedOver
        /\ ChainIntact /\ ChainIntact' = ChainIntact /\ HandedOver' = FALSE
        BY <1>3, <1>7
  <2>2. delivery!Deliver BY <1>7, <2>1 DEF delivery!Deliver
  <2>3. QED BY <2>2 DEF delivery!Next
<1>8. CASE /\ RunStatus' = RunStatus /\ Accepted' = Accepted
           /\ code' = "gone" /\ Delivered' = <<>> /\ flight' # "sent"
  <2>1. ChainIntact' = FALSE /\ HandedOver' = FALSE BY <1>3, <1>8
  <2>2. delivery!Lose BY <1>8, <2>1 DEF delivery!Lose
  <2>3. QED BY <2>2 DEF delivery!Next
<1>9. CASE /\ RunStatus = "running" /\ Accepted' = Accepted /\ Delivered' = Delivered
           /\ (flight' = "sent" <=> flight = "sent") /\ (code' = "gone" <=> code = "gone")
           /\ \/ /\ RunStatus' = "done" /\ flight # "sent"
                 /\ code # "gone" => Delivered = Accepted
              \/ RunStatus' = "aborted"
  <2>1. HandedOver' = HandedOver /\ ChainIntact' = ChainIntact BY <1>3, <1>9
  <2>2. CASE RunStatus' = "aborted"
    <3>1. delivery!Abort BY <1>9, <2>1, <2>2 DEF delivery!Abort
    <3>2. QED BY <3>1 DEF delivery!Next
  <2>3. CASE RunStatus' # "aborted"
    <3>1. ~HandedOver /\ (ChainIntact => Delivered = Accepted) BY <1>3, <1>9, <2>3
    <3>2. delivery!Finish BY <1>9, <2>1, <2>3, <3>1 DEF delivery!Finish
    <3>3. QED BY <3>2 DEF delivery!Next
  <2>4. QED BY <2>2, <2>3
<1>10. QED BY <1>4, <1>5, <1>6, <1>7, <1>8, <1>9 DEF Delivers

\* What the two runners show of a delivery.
LEMMA PathShows ==
  program = "relay_path" =>
    Accepted = batch /\ Delivered = Chain /\ RunStatus = Outcome
BY DEF Accepted, Delivered, RunStatus, path!Submitted, path!Status, Chain, Outcome

LEMMA ScalabilityShows ==
  program = "scalability" =>
    Accepted = verified_items /\ Delivered = Chain /\ RunStatus = Outcome
BY DEF Accepted, Delivered, RunStatus, scalability!Submitted, scalability!Status,
   Chain, Outcome

\* The two runners of the repository that deliver readings implement the
\* abstract delivery: what is verified reaches the chain in order, each once,
\* and a run that ends well has delivered all of it, for every number of
\* devices, readings and threads and every size of a batch, unless the node is
\* restarted and its chain is lost.  A run that raises leaves what it delivered
\* and at most one more, which it had sent.
THEOREM Implements == Spec => ImplementsDelivery
<1> DEFINE I == /\ program = "relay_path" => PathInv
                /\ program = "scalability" => ScalabilityInv
<1>1. Init => I BY Started, PathInit, ScalabilityInit
<1>2. I /\ [Next]_vars => I' BY OneProgram, PathStep, ScalabilityStep
<1>3. Init => delivery!Init
  <2>1. SUFFICES ASSUME Init PROVE delivery!Init
        OBVIOUS
  <2>2. CASE program = "relay_path"
    <3>1. path!Init BY <2>1, <2>2, Started
    <3>2. /\ batch = <<>> /\ Chain = <<>> /\ Outcome = "running"
          /\ code = "none" /\ flight = "none"
          BY <3>1 DEF path!Init, path!calls!Init, path!gateway!Init, path!relay!Init,
             Chain, Outcome
    <3>3. Accepted = <<>> /\ Delivered = <<>> /\ RunStatus = "running"
          BY <2>2, <3>2, PathShows
    <3>4. HandedOver = FALSE /\ ChainIntact = TRUE
          BY <3>2 DEF HandedOver, ChainIntact
    <3>5. QED BY <3>3, <3>4 DEF delivery!Init
  <2>3. CASE program = "scalability"
    <3>1. scalability!Init BY <2>1, <2>3, Started
    <3>2. /\ verified_items = <<>> /\ Chain = <<>> /\ Outcome = "running"
          /\ code = "none" /\ flight = "none"
          BY <3>1 DEF scalability!Init, scalability!calls!Init, scalability!relay!Init,
             Chain, Outcome
    <3>3. Accepted = <<>> /\ Delivered = <<>> /\ RunStatus = "running"
          BY <2>3, <3>2, ScalabilityShows
    <3>4. HandedOver = FALSE /\ ChainIntact = TRUE
          BY <3>2 DEF HandedOver, ChainIntact
    <3>5. QED BY <3>3, <3>4 DEF delivery!Init
  <2>4. CASE program \notin {"relay_path", "scalability"}
    <3>1. HandedOver = FALSE /\ ChainIntact = TRUE
          BY <2>4 DEF HandedOver, ChainIntact
    <3>2. QED BY <2>4, <3>1 DEF delivery!Init, Accepted, Delivered, RunStatus
  <2>5. QED BY <2>2, <2>3, <2>4
<1>4. I /\ [Next]_vars => [delivery!Next]_(delivery!vars)
  <2>1. SUFFICES ASSUME I, [Next]_vars PROVE [delivery!Next]_(delivery!vars)
        OBVIOUS
  <2>2. program' = program BY <2>1, OneProgram
  <2>3. CASE program = "relay_path"
    <3>1. PathInv /\ PathDelivers BY <2>1, <2>3, OneProgram, PathStep
    <3>2. Accepted = batch /\ Delivered = Chain /\ RunStatus = Outcome
          BY <2>3, PathShows
    <3>3. Accepted' = batch' /\ Delivered' = Chain' /\ RunStatus' = Outcome'
          BY <2>2, <2>3 DEF Accepted, Delivered, RunStatus, path!Submitted,
             path!Status, Chain, Outcome
    <3>4. Accepted \in Seq(Nat) /\ Delivered \in Seq(Nat)
          BY <3>1, <3>2, ChainShorter DEF PathInv, PathTypes
    <3>5. Delivers(Nat, Accepted, Accepted')
          BY <3>1, <3>2, <3>3 DEF PathDelivers
    <3>6. QED BY <2>2, <2>3, <3>2, <3>3, <3>4, <3>5, DeliveryStep
  <2>4. CASE program = "scalability"
    <3>1. ScalabilityInv /\ ScalabilityDelivers
          BY <2>1, <2>4, OneProgram, ScalabilityStep
    <3>2. Accepted = verified_items /\ Delivered = Chain /\ RunStatus = Outcome
          BY <2>4, ScalabilityShows
    <3>3. Accepted' = verified_items' /\ Delivered' = Chain' /\ RunStatus' = Outcome'
          BY <2>2, <2>4 DEF Accepted, Delivered, RunStatus, scalability!Submitted,
             scalability!Status, Chain, Outcome
    <3>4. Accepted \in Seq(Item) /\ Delivered \in Seq(Item)
          BY <3>1, <3>2, AtNextItem DEF ScalabilityInv, SubmittedInOrder
    <3>5. Delivers(Item, Accepted, Accepted')
          BY <3>1, <3>2, <3>3 DEF ScalabilityDelivers
    <3>6. QED BY <2>2, <2>4, <3>2, <3>3, <3>4, <3>5, DeliveryStep
  <2>5. CASE program \notin {"relay_path", "scalability"}
    <3>1. HandedOver' = HandedOver /\ ChainIntact' = ChainIntact
          BY <2>2, <2>5 DEF HandedOver, ChainIntact
    <3>2. QED BY <2>2, <2>5, <3>1 DEF delivery!vars, Accepted, Delivered, RunStatus
  <2>6. QED BY <2>3, <2>4, <2>5
<1>5. QED BY <1>1, <1>2, <1>3, <1>4, PTL DEF Spec, ImplementsDelivery, delivery!Spec

-----------------------------------------------------------------------------
(* The benchmark.                                                          *)

\* One measurement, as it is recorded.
Measurement ==
  [scheme : benchmark!Supported, operation : {"keygen", "sign", "verify"},
   iteration : Nat,
   library : {"liboqs", "pqcrypto", "simulation", "cryptography", "raise"},
   backend : {"liboqs", "pqcrypto", "simulation"}, valid : BOOLEAN]

\* The values of the benchmark's variables.
BenchmarkTypes ==
  /\ iterations \in Nat /\ current \in Nat /\ i \in Nat /\ faults \in Nat
  /\ pass \in {"warmup", "keygen", "sign", "verify"}
  /\ stage \in {"keygen", "sign", "verify"}
  /\ results \in Seq(Measurement) /\ all_results \in Seq(Measurement)

\* What a round does depends on the pass.
StageFits ==
  current > 0 =>
    /\ pass = "keygen" => stage = "keygen"
    /\ pass = "sign" => stage = "sign"
    /\ pass = "verify" => stage # "keygen"

\* A library does the calls of the scheme: Dilithium needs one of two.
CanCall ==
  benchmark!name \in {"Dilithium2", "Dilithium3"} => benchmark!OqsDoes \/ host.pqcrypto

\* A scheme whose keys were generated can be called.
GeneratedBefore ==
  \/ stage # "keygen" /\ pass = "warmup"
  \/ pass = "keygen" /\ i > 0
  \/ pass \in {"sign", "verify"} /\ iterations > 0

\* Every measurement of s verified.
AllValid(s) == \A k \in 1 .. Len(s) : s[k].valid

\* Every verification is preceded by a signature of the same round.
BenchmarkInv ==
  /\ BenchmarkTypes /\ StageFits
  /\ outcome = "running" /\ current > 0 =>
       /\ benchmark!name \in benchmark!Supported
       /\ stage = "verify" => benchmark!Valid
       /\ faults = 0 /\ GeneratedBefore => CanCall
  /\ faults = 0 => AllValid(results) /\ AllValid(all_results)

\* A suite begins with nothing measured.
LEMMA BenchmarkInit == benchmark!Init => BenchmarkInv
<1> SUFFICES ASSUME benchmark!Init PROVE BenchmarkInv
    OBVIOUS
<1> USE DEF benchmark!Init
<1>1. BenchmarkTypes BY ParameterAssumption, EmptySeq DEF BenchmarkTypes
<1>2. AllValid(results) /\ AllValid(all_results) BY DEF AllValid
<1>3. QED BY <1>1, <1>2 DEF BenchmarkInv, StageFits

\* The stages of a round follow each other.
LEMMA StageAfter ==
  ASSUME BenchmarkTypes, StageFits, current > 0, benchmark!NextStage
  PROVE  /\ i' \in {i, i + 1}
         /\ stage' \in {"keygen", "sign", "verify"}
         /\ pass = "keygen" => stage' = "keygen"
         /\ pass = "sign" => stage' = "sign"
         /\ pass = "verify" => stage' # "keygen"
         /\ stage' = "verify" => stage = "sign" /\ i' = i
         /\ pass = "warmup" /\ stage' = "sign" => stage = "keygen"
<1>1. CASE pass = "warmup"
  <2>1. benchmark!Stages(pass) = <<"keygen", "sign", "verify">>
        BY <1>1 DEF benchmark!Stages
  <2>2. QED
        BY <1>1, <2>1 DEF benchmark!NextStage, benchmark!LastStage, benchmark!Last, BenchmarkTypes
<1>2. CASE pass = "keygen"
  <2>1. benchmark!Stages(pass) = <<"keygen">> BY <1>2 DEF benchmark!Stages
  <2>2. QED
        BY <1>2, <2>1 DEF benchmark!NextStage, benchmark!LastStage, benchmark!Last, BenchmarkTypes,
           StageFits
<1>3. CASE pass = "sign"
  <2>1. benchmark!Stages(pass) = <<"sign">> BY <1>3 DEF benchmark!Stages
  <2>2. QED
        BY <1>3, <2>1 DEF benchmark!NextStage, benchmark!LastStage, benchmark!Last, BenchmarkTypes,
           StageFits
<1>4. CASE pass = "verify"
  <2>1. benchmark!Stages(pass) = <<"sign", "verify">> BY <1>4 DEF benchmark!Stages
  <2>2. QED
        BY <1>4, <2>1 DEF benchmark!NextStage, benchmark!LastStage, benchmark!Last, BenchmarkTypes,
           StageFits
<1>5. QED BY <1>1, <1>2, <1>3, <1>4 DEF BenchmarkTypes

\* A measurement that is recorded is the only one that is new.
LEMMA RecordStep ==
  ASSUME BenchmarkInv, outcome = "running", current > 0,
         NEW operation \in {"keygen", "sign", "verify"},
         NEW library \in {"liboqs", "pqcrypto", "simulation", "cryptography", "raise"},
         NEW valid \in BOOLEAN, benchmark!Record(operation, library, valid)
  PROVE  /\ results' \in Seq(Measurement)
         /\ valid /\ AllValid(results) => AllValid(results')
<1> DEFINE new == [scheme |-> benchmark!name, operation |-> operation, iteration |-> i,
                   library |-> library, backend |-> benchmark!get_backend(host),
                   valid |-> valid]
<1>1. results \in Seq(Measurement) BY DEF BenchmarkInv, BenchmarkTypes
<1>2. CASE results' = results BY <1>1, <1>2
<1>3. CASE results' = Append(results, new)
  <2>1. benchmark!get_backend(host) \in {"liboqs", "pqcrypto", "simulation"}
        BY DEF benchmark!get_backend
  <2>2. benchmark!name \in benchmark!Supported /\ i \in Nat
        BY DEF BenchmarkInv, BenchmarkTypes
  <2>3. new \in Measurement /\ new.valid = valid BY <2>1, <2>2 DEF Measurement
  <2> HIDE DEF new
  <2>4. /\ results' \in Seq(Measurement) /\ Len(results') = Len(results) + 1
        /\ \A k \in 1 .. Len(results) : results'[k] = results[k]
        /\ results'[Len(results) + 1] = new
        BY <1>1, <1>3, <2>3, AppendProperties
  <2>5. Len(results) \in Nat BY <1>1, LenProperties
  <2>6. QED BY <1>1, <2>3, <2>4, <2>5 DEF AllValid
<1>4. QED BY <1>2, <1>3 DEF benchmark!Record

\* The libraries that may do a call.
LEMMA CallTypes ==
  ASSUME NEW c \in benchmark!Calls, benchmark!name \in benchmark!Supported
  PROVE  /\ c[1] \in {"liboqs", "pqcrypto", "simulation", "cryptography", "raise"}
         /\ c[2] \in {0, 1}
         /\ c[2] = 0 /\ c[1] # "raise" => CanCall
         /\ c[2] = 0 /\ CanCall => c[1] # "raise"
<1>1. benchmark!dispatch(host) \in {"liboqs", "pqcrypto", "simulation"}
      BY DEF benchmark!dispatch
<1>2. CASE benchmark!name = "ECDSA"
  <2>1. c = <<"cryptography", 0>> BY <1>2 DEF benchmark!Calls
  <2>2. QED BY <1>2, <2>1 DEF CanCall
<1>3. CASE benchmark!name = "Falcon-512"
  <2>1. c \in {<<benchmark!dispatch(host), 0>>, <<"raise", 1>>}
        BY <1>3 DEF benchmark!Calls
  <2>2. QED BY <1>1, <1>3, <2>1 DEF CanCall
<1>4. CASE benchmark!name \in {"Dilithium2", "Dilithium3"}
  <2> DEFINE fallback == IF host.pqcrypto THEN "pqcrypto" ELSE "raise"
  <2>1. c \in IF benchmark!OqsDoes THEN {<<"liboqs", 0>>, <<fallback, 1>>}
              ELSE {<<fallback, 0>>}
        BY <1>4 DEF benchmark!Calls
  <2>2. QED BY <1>4, <2>1 DEF CanCall
<1>5. QED BY <1>2, <1>3, <1>4 DEF benchmark!Supported

\* A call that does not raise, and what it has shown.
LEMMA RoundStep ==
  ASSUME BenchmarkInv, benchmark!round
  PROVE  BenchmarkInv'
<1>1. /\ outcome = "running" /\ current > 0 /\ i < benchmark!Rounds
      /\ UNCHANGED <<host, schemes, iterations, current, pass, all_results>>
      BY DEF benchmark!round, benchmark!argVars
<1>2. /\ UNCHANGED <<benchmark!name, CanCall, benchmark!OqsDoes>>
      BY <1>1 DEF benchmark!name, CanCall, benchmark!OqsDoes
<1>3. /\ BenchmarkTypes /\ StageFits /\ benchmark!name \in benchmark!Supported
      /\ stage = "verify" => benchmark!Valid
      /\ faults = 0 /\ GeneratedBefore => CanCall
      /\ faults = 0 => AllValid(results) /\ AllValid(all_results)
      BY <1>1 DEF BenchmarkInv
<1>4. iterations > 0 \/ pass = "warmup"
      BY <1>1, <1>3 DEF benchmark!Rounds, BenchmarkTypes
<1>5. PICK c \in benchmark!Calls :
        /\ faults' = faults + c[2]
        /\ \/ /\ outcome' = "raised" /\ UNCHANGED <<i, stage, results>>
           \/ /\ c[1] # "raise" \/ stage = "verify"
              /\ benchmark!NextStage /\ UNCHANGED outcome
              /\ \/ /\ stage = "keygen" /\ benchmark!Record("keygen", c[1], TRUE)
                    /\ UNCHANGED sig
                 \/ /\ stage = "sign" /\ benchmark!Record("sign", c[1], TRUE)
                    /\ sig' = {[by |-> pair, message |-> benchmark!message]}
                    /\ UNCHANGED pair
                 \/ /\ stage = "verify"
                    /\ benchmark!Record("verify", c[1], c[1] # "raise" /\ benchmark!Valid)
                    /\ UNCHANGED <<pair, sig>>
      BY DEF benchmark!round, benchmark!keygen, benchmark!sign, benchmark!verify,
             benchmark!raise, benchmark!Spend
<1>6. /\ c[1] \in {"liboqs", "pqcrypto", "simulation", "cryptography", "raise"}
      /\ c[2] \in {0, 1}
      /\ c[2] = 0 /\ c[1] # "raise" => CanCall
      /\ c[2] = 0 /\ CanCall => c[1] # "raise"
      BY <1>3, CallTypes
<1>7. faults' \in Nat /\ (faults' = 0 => faults = 0 /\ c[2] = 0)
      BY <1>3, <1>5, <1>6 DEF BenchmarkTypes
<1>8. CASE outcome' = "raised" /\ UNCHANGED <<i, stage, results>>
  <2>1. BenchmarkTypes' BY <1>1, <1>3, <1>7, <1>8 DEF BenchmarkTypes
  <2>2. StageFits' BY <1>1, <1>3, <1>8 DEF StageFits
  <2>3. QED BY <1>1, <1>3, <1>7, <1>8, <2>1, <2>2 DEF BenchmarkInv
<1>9. CASE ~(outcome' = "raised" /\ UNCHANGED <<i, stage, results>>)
  <2>1. /\ c[1] # "raise" \/ stage = "verify"
        /\ benchmark!NextStage /\ UNCHANGED outcome
        BY <1>5, <1>9
  <2>2. /\ i' \in {i, i + 1}
        /\ stage' \in {"keygen", "sign", "verify"}
        /\ pass = "keygen" => stage' = "keygen"
        /\ pass = "sign" => stage' = "sign"
        /\ pass = "verify" => stage' # "keygen"
        /\ stage' = "verify" => stage = "sign" /\ i' = i
        /\ pass = "warmup" /\ stage' = "sign" => stage = "keygen"
        BY <1>1, <1>3, <2>1, StageAfter
  <2>3. faults' = 0 => CanCall
    <3>1. SUFFICES ASSUME faults' = 0 PROVE CanCall
          OBVIOUS
    <3>2. CASE stage = "verify"
      <4>1. GeneratedBefore
            BY <1>1, <1>3, <1>4, <3>2 DEF GeneratedBefore, StageFits, BenchmarkTypes
      <4>2. QED BY <1>3, <1>7, <3>1, <4>1
    <3>3. CASE stage # "verify" BY <1>6, <1>7, <2>1, <3>1, <3>3
    <3>4. QED BY <3>2, <3>3
  <2>4. PICK operation \in {"keygen", "sign", "verify"}, valid \in BOOLEAN :
          benchmark!Record(operation, c[1], valid) /\ (faults' = 0 => valid)
    <3>1. \/ stage = "keygen" /\ benchmark!Record("keygen", c[1], TRUE)
          \/ stage = "sign" /\ benchmark!Record("sign", c[1], TRUE)
          \/ /\ stage = "verify"
             /\ benchmark!Record("verify", c[1], c[1] # "raise" /\ benchmark!Valid)
          BY <1>5, <1>9
    <3>2. CASE stage # "verify" BY <3>1, <3>2
    <3>3. CASE stage = "verify"
      <4>1. PICK valid \in BOOLEAN : valid = (c[1] # "raise" /\ benchmark!Valid)
            OBVIOUS
      <4>2. faults' = 0 => valid BY <1>3, <1>6, <1>7, <2>3, <3>3, <4>1
      <4>3. benchmark!Record("verify", c[1], valid) BY <3>1, <3>3, <4>1
      <4>4. QED BY <4>2, <4>3
    <3>4. QED BY <3>2, <3>3
  <2>5. /\ results' \in Seq(Measurement)
        /\ faults' = 0 => AllValid(results')
        BY <1>1, <1>3, <1>6, <1>7, <2>4, RecordStep
  <2>6. stage' = "verify" => benchmark!Valid'
    <3>1. SUFFICES ASSUME stage' = "verify" PROVE benchmark!Valid'
          OBVIOUS
    <3>2. sig' = {[by |-> pair, message |-> benchmark!message]} /\ UNCHANGED pair
          BY <1>5, <1>9, <2>2, <3>1
    <3>3. UNCHANGED benchmark!message BY <1>1, <2>2, <3>1 DEF benchmark!message
    <3>4. QED BY <3>2, <3>3 DEF benchmark!Valid
  <2>7. BenchmarkTypes'
    <3>1. i' \in Nat BY <1>3, <2>2 DEF BenchmarkTypes
    <3>2. QED BY <1>1, <1>3, <1>7, <2>2, <2>5, <3>1 DEF BenchmarkTypes
  <2>8. StageFits' BY <1>1, <2>2 DEF StageFits
  <2>9. faults' = 0 => AllValid(all_results') BY <1>1, <1>3, <1>7
  <2>10. QED
         BY <1>1, <1>2, <1>3, <2>3, <2>5, <2>6, <2>7, <2>8, <2>9 DEF BenchmarkInv
<1>10. QED BY <1>8, <1>9

\* The next pass is one of the scheme: its keys were generated.
LEMMA PassStep ==
  ASSUME BenchmarkInv, benchmark!endPass
  PROVE  BenchmarkInv'
<1>1. /\ outcome = "running" /\ current > 0 /\ i >= benchmark!Rounds /\ pass # "verify"
      /\ i' = 0
      /\ UNCHANGED <<host, schemes, iterations, outcome, current, pair, sig, results,
                     all_results, faults>>
      BY DEF benchmark!endPass, benchmark!argVars
<1>2. BenchmarkTypes /\ StageFits BY DEF BenchmarkInv
<1>3. \/ pass = "warmup" /\ pass' = "keygen" /\ stage' = "keygen"
      \/ pass = "keygen" /\ pass' = "sign" /\ stage' = "sign"
      \/ pass = "sign" /\ pass' = "verify" /\ stage' = "sign"
  <2> DEFINE after == CHOOSE k \in 2 .. 4 : benchmark!Passes[k - 1] = pass
  <2>1. pass' = benchmark!Passes[after]
        /\ stage' = Head(benchmark!Stages(benchmark!Passes[after]))
        BY DEF benchmark!endPass
  <2>2. /\ benchmark!Passes[1] = "warmup" /\ benchmark!Passes[2] = "keygen"
        /\ benchmark!Passes[3] = "sign" /\ benchmark!Passes[4] = "verify"
        BY DEF benchmark!Passes
  <2>3. \E k \in 2 .. 4 : benchmark!Passes[k - 1] = pass
        BY <1>1, <1>2, <2>2 DEF BenchmarkTypes
  <2>4. after \in 2 .. 4 /\ benchmark!Passes[after - 1] = pass BY <2>3
  <2> HIDE DEF after
  <2>5. /\ Head(benchmark!Stages("keygen")) = "keygen"
        /\ Head(benchmark!Stages("sign")) = "sign"
        /\ Head(benchmark!Stages("verify")) = "sign"
        BY DEF benchmark!Stages
  <2>6. CASE after = 2 BY <2>1, <2>2, <2>4, <2>5, <2>6
  <2>7. CASE after = 3 BY <2>1, <2>2, <2>4, <2>5, <2>7
  <2>8. CASE after = 4 BY <2>1, <2>2, <2>4, <2>5, <2>8
  <2>9. QED BY <2>4, <2>6, <2>7, <2>8
<1>4. UNCHANGED <<benchmark!name, CanCall>>
      BY <1>1 DEF benchmark!name, CanCall, benchmark!OqsDoes
<1>5. GeneratedBefore' => GeneratedBefore
      BY <1>1, <1>2, <1>3 DEF GeneratedBefore, BenchmarkTypes, benchmark!Rounds
<1>6. BenchmarkTypes' BY <1>1, <1>2, <1>3 DEF BenchmarkTypes
<1>7. StageFits' BY <1>3 DEF StageFits
<1>8. UNCHANGED <<AllValid(results), AllValid(all_results)>> BY <1>1 DEF AllValid
<1>9. QED BY <1>1, <1>3, <1>4, <1>5, <1>6, <1>7, <1>8 DEF BenchmarkInv

\* Putting two lists of valid measurements together gives one.
LEMMA BothValid ==
  ASSUME NEW s \in Seq(Measurement), NEW t \in Seq(Measurement)
  PROVE  /\ s \o t \in Seq(Measurement)
         /\ AllValid(s) /\ AllValid(t) => AllValid(s \o t)
<1>1. PICK st : st = s \o t OBVIOUS
<1>2. /\ st \in Seq(Measurement) /\ Len(st) = Len(s) + Len(t)
      /\ \A k \in 1 .. Len(st) : st[k] = IF k <= Len(s) THEN s[k] ELSE t[k - Len(s)]
      BY <1>1, ConcatProperties
<1>3. Len(s) \in Nat /\ Len(t) \in Nat BY LenProperties
<1>4. ASSUME AllValid(s), AllValid(t), NEW k \in 1 .. Len(st) PROVE st[k].valid
  <2>1. CASE k <= Len(s)
    <3>1. k \in 1 .. Len(s) BY <1>2, <1>3, <2>1
    <3>2. QED BY <1>2, <1>4, <2>1, <3>1 DEF AllValid
  <2>2. CASE ~(k <= Len(s))
    <3>1. k - Len(s) \in 1 .. Len(t) BY <1>2, <1>3, <2>2
    <3>2. QED BY <1>2, <1>4, <2>2, <3>1 DEF AllValid
  <2>3. QED BY <2>1, <2>2
<1>5. QED BY <1>1, <1>2, <1>4 DEF AllValid

\* The results of a scheme are kept, and the next one begins.
LEMMA SchemeStep ==
  ASSUME BenchmarkInv, benchmark!endScheme
  PROVE  BenchmarkInv'
<1>1. /\ outcome = "running" /\ pass = "verify"
      /\ all_results' = all_results \o results /\ results' = <<>>
      /\ UNCHANGED <<iterations, host, schemes, faults>>
      /\ \/ outcome' = "returned" /\ UNCHANGED <<current, pass, i, stage>>
         \/ /\ current' = current + 1 /\ pass' = "warmup" /\ i' = 0 /\ stage' = "keygen"
            /\ outcome' = "running" => schemes[current'] \in benchmark!Supported
      BY DEF benchmark!endScheme, benchmark!argVars, benchmark!Collect
<1>2. BenchmarkTypes /\ StageFits BY DEF BenchmarkInv
<1>3. /\ results \in Seq(Measurement) /\ all_results \in Seq(Measurement)
      BY <1>2 DEF BenchmarkTypes
<1>4. PICK al : al = all_results \o results OBVIOUS
<1>5. /\ al \in Seq(Measurement)
      /\ AllValid(all_results) /\ AllValid(results) => AllValid(al)
      BY <1>3, <1>4, BothValid
<1>6. faults' = 0 => AllValid(results') /\ AllValid(all_results')
  <2>1. AllValid(results') BY <1>1 DEF AllValid
  <2>2. QED BY <1>1, <1>4, <1>5, <2>1 DEF BenchmarkInv
<1>7. BenchmarkTypes'
  <2>1. results' \in Seq(Measurement) BY <1>1, EmptySeq
  <2>2. QED BY <1>1, <1>2, <1>4, <1>5, <2>1 DEF BenchmarkTypes
<1>8. StageFits' BY <1>1, <1>2 DEF StageFits
<1>9. outcome' = "running" =>
         /\ schemes[current'] \in benchmark!Supported
         /\ stage' = "keygen" /\ pass' = "warmup"
       BY <1>1
<1>10. outcome' = "running" => ~GeneratedBefore' BY <1>9 DEF GeneratedBefore
<1>11. benchmark!name' = schemes[current'] BY <1>1 DEF benchmark!name
<1>12. QED
       BY <1>6, <1>7, <1>8, <1>9, <1>10, <1>11 DEF BenchmarkInv, benchmark!Supported

\* Every step of the suite.
LEMMA BenchmarkStep ==
  ASSUME BenchmarkInv, [benchmark!Next]_(benchmark!vars)
  PROVE  BenchmarkInv'
<1>1. CASE UNCHANGED benchmark!vars
  <2>1. UNCHANGED <<host, schemes, iterations, outcome, current, pass, i, stage, pair, sig,
                    results, all_results, faults>>
        BY <1>1 DEF benchmark!vars, benchmark!argVars
  <2>2. UNCHANGED <<benchmark!name, CanCall, benchmark!Valid, GeneratedBefore>>
        BY <2>1 DEF benchmark!name, CanCall, benchmark!OqsDoes, benchmark!Valid,
           benchmark!message, GeneratedBefore
  <2>3. UNCHANGED <<AllValid(results), AllValid(all_results)>> BY <2>1 DEF AllValid
  <2>4. BenchmarkTypes' /\ StageFits'
        BY <2>1 DEF BenchmarkInv, BenchmarkTypes, StageFits
  <2>5. QED BY <2>1, <2>2, <2>3, <2>4 DEF BenchmarkInv
<1>2. QED BY <1>1, RoundStep, PassStep, SchemeStep DEF benchmark!Next

\* What a benchmark measures as a verification does verify as long as no call
\* of liboqs fails, for every list of schemes, number of iterations and host
\* (run_full_benchmark_suite).
THEOREM Verifies == Spec => []VerifiesUnlessFault
<1> DEFINE I == program = "benchmark" => BenchmarkInv
<1>1. Init => I BY Started, BenchmarkInit
<1>2. I /\ [Next]_vars => I' BY OneProgram, BenchmarkStep
<1>3. BenchmarkInv => benchmark!VerifiesUnlessFault
  <2>1. SUFFICES ASSUME BenchmarkInv, faults = 0,
                        NEW r \in benchmark!Range(all_results \o results)
                 PROVE  r.valid
        BY DEF benchmark!VerifiesUnlessFault
  <2>2. PICK al : al = all_results \o results OBVIOUS
  <2>3. /\ results \in Seq(Measurement) /\ all_results \in Seq(Measurement)
        /\ AllValid(results) /\ AllValid(all_results)
        BY <2>1 DEF BenchmarkInv, BenchmarkTypes
  <2>4. al \in Seq(Measurement) /\ AllValid(al) BY <2>2, <2>3, BothValid
  <2>5. PICK k \in 1 .. Len(al) : r = al[k]
        BY <2>1, <2>2, <2>4, LenProperties DEF benchmark!Range
  <2>6. QED BY <2>4, <2>5 DEF AllValid
<1>4. I => VerifiesUnlessFault BY <1>3 DEF VerifiesUnlessFault
<1>5. QED BY <1>1, <1>2, <1>4, PTL DEF Spec

-----------------------------------------------------------------------------
(* The script that counts nonces.                                          *)

\* The calls of the script: n registrations, then n submissions.
Calls == 1 .. 2 * n

\* The values of the script's variables.
NonceTypes ==
  /\ pool \in Seq(Calls) /\ mined \in 0 .. Len(pool)
  /\ call \in 1 .. 2 * n + 1
  /\ pc \in {"send", "sync", "wait", "done", "failed"}
  /\ pc \in {"send", "sync"} => call \in Calls
  /\ sent \in Seq(Nat) /\ receipts \in Seq(Nat)

\* Receipts and what is sent of the wave are of the calls made, in order.
InCallOrder ==
  /\ Len(receipts) + Len(sent) = call - 1
  /\ \A k \in 1 .. Len(sent) :
       sent[k] \in 1 .. Len(pool) /\ pool[sent[k]] = Len(receipts) + k
  /\ \A k \in 1 .. Len(receipts) :
       receipts[k] \in 1 .. mined /\ pool[receipts[k]] = k /\ nonce!Succeeds(receipts[k])
  /\ pc = "done" => Len(receipts) = 2 * n

\* Nothing is in the pool before it is called; the current call only when its
\* answer was lost, unless the script has failed.
RepeatedAreLost ==
  /\ \A p \in 1 .. Len(pool) :
       /\ pool[p] <= call
       /\ pool[p] = call /\ pc # "failed" => call \in lost
  /\ \A p, q \in 1 .. Len(pool) : p # q /\ pool[p] = pool[q] => pool[p] \in lost

\* A wave of its own ends the registrations.
RegistrationsAwaited ==
  /\ pc \in {"send", "sync"} /\ call > n => Len(receipts) >= n
  /\ \A p \in 1 .. Len(pool) : pool[p] > n => Len(receipts) >= n

\* The invariant of the script.
NonceInv == NonceTypes /\ InCallOrder /\ RepeatedAreLost /\ RegistrationsAwaited

\* Both phases end with a wave of their own.
LEMMA PhasesEndWaves ==
  ASSUME NEW c \in {n, 2 * n}
  PROVE  nonce!LastOfWave(c)
<1>1. n \in Nat \ {0} BY ParameterAssumption
<1>2. n % n = 0 BY <1>1
<1>3. (2 * n) % n = 0 BY <1>1
<1>4. QED BY <1>2, <1>3 DEF nonce!LastOfWave

\* The script begins with its first call.
LEMMA NonceInit == nonce!Init => NonceInv
<1> SUFFICES ASSUME nonce!Init PROVE NonceInv
    OBVIOUS
<1>0. n \in Nat \ {0} BY ParameterAssumption
<1> USE DEF nonce!Init
<1>1. NonceTypes BY <1>0, EmptySeq DEF NonceTypes, Calls
<1>2. InCallOrder /\ RepeatedAreLost /\ RegistrationsAwaited
      BY <1>0 DEF InCallOrder, RepeatedAreLost, RegistrationsAwaited
<1>3. QED BY <1>1, <1>2 DEF NonceInv

\* Whether a transaction succeeds is decided by the ones before it.
LEMMA SucceedsStays ==
  ASSUME NEW c, pool' = pool \/ pool' = Append(pool, c), pool \in Seq(Calls), c \in Calls,
         NEW p \in 1 .. Len(pool), nonce!Succeeds(p)
  PROVE  nonce!Succeeds(p)'
<1>1. \A q \in 1 .. Len(pool) : pool'[q] = pool[q]
      BY AppendProperties
<1>2. Len(pool) \in Nat BY LenProperties
<1>3. QED BY <1>1, <1>2 DEF nonce!Succeeds, nonce!Registration

\* Steps that send nothing and end no wave.
LEMMA QuietStep ==
  ASSUME NonceInv, UNCHANGED <<pool, call, sent, receipts, lost>>,
         mined' \in mined .. Len(pool),
         \/ UNCHANGED pc \/ pc' = "failed"
         \/ pc \in {"send", "sync"} /\ pc' \in {"send", "sync"}
  PROVE  NonceInv'
<1>0. n \in Nat \ {0} /\ Len(pool) \in Nat
      BY ParameterAssumption, LenProperties DEF NonceInv, NonceTypes
<1>1. NonceTypes' BY <1>0 DEF NonceInv, NonceTypes
<1>2. InCallOrder'
  <2>1. \A k \in 1 .. Len(receipts) :
          receipts[k] \in 1 .. mined' /\ nonce!Succeeds(receipts[k])'
    <3>1. SUFFICES ASSUME NEW k \in 1 .. Len(receipts)
                   PROVE  receipts[k] \in 1 .. mined' /\ nonce!Succeeds(receipts[k])'
          OBVIOUS
    <3>2. receipts[k] \in 1 .. mined /\ nonce!Succeeds(receipts[k])
          BY DEF NonceInv, InCallOrder
    <3>3. PICK p : p = receipts[k] OBVIOUS
    <3>4. nonce!Succeeds(p)' BY <3>2, <3>3 DEF nonce!Succeeds, nonce!Registration
    <3>5. p \in 1 .. mined' BY <1>0, <3>2, <3>3 DEF NonceInv, NonceTypes
    <3>6. QED BY <3>3, <3>4, <3>5
  <2>2. QED BY <2>1 DEF NonceInv, InCallOrder
<1>3. RepeatedAreLost' BY DEF NonceInv, RepeatedAreLost
<1>4. RegistrationsAwaited' BY DEF NonceInv, RegistrationsAwaited
<1>5. QED BY <1>1, <1>2, <1>3, <1>4 DEF NonceInv

\* An accepted transaction is the last of the pool, whether its answer comes,
\* is lost, or is another error.
LEMMA AcceptStep ==
  ASSUME NonceInv, pc = "send", pool' = Append(pool, call), UNCHANGED <<mined, receipts>>,
         \/ /\ sent' = Append(sent, Len(pool) + 1) /\ call' = call + 1 /\ UNCHANGED lost
            /\ pc' = IF nonce!LastOfWave(call) THEN "wait" ELSE "send"
         \/ pc' = "sync" /\ lost' = lost \cup {call} /\ UNCHANGED <<call, sent>>
         \/ pc' = "failed" /\ UNCHANGED <<call, sent, lost>>
  PROVE  NonceInv'
<1>0. n \in Nat \ {0} BY ParameterAssumption
<1>1. NonceTypes /\ InCallOrder /\ RepeatedAreLost /\ RegistrationsAwaited
      BY DEF NonceInv
<1>2. /\ call \in Calls /\ pool \in Seq(Calls) /\ Len(pool) \in Nat
      /\ sent \in Seq(Nat) /\ Len(sent) \in Nat
      /\ receipts \in Seq(Nat) /\ Len(receipts) \in Nat /\ mined \in 0 .. Len(pool)
      BY <1>1, LenProperties DEF NonceTypes
<1>3. /\ pool' \in Seq(Calls) /\ Len(pool') = Len(pool) + 1
      /\ \A p \in 1 .. Len(pool) : pool'[p] = pool[p]
      /\ pool'[Len(pool) + 1] = call
      BY <1>2, AppendProperties
<1>4. /\ Append(sent, Len(pool) + 1) \in Seq(Nat)
      /\ Len(Append(sent, Len(pool) + 1)) = Len(sent) + 1
      /\ \A k \in 1 .. Len(sent) : Append(sent, Len(pool) + 1)[k] = sent[k]
      /\ Append(sent, Len(pool) + 1)[Len(sent) + 1] = Len(pool) + 1
      BY <1>2, AppendProperties
<1>5. pc' = "send" => call # n /\ call # 2 * n BY PhasesEndWaves
<1>6. NonceTypes'
  <2>1. call' \in 1 .. 2 * n + 1 /\ (pc' \in {"send", "sync"} => call' \in Calls)
        BY <1>0, <1>2, <1>5 DEF Calls
  <2>2. sent' \in Seq(Nat) /\ receipts' \in Seq(Nat) BY <1>2, <1>4
  <2>3. pc' \in {"send", "sync", "wait", "done", "failed"} OBVIOUS
  <2>4. mined' \in 0 .. Len(pool') BY <1>2, <1>3
  <2>5. QED BY <1>3, <2>1, <2>2, <2>3, <2>4 DEF NonceTypes
<1>7. InCallOrder'
  <2>1. \A k \in 1 .. Len(receipts) :
          /\ receipts[k] \in 1 .. mined /\ pool'[receipts[k]] = k
          /\ nonce!Succeeds(receipts[k])'
    <3>1. SUFFICES ASSUME NEW k \in 1 .. Len(receipts)
                   PROVE  /\ receipts[k] \in 1 .. mined /\ pool'[receipts[k]] = k
                          /\ nonce!Succeeds(receipts[k])'
          OBVIOUS
    <3>2. PICK p : p = receipts[k] OBVIOUS
    <3>3. p \in 1 .. mined /\ pool[p] = k /\ nonce!Succeeds(p)
          BY <1>1, <3>2 DEF InCallOrder
    <3>4. p \in 1 .. Len(pool) BY <1>2, <3>3
    <3>5. nonce!Succeeds(p)' BY <1>2, <3>3, <3>4, SucceedsStays
    <3>6. QED BY <1>3, <3>2, <3>3, <3>4, <3>5
  <2>2. \A k \in 1 .. Len(sent) : sent[k] \in 1 .. Len(pool')
                                  /\ pool'[sent[k]] = Len(receipts) + k
    <3>1. SUFFICES ASSUME NEW k \in 1 .. Len(sent)
                   PROVE  sent[k] \in 1 .. Len(pool') /\ pool'[sent[k]] = Len(receipts) + k
          OBVIOUS
    <3>2. PICK p : p = sent[k] OBVIOUS
    <3>3. p \in 1 .. Len(pool) /\ pool[p] = Len(receipts) + k
          BY <1>1, <3>2 DEF InCallOrder
    <3>4. QED BY <1>2, <1>3, <3>2, <3>3
  <2>3. CASE UNCHANGED <<call, sent>> /\ pc' # "done"
        BY <1>1, <2>1, <2>2, <2>3 DEF InCallOrder
  <2>4. CASE /\ sent' = Append(sent, Len(pool) + 1) /\ call' = call + 1
             /\ pc' \in {"wait", "send"}
    <3>1. Len(receipts) + Len(sent') = call' - 1
          BY <1>1, <1>2, <1>4, <2>4 DEF InCallOrder, Calls
    <3>2. \A k \in 1 .. Len(sent') : sent'[k] \in 1 .. Len(pool')
                                     /\ pool'[sent'[k]] = Len(receipts) + k
      <4>1. SUFFICES ASSUME NEW k \in 1 .. Len(sent')
                     PROVE  sent'[k] \in 1 .. Len(pool')
                            /\ pool'[sent'[k]] = Len(receipts) + k
            OBVIOUS
      <4>2. CASE k \in 1 .. Len(sent) BY <1>4, <2>2, <2>4, <4>2
      <4>3. CASE k = Len(sent) + 1
        <5>1. sent'[k] = Len(pool) + 1 BY <1>4, <2>4, <4>3
        <5>2. Len(receipts) + k = call
              BY <1>1, <1>2, <4>3 DEF InCallOrder, Calls
        <5>3. QED BY <1>2, <1>3, <5>1, <5>2
      <4>4. QED BY <1>2, <1>4, <2>4, <4>2, <4>3
    <3>3. QED BY <2>1, <2>4, <3>1, <3>2 DEF InCallOrder
  <2>5. QED BY <2>3, <2>4
<1>8. RepeatedAreLost'
  <2>1. ASSUME NEW p \in 1 .. Len(pool')
        PROVE  pool'[p] <= call' /\ (pool'[p] = call' /\ pc' # "failed" => call' \in lost')
    <3>1. CASE p = Len(pool) + 1 BY <1>2, <1>3, <3>1 DEF Calls
    <3>2. CASE p \in 1 .. Len(pool)
      <4>1. pool'[p] = pool[p] /\ pool[p] \in Calls BY <1>2, <1>3, <3>2, ElementOfSeq
      <4>2. pool[p] <= call /\ (pool[p] = call => call \in lost)
            BY <1>1, <3>2 DEF RepeatedAreLost
      <4>3. QED BY <1>2, <4>1, <4>2 DEF Calls
    <3>3. QED BY <1>2, <1>3, <3>1, <3>2
  <2>2. lost \subseteq lost' OBVIOUS
  <2>3. ASSUME NEW p \in 1 .. Len(pool'), NEW q \in 1 .. Len(pool'),
               p # q, pool'[p] = pool'[q]
        PROVE  pool'[p] \in lost'
    <3>1. CASE p \in 1 .. Len(pool) /\ q \in 1 .. Len(pool)
          BY <1>1, <1>3, <2>2, <2>3, <3>1 DEF RepeatedAreLost
    <3>2. CASE p = Len(pool) + 1
      <4>1. q \in 1 .. Len(pool) BY <1>2, <1>3, <2>3, <3>2
      <4>2. QED BY <1>1, <1>3, <2>2, <2>3, <3>2, <4>1 DEF RepeatedAreLost
    <3>3. CASE q = Len(pool) + 1
      <4>1. p \in 1 .. Len(pool) BY <1>2, <1>3, <2>3, <3>3
      <4>2. QED BY <1>1, <1>3, <2>2, <2>3, <3>3, <4>1 DEF RepeatedAreLost
    <3>4. QED BY <1>2, <1>3, <3>1, <3>2, <3>3
  <2>4. QED BY <2>1, <2>3 DEF RepeatedAreLost
<1>9. RegistrationsAwaited'
  <2>1. call > n => Len(receipts) >= n BY <1>1 DEF RegistrationsAwaited
  <2>2. pc' \in {"send", "sync"} /\ call' > n => Len(receipts) >= n
        BY <1>0, <1>2, <1>5, <2>1 DEF Calls
  <2>3. \A p \in 1 .. Len(pool') : pool'[p] > n => Len(receipts) >= n
        BY <1>1, <1>2, <1>3, <2>1 DEF RegistrationsAwaited
  <2>4. QED BY <2>2, <2>3 DEF RegistrationsAwaited
<1>10. QED BY <1>6, <1>7, <1>8, <1>9 DEF NonceInv

\* The receipts of a wave are those of its calls.
LEMMA WaveStep ==
  ASSUME NonceInv, nonce!sendWave
  PROVE  NonceInv'
<1>1. /\ pc = "wait"
      /\ UNCHANGED <<pool, mined, nextNonce, call, lost>>
      BY DEF nonce!sendWave, nonce!chainVars
<1>2. CASE pc' = "failed" /\ UNCHANGED <<sent, receipts>>
  <2>1. mined' \in mined .. Len(pool) BY <1>1 DEF NonceInv, NonceTypes
  <2>2. QED BY <1>1, <1>2, <2>1, QuietStep
<1>3. CASE /\ nonce!AllMined /\ ~nonce!Rejected
           /\ receipts' = receipts \o sent /\ sent' = <<>>
           /\ pc' = IF call > 2 * n THEN "done" ELSE "send"
  <2>0. n \in Nat \ {0} BY ParameterAssumption
  <2>1. NonceTypes /\ InCallOrder /\ RepeatedAreLost /\ RegistrationsAwaited
        BY DEF NonceInv
  <2>2. /\ pool \in Seq(Calls) /\ Len(pool) \in Nat /\ call \in 1 .. 2 * n + 1
        /\ sent \in Seq(Nat) /\ Len(sent) \in Nat
        /\ receipts \in Seq(Nat) /\ Len(receipts) \in Nat /\ mined \in 0 .. Len(pool)
        BY <2>1, LenProperties DEF NonceTypes
  <2>3. /\ receipts' \in Seq(Nat) /\ Len(receipts') = Len(receipts) + Len(sent)
        /\ \A k \in 1 .. Len(receipts') :
             receipts'[k] = IF k <= Len(receipts) THEN receipts[k]
                            ELSE sent[k - Len(receipts)]
        BY <1>3, <2>2, ConcatProperties
  <2>4. Len(receipts') = call - 1 BY <2>1, <2>2, <2>3 DEF InCallOrder
  <2>5. sent' \in Seq(Nat) /\ Len(sent') = 0 BY <1>3, EmptySeq
  <2>6. NonceTypes'
        BY <1>1, <1>3, <2>0, <2>1, <2>2, <2>3, <2>5 DEF NonceTypes, Calls
  <2>7. ASSUME NEW k \in 1 .. Len(receipts')
        PROVE  /\ receipts'[k] \in 1 .. mined /\ pool[receipts'[k]] = k
               /\ nonce!Succeeds(receipts'[k])
    <3>1. CASE k \in 1 .. Len(receipts)
      <4>1. receipts'[k] = receipts[k] BY <2>2, <2>3, <3>1
      <4>2. QED BY <2>1, <3>1, <4>1 DEF InCallOrder
    <3>2. CASE k \notin 1 .. Len(receipts)
      <4>1. PICK m : m = k - Len(receipts) OBVIOUS
      <4>2. m \in 1 .. Len(sent) /\ receipts'[k] = sent[m] /\ Len(receipts) + m = k
            BY <2>2, <2>3, <3>2, <4>1
      <4>3. sent[m] \in 1 .. Len(pool) /\ pool[sent[m]] = k
            BY <2>1, <4>2 DEF InCallOrder
      <4>4. sent[m] <= mined /\ nonce!Succeeds(sent[m])
            BY <1>3, <2>2, <4>2 DEF nonce!AllMined, nonce!Rejected
      <4>5. sent[m] \in 1 .. mined BY <2>2, <4>3, <4>4
      <4>6. QED BY <4>2, <4>3, <4>4, <4>5
    <3>3. QED BY <3>1, <3>2
  <2>8. InCallOrder'
    <3>1. pc' = "done" => Len(receipts') = 2 * n BY <1>3, <2>0, <2>2, <2>4
    <3>2. Len(receipts') + Len(sent') = call' - 1 BY <1>1, <2>2, <2>4, <2>5
    <3>3. \A k \in 1 .. Len(sent') : FALSE BY <2>5
    <3>4. \A k \in 1 .. Len(receipts') :
            receipts'[k] \in 1 .. mined' /\ pool'[receipts'[k]] = k
          BY <1>1, <2>7
    <3>5. QED
          BY <1>1, <2>7, <3>1, <3>2, <3>3, <3>4 DEF InCallOrder, nonce!Succeeds,
             nonce!Registration
  <2>9. RepeatedAreLost' BY <1>1, <1>3, <2>1 DEF RepeatedAreLost
  <2>10. RegistrationsAwaited'
    <3>1. Len(receipts') >= Len(receipts) BY <2>2, <2>3
    <3>2. \A p \in 1 .. Len(pool) : pool[p] > n => Len(receipts') >= n
          BY <2>0, <2>1, <2>2, <2>3, <3>1 DEF RegistrationsAwaited
    <3>3. call > n => Len(receipts') >= n BY <2>0, <2>2, <2>4
    <3>4. QED BY <1>1, <3>2, <3>3 DEF RegistrationsAwaited
  <2>11. QED BY <2>6, <2>8, <2>9, <2>10 DEF NonceInv
<1>4. QED BY <1>2, <1>3 DEF nonce!sendWave

\* Every step of the script and of the chain.
LEMMA NonceStep ==
  ASSUME NonceInv, [nonce!Next]_(nonce!vars)
  PROVE  NonceInv'
<1>0. Len(pool) \in Nat /\ mined \in 0 .. Len(pool)
      BY LenProperties DEF NonceInv, NonceTypes
<1>1. CASE UNCHANGED nonce!vars \/ nonce!mine
  <2>1. /\ UNCHANGED <<pool, call, sent, receipts, lost, pc>>
        /\ UNCHANGED mined \/ (mined < Len(pool) /\ mined' = mined + 1)
        BY <1>1 DEF nonce!vars, nonce!chainVars, nonce!mine
  <2>2. mined' \in mined .. Len(pool) BY <1>0, <2>1
  <2>3. QED BY <2>1, <2>2, QuietStep
<1>2. CASE nonce!firstSync \/ nonce!syncNonce
  <2>1. /\ UNCHANGED <<pool, call, sent, receipts, lost, mined>>
        /\ pc \in {"send", "sync"} /\ pc' \in {"send", "failed"}
        BY <1>2 DEF nonce!firstSync, nonce!syncNonce, nonce!chainVars
  <2>2. mined' \in mined .. Len(pool) BY <1>0, <2>1
  <2>3. QED BY <2>1, <2>2, QuietStep
<1>3. CASE nonce!send
  <2>1. PICK nn : nonce!fn(nn) /\ pc = "send" /\ UNCHANGED <<mined, receipts>>
        BY <1>3 DEF nonce!send
  <2>2. CASE UNCHANGED pool
    <3>1. /\ UNCHANGED <<call, sent, lost>> /\ pc' \in {"sync", "failed"}
      <4>1. pool' # Append(pool, call)
        <5>1. pool \in Seq(Calls) /\ call \in Calls
              BY <2>1 DEF NonceInv, NonceTypes
        <5>2. Len(Append(pool, call)) = Len(pool) + 1 BY <5>1, AppendProperties
        <5>3. QED BY <1>0, <2>2, <5>2
      <4>2. QED BY <2>1, <4>1 DEF nonce!fn, nonce!SyncAgain, nonce!Throw
    <3>2. mined' \in mined .. Len(pool) BY <1>0, <2>1
    <3>3. QED BY <2>1, <2>2, <3>1, <3>2, QuietStep
  <2>3. CASE pool' # pool
    <3>1. /\ pool' = Append(pool, call)
          /\ \/ /\ sent' = Append(sent, Len(pool) + 1) /\ call' = call + 1
                /\ UNCHANGED lost
                /\ pc' = IF nonce!LastOfWave(call) THEN "wait" ELSE "send"
             \/ pc' = "sync" /\ lost' = lost \cup {call} /\ UNCHANGED <<call, sent>>
             \/ pc' = "failed" /\ UNCHANGED <<call, sent, lost>>
          BY <2>1, <2>3 DEF nonce!fn, nonce!SyncAgain, nonce!Throw, nonce!Sent
    <3>2. QED BY <2>1, <3>1, AcceptStep
  <2>4. QED BY <2>2, <2>3
<1>4. CASE nonce!sendWave BY <1>4, WaveStep
<1>5. QED BY <1>1, <1>2, <1>3, <1>4 DEF nonce!Next, nonce!script

\* The script that counts nonces itself has, call by call and in order, a
\* receipt of a mined transaction that succeeded, and repeats only what had its
\* answer lost, for every number of devices, size of a wave and lag of the
\* nodes (base-sepolia-accountable-scalability.js).
THEOREM Receipts == Spec => []ReceiptsMatchCalls
<1> DEFINE I == program = "nonce_script" => NonceInv
<1>1. Init => I BY Started, NonceInit
<1>2. I /\ [Next]_vars => I' BY OneProgram, NonceStep
<1>3. ASSUME NonceInv PROVE nonce!ReceiptsMatchCalls /\ nonce!OnlyLostAnswersRepeat
  <2>1. /\ pool \in Seq(Calls) /\ receipts \in Seq(Nat) /\ mined \in 0 .. Len(pool)
        /\ InCallOrder /\ RepeatedAreLost /\ Len(pool) \in Nat
        BY <1>3, LenProperties DEF NonceInv, NonceTypes
  <2>2. nonce!ReceiptsMatchCalls
    <3>1. SUFFICES ASSUME NEW k \in DOMAIN receipts
                   PROVE  /\ receipts[k] <= mined /\ pool[receipts[k]] = k
                          /\ nonce!Succeeds(receipts[k])
          BY <2>1 DEF nonce!ReceiptsMatchCalls, InCallOrder
    <3>2. k \in 1 .. Len(receipts) BY <2>1, LenProperties
    <3>3. receipts[k] \in 1 .. mined BY <2>1, <3>2 DEF InCallOrder
    <3>4. receipts[k] <= mined BY <2>1, <3>3
    <3>5. QED BY <2>1, <3>2, <3>4 DEF InCallOrder
  <2>3. nonce!OnlyLostAnswersRepeat
    <3>1. SUFFICES ASSUME NEW c \in 1 .. 2 * n, c \notin lost
                   PROVE  ~(nonce!Occurrences(c) > 1)
          BY DEF nonce!OnlyLostAnswersRepeat
    <3> DEFINE at == {p \in DOMAIN pool : pool[p] = c}
    <3>2. nonce!Occurrences(c) = Cardinality(at) BY DEF nonce!Occurrences, nonce!Cardinality, Cardinality
    <3>3. \A p, q \in at : p = q
          BY <2>1, <3>1, LenProperties DEF RepeatedAreLost
    <3> HIDE DEF at
    <3>4. CASE at = {}
      <4>1. Cardinality(at) = 0 BY <3>4, FS_EmptySet
      <4>2. QED BY <3>2, <4>1
    <3>5. CASE at # {}
      <4>1. PICK p \in at : TRUE BY <3>5
      <4>2. at = {p} BY <3>3, <4>1
      <4>3. Cardinality(at) = 1 BY <4>2, FS_Singleton
      <4>4. QED BY <3>2, <4>3
    <3>6. QED BY <3>4, <3>5
  <2>4. QED BY <2>2, <2>3
<1>4. I => ReceiptsMatchCalls BY <1>3 DEF ReceiptsMatchCalls
<1>5. QED BY <1>1, <1>2, <1>4, PTL DEF Spec

\* No submission of that script is accepted before the registration of every
\* device is mined, though a wave awaits only its own transactions.
THEOREM Registrations == Spec => []RegisteredBeforeSubmitted
<1> DEFINE I == program = "nonce_script" => NonceInv
<1>1. Init => I BY Started, NonceInit
<1>2. I /\ [Next]_vars => I' BY OneProgram, NonceStep
<1>3. ASSUME NonceInv PROVE nonce!RegisteredBeforeSubmitted
  <2>0. n \in Nat \ {0} BY ParameterAssumption
  <2>1. /\ pool \in Seq(Calls) /\ receipts \in Seq(Nat)
        /\ Len(pool) \in Nat /\ Len(receipts) \in Nat
        /\ InCallOrder /\ RegistrationsAwaited
        BY <1>3, LenProperties DEF NonceInv, NonceTypes
  <2>2. SUFFICES ASSUME NEW p \in DOMAIN pool, ~nonce!Registration(pool[p]),
                        NEW c \in 1 .. n
                 PROVE  \E q \in 1 .. mined : pool[q] = c
        BY DEF nonce!RegisteredBeforeSubmitted
  <2>3. p \in 1 .. Len(pool) BY <2>1, LenProperties
  <2>4. pool[p] \in Nat /\ ~(pool[p] <= n)
        BY <2>0, <2>1, <2>2, <2>3, ElementOfSeq DEF Calls, nonce!Registration
  <2>5. Len(receipts) >= n BY <2>0, <2>1, <2>3, <2>4 DEF RegistrationsAwaited
  <2>6. c \in 1 .. Len(receipts) BY <2>0, <2>1, <2>5
  <2>7. QED BY <2>1, <2>6 DEF InCallOrder
<1>4. I => RegisteredBeforeSubmitted BY <1>3 DEF RegisteredBeforeSubmitted
<1>5. QED BY <1>1, <1>2, <1>4, PTL DEF Spec
=============================================================================

