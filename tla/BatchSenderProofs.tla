-------------------------- MODULE BatchSenderProofs -------------------------
(***************************************************************************)
(* The script of the two relays: what it reports as confirmed is stored,   *)
(* and what it misses is bounded by the faults it met.  The invariant is   *)
(* in two parts: the books of pools, chain and receipts (BatchState), and  *)
(* the devices at risk, of which there are at most as many as faults       *)
(* (BatchInv); every action shows which devices it may put at risk.        *)
(***************************************************************************)
EXTENDS ExperimentsProofs

-----------------------------------------------------------------------------
(* The script of the two relays.                                           *)

\* A device, as its relay and its place among the devices of the relay.
Devices == Relay \X (1 .. PER)

\* A transaction: registerDID is method 1, submitTransaction 2.
Tx == [method : {1, 2}, device : Devices]

\* The values of the script's variables.
BatchTypes ==
  /\ phase \in {1, 2, 3}
  /\ pc \in [Relay -> {"send", "retry", "wait", "returned"}]
  /\ position \in [Relay -> 0 .. PER]
  /\ sent \in [Relay -> Seq(Nat)] /\ receipts \in [Relay -> Seq(Nat)]
  /\ pool \in [Relay -> Seq(Tx)] /\ status \in [Relay -> Seq(BOOLEAN)]
  /\ onChain \subseteq Devices /\ stored \in Seq(Devices)
  /\ confirmed \subseteq Devices
  /\ faults \in Nat

\* A relay sends while devices are left, and has awaited all when it returns.
CoroutinePlaces ==
  \A r \in Relay :
    /\ pc[r] \in {"send", "retry"} => position[r] < PER
    /\ pc[r] = "returned" => position[r] = PER /\ sent[r] = <<>>

\* The places of the mined transactions in the pool of a relay.
Mined(r) == 1 .. Len(status[r])

\* The transaction a relay may send next, or has begun to send.
IsNext(r, tx) ==
  pc[r] = "retry" /\ tx.method = phase /\ tx.device = <<r, position[r] + 1>>

\* Whether a relay has dealt with the transaction in its present phase.
IsBehind(r, tx) ==
  \/ tx.method < phase
  \/ tx.method = phase /\ tx.device[2] <= position[r]

\* The pool of a relay holds its own transactions, none ahead of its time, and
\* the chain executed the ones that are mined.
PoolIsOfRelay ==
  \A r \in Relay :
    /\ Len(status[r]) <= Len(pool[r])
    /\ \A p \in 1 .. Len(pool[r]) :
         /\ pool[r][p].device[1] = r
         /\ phase # 3 => IsBehind(r, pool[r][p]) \/ IsNext(r, pool[r][p])
    /\ \A p \in Mined(r) :
         /\ pool[r][p].method = 1 => pool[r][p].device \in onChain
         /\ pool[r][p].method = 2 /\ status[r][p] =>
              batches!Contains(stored, pool[r][p].device)

\* The relay of d had a transaction of method m mined for it.
HasTx(d, m) ==
  \E p \in Mined(d[1]) : pool[d[1]][p].method = m /\ pool[d[1]][p].device = d

\* A device that is registered, or has a transaction stored, owes it to a mined one.
ChainIsOfPool ==
  /\ \A d \in onChain : HasTx(d, 1)
  /\ \A d \in Devices : batches!Contains(stored, d) => HasTx(d, 2)

\* What a relay awaits and what it has a receipt of are transactions of this
\* phase, for devices it is done with.
AwaitedAreOfPhase ==
  phase # 3 => \A r \in Relay :
    /\ \A j \in 1 .. Len(sent[r]) :
         /\ sent[r][j] \in 1 .. Len(pool[r])
         /\ pool[r][sent[r][j]].method = phase
         /\ pool[r][sent[r][j]].device[2] <= position[r]
    /\ \A j \in 1 .. Len(receipts[r]) :
         /\ receipts[r][j] \in Mined(r) /\ status[r][receipts[r][j]]
         /\ pool[r][receipts[r][j]].method = phase

\* A confirmed device is stored.
ConfirmedAreStored == \A d \in confirmed : batches!Contains(stored, d)

\* The books of the script, without the devices at risk.
BatchState ==
  /\ BatchTypes /\ CoroutinePlaces /\ PoolIsOfRelay /\ ChainIsOfPool
  /\ AwaitedAreOfPhase /\ ConfirmedAreStored

-----------------------------------------------------------------------------

\* A transaction awaited will have a receipt: it has succeeded, or it is the
\* only one for its device and the device is registered before it is mined.
WillSucceed(r, p) ==
  IF p \in Mined(r) THEN status[r][p]
  ELSE /\ pool[r][p].device \in onChain
       /\ \A q \in 1 .. Len(pool[r]) : pool[r][q] = pool[r][p] => q = p

\* The relay of d holds a receipt for it.
HasReceipt(d) ==
  \E j \in 1 .. Len(receipts[d[1]]) : pool[d[1]][receipts[d[1]][j]].device = d

\* The relay of d awaits a transaction for it.
IsAwaited(d) ==
  \E j \in 1 .. Len(sent[d[1]]) : pool[d[1]][sent[d[1]][j]].device = d

\* One that the relay of d awaits will have a receipt.
WillBeConfirmed(d) ==
  \E j \in 1 .. Len(sent[d[1]]) :
    pool[d[1]][sent[d[1]][j]].device = d /\ WillSucceed(d[1], sent[d[1]][j])

\* Its relay has not failed for it just now.
NotAtRetry(d) == pc[d[1]] = "retry" => d[2] # position[d[1]] + 1

\* A device nothing has gone wrong for: it is registered or its registration is
\* awaited before the first phase ends, and in the second its submission has a
\* receipt or will have one.
OnTrack(d) ==
  /\ phase = 1 =>
       /\ NotAtRetry(d)
       /\ d[2] <= position[d[1]] => d \in onChain \/ IsAwaited(d)
  /\ phase = 2 =>
       /\ NotAtRetry(d)
       /\ IF d[2] <= position[d[1]] THEN HasReceipt(d) \/ WillBeConfirmed(d)
          ELSE d \in onChain
  /\ phase = 3 => d \in confirmed

\* The devices the report will lack unless they are lucky.
AtRisk == {d \in Devices : ~OnTrack(d)}

\* The invariant of the script: each device at risk was put there by a fault.
BatchInv == BatchState /\ Cardinality(AtRisk) <= faults

\* A fault puts one device at risk.
LEMMA OneFaultOneDevice ==
  ASSUME BatchInv, BatchState', NEW x,
         \/ AtRisk' \subseteq AtRisk /\ faults' \in {faults, faults + 1}
         \/ AtRisk' \subseteq AtRisk \cup {x} /\ faults' = faults + 1
  PROVE  BatchInv'
<1> DEFINE now == AtRisk
           after == AtRisk'
<1>1. IsFiniteSet(Devices)
  <2>1. IsFiniteSet(Relay) /\ IsFiniteSet(1 .. PER)
        BY ParameterAssumption, FS_Interval
  <2>2. QED BY <2>1, FS_Product DEF Devices
<1>2. now \subseteq Devices /\ after \subseteq Devices BY DEF AtRisk
<1>3. IsFiniteSet(now) /\ IsFiniteSet(after) BY <1>1, <1>2, FS_Subset
<1>4. Cardinality(now) \in Nat /\ Cardinality(after) \in Nat BY <1>3, FS_CardinalityType
<1>5. Cardinality(now) <= faults /\ faults \in Nat
      BY DEF BatchInv, BatchState, BatchTypes
<1>6. \/ after \subseteq now /\ faults' \in {faults, faults + 1}
      \/ after \subseteq now \cup {x} /\ faults' = faults + 1
      OBVIOUS
<1> HIDE DEF now, after
<1>7. CASE after \subseteq now /\ faults' \in {faults, faults + 1}
  <2>1. Cardinality(after) <= Cardinality(now) BY <1>3, <1>7, FS_Subset
  <2>2. Cardinality(after) <= faults' BY <1>4, <1>5, <1>7, <2>1
  <2>3. QED BY <2>2 DEF after, BatchInv
<1>8. CASE after \subseteq now \cup {x} /\ faults' = faults + 1
  <2>1. /\ IsFiniteSet(now \cup {x})
        /\ Cardinality(now \cup {x}) <= Cardinality(now) + 1
    <3>1. /\ IsFiniteSet(now \cup {x})
          /\ Cardinality(now \cup {x})
               = IF x \in now THEN Cardinality(now) ELSE Cardinality(now) + 1
          BY <1>3, FS_AddElement
    <3>2. QED BY <1>4, <3>1
  <2>2. Cardinality(after) <= Cardinality(now \cup {x}) BY <1>8, <2>1, FS_Subset
  <2>3. Cardinality(now \cup {x}) \in Nat BY <2>1, FS_CardinalityType
  <2>4. Cardinality(after) <= faults' BY <1>4, <1>5, <1>8, <2>1, <2>2, <2>3
  <2>5. QED BY <2>4 DEF after, BatchInv
<1>9. QED BY <1>6, <1>7, <1>8

\* What the transaction mined next, at m in its pool, does to the chain.
MineOutcome(r, m, ok) ==
  /\ m = Len(status[r]) + 1 /\ m \in 1 .. Len(pool[r]) /\ pool[r][m] \in Tx
  /\ ok = batches!Accepts(pool[r][m])
  /\ status' \in [Relay -> Seq(BOOLEAN)]
  /\ \A s \in Relay : s # r => status'[s] = status[s]
  /\ Len(status'[r]) = m /\ status'[r][m] = ok
  /\ \A p \in Mined(r) : status'[r][p] = status[r][p]
  /\ onChain' = IF ok /\ pool[r][m].method = 1
                THEN onChain \cup {pool[r][m].device} ELSE onChain
  /\ stored' = IF ok /\ pool[r][m].method = 2
               THEN Append(stored, pool[r][m].device) ELSE stored
  /\ UNCHANGED <<phase, pc, position, sent, receipts, confirmed, pool, faults>>

\* Mining a transaction does that.
LEMMA MineFacts ==
  ASSUME BatchState, NEW r \in Relay, batches!mine(r)
  PROVE  \E m \in Nat, ok \in BOOLEAN : MineOutcome(r, m, ok)
<1> USE DEF MineOutcome
<1> DEFINE m == Len(status[r]) + 1
<1>1. status[r] \in Seq(BOOLEAN) /\ pool[r] \in Seq(Tx)
      BY DEF BatchState, BatchTypes
<1>2. Len(status[r]) \in Nat /\ Len(pool[r]) \in Nat BY <1>1, LenProperties
<1>3. Len(status[r]) < Len(pool[r]) BY DEF batches!mine
<1>4. m \in Nat /\ m \in 1 .. Len(pool[r]) BY <1>2, <1>3
<1>5. pool[r][m] \in Tx BY <1>1, <1>4, ElementOfSeq
<1>6. PICK ok \in BOOLEAN : ok = batches!Accepts(pool[r][m])
      BY DEF batches!Accepts, batches!Contains
<1>7. /\ status' = [status EXCEPT ![r] = Append(@, ok)]
      /\ onChain' = IF ok /\ pool[r][m].method = 1
                    THEN onChain \cup {pool[r][m].device} ELSE onChain
      /\ stored' = IF ok /\ pool[r][m].method = 2
                   THEN Append(stored, pool[r][m].device) ELSE stored
      /\ UNCHANGED <<phase, pc, position, sent, receipts, confirmed, pool, faults>>
      BY <1>6 DEF batches!mine, batches!relayVars
<1>8. status \in [Relay -> Seq(BOOLEAN)] BY DEF BatchState, BatchTypes
<1>9. /\ Append(status[r], ok) \in Seq(BOOLEAN) /\ Len(Append(status[r], ok)) = m
      /\ Append(status[r], ok)[m] = ok
      /\ \A p \in Mined(r) : Append(status[r], ok)[p] = status[r][p]
      BY <1>1, AppendProperties DEF Mined
<1>10. /\ status' \in [Relay -> Seq(BOOLEAN)]
       /\ status'[r] = Append(status[r], ok)
       /\ \A s \in Relay : s # r => status'[s] = status[s]
       BY <1>7, <1>8, <1>9
<1> HIDE DEF m
<1>11. QED BY <1>4, <1>5, <1>6, <1>7, <1>9, <1>10 DEF m

\* What is stored stays stored.
LEMMA StoredStays ==
  ASSUME NEW d, NEW e, stored \in Seq(Devices), e \in Devices
  PROVE  /\ Append(stored, e) \in Seq(Devices)
         /\ Len(Append(stored, e)) = Len(stored) + 1
         /\ batches!Contains(stored, d) => batches!Contains(Append(stored, e), d)
         /\ batches!Contains(Append(stored, e), e)
<1>1. /\ Append(stored, e) \in Seq(Devices) /\ Len(stored) \in Nat
      /\ Len(Append(stored, e)) = Len(stored) + 1
      /\ \A k \in 1 .. Len(stored) : Append(stored, e)[k] = stored[k]
      /\ Append(stored, e)[Len(stored) + 1] = e
      BY AppendProperties, LenProperties
<1>2. QED BY <1>1 DEF batches!Contains

\* A transaction that is mined keeps the books of the chain.
LEMMA MineState ==
  ASSUME BatchState, NEW r \in Relay, batches!mine(r)
  PROVE  BatchState'
<1> USE DEF MineOutcome
<1>1. PICK m \in Nat, ok \in BOOLEAN : MineOutcome(r, m, ok) BY MineFacts
<1>2. /\ BatchTypes /\ CoroutinePlaces /\ PoolIsOfRelay /\ ChainIsOfPool
      /\ AwaitedAreOfPhase /\ ConfirmedAreStored
      BY DEF BatchState
<1>3. PICK dev \in Devices : dev = pool[r][m].device /\ dev[1] = r
      BY <1>1, <1>2 DEF Tx, PoolIsOfRelay
<1>19. pool[r][m].method \in {1, 2} BY <1>1 DEF Tx
<1>4. \A s \in Relay : Len(status[s]) \in Nat BY <1>2, LenProperties DEF BatchTypes
<1>5. \A s \in Relay : \A p \in 1 .. Len(status'[s]) :
        \/ p \in Mined(s) /\ status'[s][p] = status[s][p]
        \/ s = r /\ p = m
      BY <1>1, <1>4 DEF Mined
<1>6. \A s \in Relay : \A p \in Mined(s) :
        p \in 1 .. Len(status'[s]) /\ status'[s][p] = status[s][p]
      BY <1>1, <1>4 DEF Mined
<1>7. /\ stored' \in Seq(Devices)
      /\ \A d : batches!Contains(stored, d) => batches!Contains(stored', d)
      /\ ok /\ pool[r][m].method = 2 => batches!Contains(stored', dev)
      BY <1>1, <1>2, <1>3, StoredStays DEF BatchTypes
<1>8. \A d \in Devices : batches!Contains(stored', d) =>
        batches!Contains(stored, d) \/ (d = dev /\ pool[r][m].method = 2)
  <2>1. stored \in Seq(Devices) /\ Len(stored) \in Nat
        BY <1>2, LenProperties DEF BatchTypes
  <2>2. CASE stored' = stored BY <2>2 DEF batches!Contains
  <2>3. CASE stored' = Append(stored, dev) /\ pool[r][m].method = 2
    <3>1. /\ Len(stored') = Len(stored) + 1 /\ stored'[Len(stored) + 1] = dev
          /\ \A k \in 1 .. Len(stored) : stored'[k] = stored[k]
          BY <1>3, <2>1, <2>3, AppendProperties
    <3>2. QED BY <2>1, <2>3, <3>1 DEF batches!Contains
  <2>4. QED BY <1>1, <1>3, <2>2, <2>3
<1>9. onChain \subseteq onChain' /\ onChain' \subseteq onChain \cup {dev}
      /\ (dev \in onChain' \/ pool[r][m].method # 1)
      /\ (dev \in onChain' /\ dev \notin onChain => pool[r][m].method = 1)
      BY <1>1, <1>3 DEF batches!Accepts
<1>10. UNCHANGED <<phase, pc, position, sent, receipts, confirmed, pool, faults>>
      BY <1>1
<1>11. m \in 1 .. Len(status'[r]) /\ status' \in [Relay -> Seq(BOOLEAN)]
       /\ status'[r][m] = ok /\ m \in 1 .. Len(pool[r])
      BY <1>1
<1>12. BatchTypes'
  <2>1. onChain' \subseteq Devices BY <1>2, <1>3, <1>9 DEF BatchTypes
  <2>2. QED BY <1>2, <1>7, <1>10, <1>11, <2>1 DEF BatchTypes
<1>13. CoroutinePlaces' BY <1>2, <1>10 DEF CoroutinePlaces
<1>14. PoolIsOfRelay'
  <2>1. SUFFICES ASSUME NEW s \in Relay
                 PROVE  /\ Len(status'[s]) <= Len(pool[s])
                        /\ \A p \in 1 .. Len(status'[s]) :
                             /\ pool[s][p].method = 1 => pool[s][p].device \in onChain'
                             /\ pool[s][p].method = 2 /\ status'[s][p] =>
                                  batches!Contains(stored', pool[s][p].device)
        BY <1>2, <1>10 DEF PoolIsOfRelay, IsBehind, IsNext, Mined, batches!Contains
  <2>2. Len(status'[s]) <= Len(pool[s]) BY <1>1, <1>2 DEF PoolIsOfRelay
  <2>3. ASSUME NEW p \in 1 .. Len(status'[s])
        PROVE  /\ pool[s][p].method = 1 => pool[s][p].device \in onChain'
               /\ pool[s][p].method = 2 /\ status'[s][p] =>
                    batches!Contains(stored', pool[s][p].device)
    <3>1. CASE p \in Mined(s) /\ status'[s][p] = status[s][p]
          BY <1>2, <1>7, <1>9, <3>1 DEF PoolIsOfRelay
    <3>2. CASE s = r /\ p = m BY <1>7, <1>9, <1>3, <1>11, <3>2
    <3>3. QED BY <1>5, <3>1, <3>2
  <2>4. QED BY <2>2, <2>3
<1>15. ChainIsOfPool'
  <2>1. ASSUME NEW d \in Devices, NEW k \in {1, 2}, HasTx(d, k)
        PROVE  HasTx(d, k)'
    <3>1. d[1] \in Relay BY DEF Devices
    <3>2. PICK p \in Mined(d[1]) : pool[d[1]][p].method = k /\ pool[d[1]][p].device = d
          BY <2>1 DEF HasTx
    <3>3. p \in 1 .. Len(status'[d[1]]) BY <1>6, <3>1
    <3>4. QED BY <1>10, <3>2, <3>3 DEF HasTx, Mined
  <2>2. ASSUME NEW k \in {1, 2}, pool[r][m].method = k PROVE HasTx(dev, k)'
        BY <1>3, <1>10, <1>11, <2>2 DEF HasTx, Mined
  <2>3. ASSUME NEW d \in onChain' PROVE HasTx(d, 1)'
    <3>1. CASE d \in onChain
          BY <1>2, <2>1, <3>1 DEF ChainIsOfPool, BatchTypes
    <3>2. CASE d = dev /\ d \notin onChain
      <4>1. pool[r][m].method = 1 BY <1>9, <3>2
      <4>2. HasTx(dev, 1)' BY <2>2, <4>1
      <4>3. QED BY <3>2, <4>2
    <3>3. QED BY <1>9, <3>1, <3>2
  <2>4. ASSUME NEW d \in Devices, batches!Contains(stored', d) PROVE HasTx(d, 2)'
    <3>1. CASE batches!Contains(stored, d)
          BY <1>2, <2>1, <3>1 DEF ChainIsOfPool
    <3>2. CASE d = dev /\ pool[r][m].method = 2
      <4>1. HasTx(dev, 2)' BY <2>2, <3>2
      <4>2. QED BY <3>2, <4>1
    <3>3. QED BY <1>8, <2>4, <3>1, <3>2
  <2>5. (\A d \in Devices : batches!Contains(stored, d) => HasTx(d, 2))'
        BY <2>4 DEF batches!Contains
  <2>6. (\A d \in onChain : HasTx(d, 1))' BY <2>3
  <2>7. QED BY <2>5, <2>6 DEF ChainIsOfPool
<1>16. AwaitedAreOfPhase'
  <2>1. SUFFICES ASSUME phase # 3, NEW s \in Relay, NEW j \in 1 .. Len(receipts[s])
                 PROVE  /\ receipts[s][j] \in 1 .. Len(status'[s])
                        /\ status'[s][receipts[s][j]]
        BY <1>2, <1>10 DEF AwaitedAreOfPhase, Mined
  <2>2. receipts[s][j] \in Mined(s) /\ status[s][receipts[s][j]]
        BY <1>2, <2>1 DEF AwaitedAreOfPhase
  <2>3. QED BY <1>6, <2>2
<1>17. ConfirmedAreStored'
       BY <1>2, <1>7, <1>10 DEF ConfirmedAreStored, batches!Contains
<1>18. QED BY <1>12, <1>13, <1>14, <1>15, <1>16, <1>17 DEF BatchState

\* What makes a transaction succeed stays so until it is mined, and then it does.
LEMMA MineTrack ==
  ASSUME BatchState, NEW r \in Relay, batches!mine(r), NEW d \in Devices, OnTrack(d)
  PROVE  OnTrack(d)'
<1> USE DEF MineOutcome
<1>1. PICK m \in Nat, ok \in BOOLEAN : MineOutcome(r, m, ok) BY MineFacts
<1>2. /\ BatchTypes /\ PoolIsOfRelay /\ ChainIsOfPool /\ AwaitedAreOfPhase
      BY DEF BatchState
<1>3. \A s \in Relay : Len(status[s]) \in Nat BY <1>2, LenProperties DEF BatchTypes
<1>4. \A s \in Relay : \A p \in Mined(s) :
        p \in 1 .. Len(status'[s]) /\ status'[s][p] = status[s][p]
      BY <1>1, <1>3 DEF Mined
<1>5. onChain \subseteq onChain' BY <1>1
<1>6. PICK s \in Relay : s = d[1] BY DEF Devices
<1>7. CASE phase = 2
  <2>1. ASSUME NEW j \in 1 .. Len(sent[s]), pool[s][sent[s][j]].device = d,
               WillSucceed(s, sent[s][j])
        PROVE  WillBeConfirmed(d)'
    <3>1. PICK p : p = sent[s][j] OBVIOUS
    <3>2. /\ p \in 1 .. Len(pool[s]) /\ pool[s][p].method = 2
          /\ pool[s][p].device = d /\ WillSucceed(s, p)
          BY <1>2, <1>7, <2>1, <3>1 DEF AwaitedAreOfPhase
    <3>3. WillSucceed(s, p)'
      <4>1. CASE p \in Mined(s)
            BY <1>4, <3>2, <4>1 DEF WillSucceed, Mined
      <4>2. CASE p \notin Mined(s) /\ s = r /\ p = m
        <5>1. d \in onChain /\ \A q \in 1 .. Len(pool[s]) : pool[s][q] = pool[s][p] => q = p
              BY <3>2, <4>2 DEF WillSucceed
        <5>2. ~batches!Contains(stored, d)
          <6>1. SUFFICES ASSUME batches!Contains(stored, d) PROVE FALSE OBVIOUS
          <6>2. PICK q \in Mined(s) : pool[s][q].method = 2 /\ pool[s][q].device = d
                BY <1>2, <1>6, <6>1 DEF ChainIsOfPool, HasTx
          <6>3. q \in 1 .. Len(pool[s])
            <7>1. Len(pool[s]) \in Nat /\ Len(status[s]) <= Len(pool[s])
                  BY <1>2, LenProperties DEF BatchTypes, PoolIsOfRelay
            <7>2. QED BY <1>3, <7>1 DEF Mined
          <6>4. pool[s][q] \in Tx /\ pool[s][p] \in Tx
                BY <1>2, <3>2, <6>3, ElementOfSeq DEF BatchTypes
          <6>5. pool[s][q] = pool[s][p] BY <3>2, <6>2, <6>4 DEF Tx
          <6>6. QED BY <4>2, <5>1, <6>2, <6>3, <6>5
        <5>3. ok BY <1>1, <3>2, <4>2, <5>1, <5>2 DEF batches!Accepts
        <5>4. m \in 1 .. m
          <6>1. m = Len(status[r]) + 1 BY <1>1
          <6>2. QED BY <1>3, <6>1
        <5>5. p \in 1 .. Len(status'[s]) /\ status'[s][p]
          <6>1. Len(status'[r]) = m /\ status'[r][m] = ok BY <1>1
          <6>2. QED BY <4>2, <5>3, <5>4, <6>1
        <5>6. QED BY <5>5 DEF WillSucceed, Mined
      <4>3. CASE p \notin Mined(s) /\ ~(s = r /\ p = m)
        <5>1. ~(p \in 1 .. Len(status'[s]))
              BY <1>1, <1>3, <3>2, <4>3 DEF Mined
        <5>2. /\ pool[s][p].device \in onChain'
              /\ \A q \in 1 .. Len(pool[s]) : pool[s][q] = pool[s][p] => q = p
              BY <1>5, <3>2, <4>3 DEF WillSucceed
        <5>3. QED BY <1>1, <5>1, <5>2 DEF WillSucceed, Mined
      <4>4. QED BY <4>1, <4>2, <4>3
    <3>4. QED BY <1>1, <1>6, <2>1, <3>1, <3>2, <3>3 DEF WillBeConfirmed, WillSucceed, Mined
  <2>2. WillBeConfirmed(d) => WillBeConfirmed(d)' BY <1>6, <2>1 DEF WillBeConfirmed
  <2>3. HasReceipt(d) => HasReceipt(d)' BY <1>1 DEF HasReceipt
  <2>4. UNCHANGED <<phase, pc, position, confirmed>> BY <1>1
  <2>5. QED BY <1>5, <1>7, <2>2, <2>3, <2>4 DEF OnTrack, NotAtRetry
<1>8. CASE phase # 2
  <2>1. IsAwaited(d) => IsAwaited(d)' BY <1>1 DEF IsAwaited
  <2>2. UNCHANGED <<phase, pc, position, confirmed>> BY <1>1
  <2>3. QED BY <1>5, <1>8, <2>1, <2>2 DEF OnTrack, NotAtRetry
<1>9. QED BY <1>7, <1>8

\* Mining keeps the invariant: it puts no device at risk.
LEMMA MineStep ==
  ASSUME BatchInv, NEW r \in Relay, batches!mine(r)
  PROVE  BatchInv'
<1>1. BatchState BY DEF BatchInv
<1>2. BatchState' BY <1>1, MineState
<1>3. \A d \in Devices : OnTrack(d) => OnTrack(d)' BY <1>1, MineTrack
<1>4. AtRisk' \subseteq AtRisk BY <1>3 DEF AtRisk
<1>5. faults' = faults BY DEF batches!mine
<1>6. QED BY <1>2, <1>4, <1>5, OneFaultOneDevice

\* One more element at the end of the sequence of one relay.
LEMMA AppendAt ==
  ASSUME NEW S, NEW f \in [Relay -> Seq(S)], NEW r \in Relay, NEW e \in S,
         NEW g, g = [f EXCEPT ![r] = Append(@, e)]
  PROVE  /\ g \in [Relay -> Seq(S)]
         /\ \A s \in Relay : Len(f[s]) \in Nat /\ Len(g[s]) \in Nat
         /\ \A s \in Relay : Len(f[s]) <= Len(g[s])
         /\ \A s \in Relay : s # r => g[s] = f[s]
         /\ \A s \in Relay : \A p \in 1 .. Len(f[s]) :
              p \in 1 .. Len(g[s]) /\ g[s][p] = f[s][p]
         /\ Len(f[r]) + 1 \in 1 .. Len(g[r]) /\ g[r][Len(f[r]) + 1] = e
         /\ \A s \in Relay : \A p \in 1 .. Len(g[s]) :
              p \in 1 .. Len(f[s]) \/ (s = r /\ p = Len(f[r]) + 1)
<1>1. f[r] \in Seq(S) OBVIOUS
<1>2. /\ Append(f[r], e) \in Seq(S) /\ Len(Append(f[r], e)) = Len(f[r]) + 1
      /\ Append(f[r], e)[Len(f[r]) + 1] = e
      /\ \A p \in 1 .. Len(f[r]) : Append(f[r], e)[p] = f[r][p]
      BY <1>1, AppendProperties
<1>3. /\ g \in [Relay -> Seq(S)] /\ g[r] = Append(f[r], e)
      /\ \A s \in Relay : s # r => g[s] = f[s]
      BY <1>2
<1>4. \A s \in Relay : Len(f[s]) \in Nat /\ Len(g[s]) \in Nat BY <1>3, LenProperties
<1>5. QED BY <1>2, <1>3, <1>4

\* A coroutine is done with a device, or will try it once more.
Moves(r) ==
  /\ position' \in [Relay -> 0 .. PER]
  /\ pc' \in [Relay -> {"send", "retry", "wait", "returned"}]
  /\ \A s \in Relay : s # r => position'[s] = position[s] /\ pc'[s] = pc[s]
  /\ \/ /\ position'[r] = position[r] + 1 /\ pc'[r] \in {"wait", "send"}
        /\ pc'[r] = "send" => position'[r] < PER
     \/ position'[r] = position[r] /\ pc[r] = "send" /\ pc'[r] = "retry"

\* Advance moves a coroutine on.
LEMMA AdvanceMoves ==
  ASSUME BatchTypes, NEW r \in Relay, position[r] < PER, batches!Advance(r)
  PROVE  Moves(r) /\ position'[r] = position[r] + 1
<1>1. PER \in Nat BY ParameterAssumption
<1>2. PICK k \in 0 .. PER : k = position[r] BY DEF BatchTypes
<1>3. PICK to : to = IF batches!EndOfBatch(r) THEN "wait" ELSE "send" OBVIOUS
<1>4. to \in {"wait", "send"} /\ (to = "send" => k + 1 # PER)
      BY <1>2, <1>3 DEF batches!EndOfBatch
<1>5. position' = [position EXCEPT ![r] = k + 1] /\ pc' = [pc EXCEPT ![r] = to]
      BY <1>2, <1>3 DEF batches!Advance
<1>6. k + 1 \in 0 .. PER /\ (to = "send" => k + 1 < PER) BY <1>1, <1>2, <1>4
<1>7. QED BY <1>2, <1>4, <1>5, <1>6 DEF Moves, BatchTypes

\* A failed attempt moves a coroutine on, or to its second attempt.
LEMMA FailedMoves ==
  ASSUME BatchTypes, NEW r \in Relay, position[r] < PER, batches!Failed(r)
  PROVE  Moves(r)
<1>1. CASE pc[r] = "retry" /\ batches!Advance(r) BY <1>1, AdvanceMoves
<1>2. CASE pc[r] = "send" /\ pc' = [pc EXCEPT ![r] = "retry"] /\ UNCHANGED position
      BY <1>2 DEF Moves, BatchTypes
<1>3. QED BY <1>1, <1>2 DEF batches!Failed

\* The network accepts the transaction tx, and the relay hears of it.
Hears(r, tx) ==
  /\ pool' = [pool EXCEPT ![r] = Append(@, tx)]
  /\ sent' = [sent EXCEPT ![r] = Append(@, Len(pool[r]) + 1)]
  /\ position'[r] = position[r] + 1 /\ faults' = faults

\* The network accepts it, and the relay does not hear of it.
Loses(r, tx) ==
  /\ pool' = [pool EXCEPT ![r] = Append(@, tx)] /\ sent' = sent
  /\ faults' = faults + 1

\* The network refuses it, without reason or because it would revert.
IsRefused(r) ==
  /\ pool' = pool /\ sent' = sent
  /\ faults' = faults + 1 \/ (batches!Reverts(r) /\ faults' = faults)

\* What a send of the transaction tx does.
SendOutcome(r, tx) ==
  /\ tx = batches!Transaction(r)
  /\ phase \in {1, 2} /\ pc[r] \in {"send", "retry"} /\ position[r] < PER
  /\ Moves(r)
  /\ UNCHANGED <<phase, receipts, confirmed, status, onChain, stored>>
  /\ tx.method = phase /\ tx.device = <<r, position[r] + 1>>
  /\ <<r, position[r] + 1>> \in Devices
  /\ Hears(r, tx) \/ Loses(r, tx) \/ IsRefused(r)

\* Every send has that outcome.
LEMMA SendFacts ==
  ASSUME BatchState, NEW r \in Relay, batches!send(r)
  PROVE  \E tx \in Tx : SendOutcome(r, tx)
<1> USE DEF SendOutcome
<1>1. /\ phase \in {1, 2} /\ pc[r] \in {"send", "retry"} /\ position[r] < PER
      /\ BatchTypes
      BY DEF batches!send, BatchState, CoroutinePlaces
<1>2. UNCHANGED <<phase, receipts, confirmed, status, onChain, stored>>
      BY DEF batches!send
<1>3. position[r] + 1 \in 1 .. PER
  <2>1. PER \in Nat /\ position[r] \in 0 .. PER BY <1>1, ParameterAssumption DEF BatchTypes
  <2>2. QED BY <1>1, <2>1
<1>4. /\ batches!Transaction(r) \in Tx /\ <<r, position[r] + 1>> \in Devices
      /\ batches!Transaction(r).method = phase
      /\ batches!Transaction(r).device = <<r, position[r] + 1>>
      BY <1>1, <1>3 DEF batches!Transaction, Tx, Devices
<1> DEFINE tx == batches!Transaction(r)
<1>5. \/ /\ pool' = [pool EXCEPT ![r] = Append(@, tx)]
         /\ sent' = [sent EXCEPT ![r] = Append(@, Len(pool[r]) + 1)]
         /\ batches!Advance(r) /\ UNCHANGED faults
      \/ /\ pool' = [pool EXCEPT ![r] = Append(@, tx)]
         /\ batches!Failed(r) /\ batches!Fault /\ UNCHANGED sent
      \/ /\ batches!Failed(r) /\ UNCHANGED <<pool, sent>>
         /\ IF batches!Reverts(r) THEN UNCHANGED faults ELSE batches!Fault
      BY DEF batches!send
<1> HIDE DEF tx
<1>6. CASE /\ pool' = [pool EXCEPT ![r] = Append(@, tx)]
           /\ sent' = [sent EXCEPT ![r] = Append(@, Len(pool[r]) + 1)]
           /\ batches!Advance(r) /\ UNCHANGED faults
  <2>1. Moves(r) /\ Hears(r, tx) BY <1>1, <1>6, AdvanceMoves DEF Hears
  <2>2. QED BY <1>1, <1>2, <1>4, <2>1 DEF tx
<1>7. CASE /\ pool' = [pool EXCEPT ![r] = Append(@, tx)]
           /\ batches!Failed(r) /\ batches!Fault /\ UNCHANGED sent
  <2>1. Moves(r) /\ Loses(r, tx) BY <1>1, <1>7, FailedMoves DEF Loses, batches!Fault
  <2>2. QED BY <1>1, <1>2, <1>4, <2>1 DEF tx
<1>8. CASE /\ batches!Failed(r) /\ UNCHANGED <<pool, sent>>
           /\ IF batches!Reverts(r) THEN UNCHANGED faults ELSE batches!Fault
  <2>1. Moves(r) /\ IsRefused(r) BY <1>1, <1>8, FailedMoves DEF IsRefused, batches!Fault
  <2>2. QED BY <1>1, <1>2, <1>4, <2>1 DEF tx
<1>9. QED BY <1>5, <1>6, <1>7, <1>8

\* After a send the pools hold what they held and, at most, the transaction.
SameOrOneMore(r, tx) ==
  /\ pool' \in [Relay -> Seq(Tx)] /\ sent' \in [Relay -> Seq(Nat)]
  /\ \A s \in Relay : Len(pool[s]) \in Nat /\ Len(pool'[s]) \in Nat
  /\ \A s \in Relay : Len(pool[s]) <= Len(pool'[s])
  /\ \A s \in Relay : \A p \in 1 .. Len(pool[s]) :
       p \in 1 .. Len(pool'[s]) /\ pool'[s][p] = pool[s][p]
  /\ \A s \in Relay : \A p \in 1 .. Len(pool'[s]) :
       \/ p \in 1 .. Len(pool[s]) /\ pool'[s][p] = pool[s][p]
       \/ s = r /\ p = Len(pool[r]) + 1 /\ pool'[s][p] = tx
  /\ \A s \in Relay : s # r => sent'[s] = sent[s]
  /\ \A s \in Relay : \A j \in 1 .. Len(sent[s]) :
       j \in 1 .. Len(sent'[s]) /\ sent'[s][j] = sent[s][j]
  /\ \A s \in Relay : \A j \in 1 .. Len(sent'[s]) :
       \/ j \in 1 .. Len(sent[s]) /\ sent'[s][j] = sent[s][j]
       \/ /\ s = r /\ sent'[s][j] = Len(pool[r]) + 1 /\ Hears(r, tx)
          /\ Len(pool[r]) + 1 \in 1 .. Len(pool'[r])
          /\ pool'[r][Len(pool[r]) + 1] = tx

\* Each of the three outcomes leaves the pools like that.
LEMMA PoolsGrow ==
  ASSUME BatchTypes, NEW r \in Relay, NEW tx \in Tx,
         Hears(r, tx) \/ Loses(r, tx) \/ IsRefused(r)
  PROVE  SameOrOneMore(r, tx)
<1>1. /\ pool \in [Relay -> Seq(Tx)] /\ sent \in [Relay -> Seq(Nat)]
      /\ \A s \in Relay : Len(pool[s]) \in Nat /\ Len(sent[s]) \in Nat
      BY LenProperties DEF BatchTypes
<1>2. CASE pool' = [pool EXCEPT ![r] = Append(@, tx)]
  <2>1. /\ pool' \in [Relay -> Seq(Tx)]
        /\ \A s \in Relay : Len(pool[s]) \in Nat /\ Len(pool'[s]) \in Nat
        /\ \A s \in Relay : Len(pool[s]) <= Len(pool'[s])
        /\ \A s \in Relay : s # r => pool'[s] = pool[s]
        /\ \A s \in Relay : \A p \in 1 .. Len(pool[s]) :
             p \in 1 .. Len(pool'[s]) /\ pool'[s][p] = pool[s][p]
        /\ Len(pool[r]) + 1 \in 1 .. Len(pool'[r]) /\ pool'[r][Len(pool[r]) + 1] = tx
        /\ \A s \in Relay : \A p \in 1 .. Len(pool'[s]) :
             p \in 1 .. Len(pool[s]) \/ (s = r /\ p = Len(pool[r]) + 1)
    <3>1. PICK g : g = pool' OBVIOUS
    <3>2. g = [pool EXCEPT ![r] = Append(@, tx)] BY <1>2, <3>1
    <3>3. QED BY <1>1, <3>1, <3>2, AppendAt
  <2>2. CASE sent' = sent
    <3>1. sent' \in [Relay -> Seq(Nat)]
          /\ \A s \in Relay : sent'[s] = sent[s]
          BY <1>1, <2>2
    <3>2. QED BY <2>1, <2>2, <3>1 DEF SameOrOneMore
  <2>3. CASE Hears(r, tx)
    <3>1. PICK e \in Nat : e = Len(pool[r]) + 1 BY <1>1
    <3>2. /\ sent' \in [Relay -> Seq(Nat)]
          /\ \A s \in Relay : s # r => sent'[s] = sent[s]
          /\ \A s \in Relay : \A j \in 1 .. Len(sent[s]) :
               j \in 1 .. Len(sent'[s]) /\ sent'[s][j] = sent[s][j]
          /\ Len(sent[r]) + 1 \in 1 .. Len(sent'[r]) /\ sent'[r][Len(sent[r]) + 1] = e
          /\ \A s \in Relay : \A j \in 1 .. Len(sent'[s]) :
               j \in 1 .. Len(sent[s]) \/ (s = r /\ j = Len(sent[r]) + 1)
      <4>1. PICK g : g = sent' OBVIOUS
      <4>2. g = [sent EXCEPT ![r] = Append(@, e)] BY <2>3, <3>1, <4>1 DEF Hears
      <4>3. QED BY <1>1, <4>1, <4>2, AppendAt
    <3>3. \A s \in Relay : \A j \in 1 .. Len(sent'[s]) :
            \/ j \in 1 .. Len(sent[s]) /\ sent'[s][j] = sent[s][j]
            \/ s = r /\ sent'[s][j] = Len(pool[r]) + 1
          BY <3>1, <3>2
    <3>4. QED BY <2>1, <2>3, <3>2, <3>3 DEF SameOrOneMore
  <2>4. CASE Loses(r, tx) BY <2>2, <2>4 DEF Loses
  <2>5. CASE IsRefused(r) BY <2>2, <2>5 DEF IsRefused
  <2>6. QED BY <2>3, <2>4, <2>5
<1>3. CASE pool' = pool /\ sent' = sent BY <1>1, <1>3 DEF SameOrOneMore
<1>4. QED BY <1>2, <1>3 DEF Hears, Loses, IsRefused

\* A send keeps the books of the pools.
LEMMA SendState ==
  ASSUME BatchState, NEW r \in Relay, batches!send(r)
  PROVE  BatchState'
<1>1. /\ BatchTypes /\ CoroutinePlaces /\ PoolIsOfRelay /\ ChainIsOfPool
      /\ AwaitedAreOfPhase /\ ConfirmedAreStored
      BY DEF BatchState
<1> USE DEF SendOutcome
<1>2. PICK tx \in Tx : SendOutcome(r, tx) BY SendFacts
<1>3. SameOrOneMore(r, tx) BY <1>1, <1>2, PoolsGrow
<1>4. /\ pool' \in [Relay -> Seq(Tx)] /\ sent' \in [Relay -> Seq(Nat)]
      /\ \A s \in Relay : Len(pool[s]) \in Nat /\ Len(pool'[s]) \in Nat
      /\ \A s \in Relay : Len(pool[s]) <= Len(pool'[s])
      /\ \A s \in Relay : \A p \in 1 .. Len(pool[s]) :
           p \in 1 .. Len(pool'[s]) /\ pool'[s][p] = pool[s][p]
      BY <1>3 DEF SameOrOneMore
<1>5. /\ \A s \in Relay : position[s] \in Nat /\ position'[s] \in Nat
      /\ \A s \in Relay : position[s] <= position'[s]
      /\ pc[r] = "retry" => position'[r] = position[r] + 1
  <2>1. /\ position \in [Relay -> 0 .. PER] /\ position' \in [Relay -> 0 .. PER]
        /\ \A s \in Relay : s # r => position'[s] = position[s]
        /\ \/ position'[r] = position[r] + 1
           \/ position'[r] = position[r] /\ pc[r] = "send"
        BY <1>1, <1>2 DEF Moves, BatchTypes
  <2>2. \A s \in Relay : position[s] \in Nat /\ position'[s] \in Nat BY <2>1
  <2>3. QED BY <2>1, <2>2
<1>6. \A s \in Relay : Len(status[s]) \in Nat BY <1>1, LenProperties DEF BatchTypes
<1>7. \A s \in Relay : \A p \in Mined(s) :
        p \in 1 .. Len(pool[s]) /\ p \in 1 .. Len(pool'[s]) /\ pool'[s][p] = pool[s][p]
  <2>1. TAKE s \in Relay
  <2>2. TAKE p \in Mined(s)
  <2>3. Len(status[s]) <= Len(pool[s]) BY <1>1 DEF PoolIsOfRelay
  <2>4. p \in 1 .. Len(pool[s]) BY <1>4, <1>6, <2>3 DEF Mined
  <2>5. QED BY <1>4, <2>4
<1>8. faults' \in Nat BY <1>1, <1>2 DEF BatchTypes, Hears, Loses, IsRefused
<1>9. BatchTypes' BY <1>1, <1>2, <1>4, <1>8 DEF BatchTypes, Moves
<1>10. CoroutinePlaces'
  <2>1. SUFFICES ASSUME NEW s \in Relay
                 PROVE  /\ pc'[s] \in {"send", "retry"} => position'[s] < PER
                        /\ pc'[s] = "returned" => position'[s] = PER /\ sent'[s] = <<>>
        BY DEF CoroutinePlaces
  <2>2. CASE s # r BY <1>1, <1>2, <1>3, <2>2 DEF CoroutinePlaces, Moves, SameOrOneMore
  <2>3. CASE s = r BY <1>2, <2>3 DEF Moves
  <2>4. QED BY <2>2, <2>3
<1>11. ASSUME NEW s \in Relay, NEW p \in 1 .. Len(pool'[s])
       PROVE  /\ pool'[s][p].device[1] = s
              /\ (IsBehind(s, pool[s][p]) \/ IsNext(s, pool[s][p]))'
  <2>1. CASE p \in 1 .. Len(pool[s]) /\ pool'[s][p] = pool[s][p]
    <3>1. /\ pool[s][p].device[1] = s
          /\ IsBehind(s, pool[s][p]) \/ IsNext(s, pool[s][p])
          BY <1>1, <1>2, <2>1 DEF PoolIsOfRelay
    <3>2. PICK t \in Tx : t = pool[s][p] /\ t = pool'[s][p]
          BY <1>1, <2>1, ElementOfSeq DEF BatchTypes
    <3>3. t.device[2] \in Nat BY <3>2 DEF Tx, Devices
    <3>4. CASE IsBehind(s, t)
      <4>1. t.method < phase' \/ (t.method = phase' /\ t.device[2] <= position'[s])
            BY <1>2, <1>5, <3>3, <3>4 DEF IsBehind
      <4>2. QED BY <3>1, <3>2, <4>1 DEF IsBehind
    <3>5. CASE IsNext(s, t)
      <4>1. CASE s = r
        <5>1. t.method = phase' /\ t.device[2] <= position'[s]
              BY <1>2, <1>5, <3>5, <4>1 DEF IsNext
        <5>2. QED BY <3>1, <3>2, <5>1 DEF IsBehind
      <4>2. CASE s # r
        <5>1. pc'[s] = "retry" /\ t.method = phase' /\ t.device = <<s, position'[s] + 1>>
              BY <1>2, <3>5, <4>2 DEF IsNext, Moves
        <5>2. QED BY <3>1, <3>2, <5>1 DEF IsNext
      <4>3. QED BY <4>1, <4>2
    <3>6. QED BY <3>1, <3>2, <3>4, <3>5
  <2>2. CASE s = r /\ pool'[s][p] = tx
    <3>1. tx.device[1] = r /\ tx.device[2] = position[r] + 1 /\ tx.method = phase'
          BY <1>2
    <3>2. CASE position'[r] = position[r] + 1
          BY <1>5, <2>2, <3>1, <3>2 DEF IsBehind
    <3>3. CASE position'[r] = position[r] /\ pc'[r] = "retry"
          BY <1>2, <2>2, <3>1, <3>3 DEF IsNext
    <3>4. QED BY <1>2, <3>2, <3>3 DEF Moves
  <2>3. QED BY <1>3, <2>1, <2>2 DEF SameOrOneMore
<1>12. PoolIsOfRelay'
  <2>1. SUFFICES ASSUME NEW s \in Relay
                 PROVE  /\ Len(status[s]) <= Len(pool'[s])
                        /\ \A p \in Mined(s) :
                             /\ pool'[s][p].method = 1 => pool'[s][p].device \in onChain
                             /\ pool'[s][p].method = 2 /\ status[s][p] =>
                                  batches!Contains(stored, pool'[s][p].device)
        BY <1>2, <1>11 DEF PoolIsOfRelay, Mined, batches!Contains
  <2>2. Len(status[s]) <= Len(pool[s]) BY <1>1 DEF PoolIsOfRelay
  <2>3. Len(status[s]) <= Len(pool'[s]) BY <1>4, <1>6, <2>2
  <2>4. QED BY <1>1, <1>7, <2>3 DEF PoolIsOfRelay
<1>13. ChainIsOfPool'
  <2>1. ASSUME NEW d \in Devices, NEW k \in {1, 2}, HasTx(d, k)
        PROVE  HasTx(d, k)'
    <3>1. d[1] \in Relay BY DEF Devices
    <3>2. PICK p \in Mined(d[1]) : pool[d[1]][p].method = k /\ pool[d[1]][p].device = d
          BY <2>1 DEF HasTx
    <3>3. pool'[d[1]][p] = pool[d[1]][p] BY <1>7, <3>1
    <3>4. QED BY <1>2, <3>2, <3>3 DEF HasTx, Mined
  <2>2. (\A d \in onChain : HasTx(d, 1))'
        BY <1>1, <1>2, <2>1 DEF ChainIsOfPool, BatchTypes
  <2>3. (\A d \in Devices : batches!Contains(stored, d) => HasTx(d, 2))'
        BY <1>1, <1>2, <2>1 DEF ChainIsOfPool, batches!Contains
  <2>4. QED BY <2>2, <2>3 DEF ChainIsOfPool
<1>14. AwaitedAreOfPhase'
  <2>1. SUFFICES ASSUME NEW s \in Relay
                 PROVE  /\ \A j \in 1 .. Len(sent'[s]) :
                             /\ sent'[s][j] \in 1 .. Len(pool'[s])
                             /\ pool'[s][sent'[s][j]].method = phase
                             /\ pool'[s][sent'[s][j]].device[2] <= position'[s]
                        /\ \A j \in 1 .. Len(receipts[s]) :
                             /\ receipts[s][j] \in Mined(s) /\ status[s][receipts[s][j]]
                             /\ pool'[s][receipts[s][j]].method = phase
        BY <1>2 DEF AwaitedAreOfPhase, Mined
  <2>2. ASSUME NEW j \in 1 .. Len(sent'[s])
        PROVE  /\ sent'[s][j] \in 1 .. Len(pool'[s])
               /\ pool'[s][sent'[s][j]].method = phase
               /\ pool'[s][sent'[s][j]].device[2] <= position'[s]
    <3>1. CASE j \in 1 .. Len(sent[s]) /\ sent'[s][j] = sent[s][j]
      <4>1. PICK p : p = sent[s][j] OBVIOUS
      <4>2. /\ p \in 1 .. Len(pool[s]) /\ pool[s][p].method = phase
            /\ pool[s][p].device[2] <= position[s]
            BY <1>1, <1>2, <3>1, <4>1 DEF AwaitedAreOfPhase
      <4>3. p \in 1 .. Len(pool'[s]) /\ pool'[s][p] = pool[s][p] BY <1>4, <4>2
      <4>4. pool[s][p].device[2] \in Nat
        <5>1. pool[s][p] \in Tx BY <1>1, <4>2, ElementOfSeq DEF BatchTypes
        <5>2. QED BY <5>1 DEF Tx, Devices
      <4>5. pool[s][p].device[2] <= position'[s] BY <1>5, <4>2, <4>4
      <4>6. QED BY <3>1, <4>1, <4>2, <4>3, <4>5
    <3>2. CASE /\ s = r /\ sent'[s][j] = Len(pool[r]) + 1 /\ Hears(r, tx)
               /\ Len(pool[r]) + 1 \in 1 .. Len(pool'[r])
               /\ pool'[r][Len(pool[r]) + 1] = tx
      <4>1. tx.device[2] <= position'[r] BY <1>2, <1>5, <3>2 DEF Hears
      <4>2. QED BY <1>2, <3>2, <4>1
    <3>3. QED BY <1>3, <3>1, <3>2 DEF SameOrOneMore
  <2>3. ASSUME NEW j \in 1 .. Len(receipts[s])
        PROVE  /\ receipts[s][j] \in Mined(s) /\ status[s][receipts[s][j]]
               /\ pool'[s][receipts[s][j]].method = phase
    <3>1. PICK p : p = receipts[s][j] OBVIOUS
    <3>2. p \in Mined(s) /\ status[s][p] /\ pool[s][p].method = phase
          BY <1>1, <1>2, <3>1 DEF AwaitedAreOfPhase
    <3>3. QED BY <1>7, <3>1, <3>2
  <2>4. QED BY <2>2, <2>3
<1>15. ConfirmedAreStored' BY <1>1, <1>2 DEF ConfirmedAreStored, batches!Contains
<1>16. QED BY <1>9, <1>10, <1>12, <1>13, <1>14, <1>15 DEF BatchState

\* The device of the transaction a relay sends.
NextDevice(r) == <<r, position[r] + 1>>

\* Before the first attempt the pool holds no such transaction.
LEMMA NotSentYet ==
  ASSUME BatchState, NEW r \in Relay, phase \in {1, 2}, pc[r] = "send",
         NEW p \in 1 .. Len(pool[r])
  PROVE  ~(pool[r][p].method = phase /\ pool[r][p].device = NextDevice(r))
<1>1. IsBehind(r, pool[r][p]) BY DEF BatchState, PoolIsOfRelay, IsNext
<1>2. position[r] \in Nat BY ParameterAssumption DEF BatchState, BatchTypes
<1>3. SUFFICES ASSUME pool[r][p].method = phase, pool[r][p].device = NextDevice(r)
               PROVE  FALSE
      OBVIOUS
<1>4. pool[r][p].device[2] = position[r] + 1 BY <1>3 DEF NextDevice
<1>5. QED BY <1>1, <1>2, <1>3, <1>4 DEF IsBehind

\* Only the device a relay sends for may be put at risk by the send.
LEMMA OthersStayOnTrack ==
  ASSUME BatchState, NEW r \in Relay, batches!send(r),
         NEW d \in Devices, d # NextDevice(r), OnTrack(d)
  PROVE  OnTrack(d)'
<1>1. /\ BatchTypes /\ PoolIsOfRelay /\ AwaitedAreOfPhase
      BY DEF BatchState
<1> USE DEF SendOutcome
<1>2. PICK tx \in Tx : SendOutcome(r, tx) BY SendFacts
<1>3. SameOrOneMore(r, tx) BY <1>1, <1>2, PoolsGrow
<1>4. PICK s \in Relay : s = d[1] BY DEF Devices
<1>5. s = r => d[2] # position[r] + 1
  <2>1. d = <<d[1], d[2]>> BY DEF Devices
  <2>2. QED BY <1>4, <2>1 DEF NextDevice
<1>6. NotAtRetry(d) => NotAtRetry(d)'
      BY <1>2, <1>4, <1>5 DEF NotAtRetry, Moves
<1>7. d[2] <= position'[s] <=> d[2] <= position[s]
  <2>1. position[s] \in Nat /\ d[2] \in Nat
        BY <1>1, ParameterAssumption DEF BatchTypes, Devices
  <2>2. \/ position'[s] = position[s]
        \/ s = r /\ position'[s] = position[s] + 1
        BY <1>2 DEF Moves
  <2>3. CASE position'[s] = position[s] BY <2>3
  <2>4. CASE s = r /\ position'[s] = position[s] + 1
        BY <1>5, <2>1, <2>4
  <2>5. QED BY <2>2, <2>3, <2>4
<1>8. ASSUME NEW j \in 1 .. Len(sent[s])
      PROVE  /\ j \in 1 .. Len(sent'[s]) /\ sent'[s][j] = sent[s][j]
             /\ sent[s][j] \in 1 .. Len(pool[s])
             /\ pool'[s][sent[s][j]] = pool[s][sent[s][j]]
  <2>1. sent[s][j] \in 1 .. Len(pool[s]) BY <1>1, <1>2 DEF AwaitedAreOfPhase
  <2>2. \A t \in Relay : \A p \in 1 .. Len(pool[t]) :
          p \in 1 .. Len(pool'[t]) /\ pool'[t][p] = pool[t][p]
        BY <1>3, Zenon DEF SameOrOneMore
  <2>3. \A t \in Relay : \A k \in 1 .. Len(sent[t]) :
          k \in 1 .. Len(sent'[t]) /\ sent'[t][k] = sent[t][k]
        BY <1>3, Zenon DEF SameOrOneMore
  <2>4. QED BY <2>1, <2>2, <2>3
<1>9. IsAwaited(d) => IsAwaited(d)'
  <2>1. ASSUME NEW j \in 1 .. Len(sent[s]), pool[s][sent[s][j]].device = d
        PROVE  pool'[s][sent'[s][j]].device = d /\ j \in 1 .. Len(sent'[s])
    <3>1. PICK p : p = sent[s][j] OBVIOUS
    <3>2. sent'[s][j] = p /\ pool'[s][p] = pool[s][p] /\ j \in 1 .. Len(sent'[s])
          BY <1>8, <3>1
    <3>3. QED BY <2>1, <3>1, <3>2
  <2>2. QED BY <1>4, <2>1 DEF IsAwaited
<1>10. HasReceipt(d) => HasReceipt(d)'
  <2>1. ASSUME NEW j \in 1 .. Len(receipts[s])
        PROVE  pool'[s][receipts[s][j]] = pool[s][receipts[s][j]]
    <3>1. receipts[s][j] \in Mined(s) BY <1>1, <1>2 DEF AwaitedAreOfPhase
    <3>2. Len(status[s]) <= Len(pool[s]) BY <1>1 DEF PoolIsOfRelay
    <3>3. Len(status[s]) \in Nat /\ Len(pool[s]) \in Nat
          BY <1>1, LenProperties DEF BatchTypes
    <3>4. receipts[s][j] \in 1 .. Len(pool[s]) BY <3>1, <3>2, <3>3 DEF Mined
    <3>5. QED BY <1>3, <3>4 DEF SameOrOneMore
  <2>2. QED BY <1>2, <1>4, <2>1 DEF HasReceipt
<1>11. ASSUME NEW j \in 1 .. Len(sent[s]), pool[s][sent[s][j]].device = d,
              WillSucceed(s, sent[s][j])
       PROVE  WillBeConfirmed(d)'
  <2>1. PICK p : p = sent[s][j] OBVIOUS
  <2>2. /\ p \in 1 .. Len(pool[s]) /\ pool'[s][p] = pool[s][p]
        /\ j \in 1 .. Len(sent'[s]) /\ sent'[s][j] = p
        BY <1>8, <2>1
  <2>3. WillSucceed(s, p)'
    <3>1. CASE p \in Mined(s) BY <1>2, <1>11, <2>1, <3>1 DEF WillSucceed, Mined
    <3>2. CASE p \notin Mined(s)
      <4>1. /\ d \in onChain
            /\ \A q \in 1 .. Len(pool[s]) : pool[s][q] = pool[s][p] => q = p
            BY <1>11, <2>1, <3>2 DEF WillSucceed
      <4>2. ASSUME NEW q \in 1 .. Len(pool'[s]), pool'[s][q] = pool'[s][p]
            PROVE  q = p
        <5>1. CASE q \in 1 .. Len(pool[s]) /\ pool'[s][q] = pool[s][q]
              BY <2>2, <4>1, <4>2, <5>1
        <5>2. CASE s = r /\ pool'[s][q] = tx
          <6>1. pool'[s][q].device = d BY <1>11, <2>1, <2>2, <4>2
          <6>2. QED BY <1>2, <5>2, <6>1 DEF NextDevice
        <5>3. QED BY <1>3, <5>1, <5>2 DEF SameOrOneMore
      <4>3. pool'[s][p].device \in onChain' BY <1>2, <1>11, <2>1, <2>2, <4>1
      <4>4. QED BY <1>2, <3>2, <4>2, <4>3 DEF WillSucceed, Mined
    <3>3. QED BY <3>1, <3>2
  <2>4. pool'[s][p].device = d BY <1>11, <2>1, <2>2
  <2>5. QED BY <1>2, <1>4, <2>2, <2>3, <2>4 DEF WillBeConfirmed, WillSucceed, Mined
<1>12. WillBeConfirmed(d) => WillBeConfirmed(d)' BY <1>4, <1>11 DEF WillBeConfirmed
<1>13. phase' = phase /\ phase \in {1, 2} /\ onChain' = onChain BY <1>2
<1>14. QED BY <1>4, <1>6, <1>7, <1>9, <1>10, <1>12, <1>13 DEF OnTrack

\* Its own device a send puts at risk only by a fault.
LEMMA FreeSendIsSafe ==
  ASSUME BatchState, NEW r \in Relay, batches!send(r), faults' # faults + 1,
         NEW x, x = NextDevice(r), OnTrack(x)
  PROVE  OnTrack(x)'
<1>1. /\ BatchTypes /\ PoolIsOfRelay /\ AwaitedAreOfPhase /\ ChainIsOfPool
      BY DEF BatchState
<1> USE DEF SendOutcome
<1>2. PICK tx \in Tx : SendOutcome(r, tx) BY SendFacts
<1>3. SameOrOneMore(r, tx) BY <1>1, <1>2, PoolsGrow
<1>4. /\ x \in Devices /\ x[1] = r /\ x[2] = position[r] + 1 /\ tx.device = x
      /\ position[r] \in Nat /\ position[r] \in 0 .. PER
      BY <1>1, <1>2, ParameterAssumption DEF NextDevice, BatchTypes
<1>5. ~(x[2] <= position[r]) BY <1>4
<1>6. pc[r] = "send"
  <2>1. NotAtRetry(x) BY <1>2 DEF OnTrack
  <2>2. QED BY <1>2, <1>4, <2>1 DEF NotAtRetry
<1>7. phase = 2 => x \in onChain BY <1>4, <1>5 DEF OnTrack
<1>8. ASSUME NEW p \in 1 .. Len(pool[r]), pool[r][p].method = phase, pool[r][p].device = x
      PROVE  FALSE
      BY <1>2, <1>6, <1>8, NotSentYet
<1>9. ~HasTx(x, phase)
  <2>1. SUFFICES ASSUME NEW p \in Mined(r), pool[r][p].method = phase,
                        pool[r][p].device = x
                 PROVE  FALSE
        BY <1>4 DEF HasTx
  <2>2. Len(status[r]) \in Nat /\ Len(pool[r]) \in Nat /\ Len(status[r]) <= Len(pool[r])
        BY <1>1, LenProperties DEF BatchTypes, PoolIsOfRelay
  <2>3. p \in 1 .. Len(pool[r]) BY <2>2 DEF Mined
  <2>4. QED BY <1>8, <2>1, <2>3
<1>10. /\ phase = 1 => x \notin onChain
       /\ phase = 2 => ~batches!Contains(stored, x)
       BY <1>1, <1>4, <1>9 DEF ChainIsOfPool
<1>11. ~batches!Reverts(r)
  <2>1. batches!Accepts(tx)
        BY <1>2, <1>4, <1>7, <1>10 DEF batches!Accepts
  <2>2. ~batches!Contains(pool[r], tx)
    <3>1. SUFFICES ASSUME NEW p \in 1 .. Len(pool[r]), pool[r][p] = tx PROVE FALSE
          BY DEF batches!Contains
    <3>2. QED BY <1>2, <1>4, <1>8, <3>1
  <2>3. QED BY <1>2, <2>1, <2>2 DEF batches!Reverts
<1>12. Hears(r, tx) BY <1>2, <1>11 DEF Loses, IsRefused
<1>13. position'[r] = position[r] + 1 /\ pc'[r] \in {"wait", "send"}
       BY <1>2, <1>6, <1>12 DEF Moves, Hears
<1>14. PICK k : k = Len(sent[r]) + 1 OBVIOUS
<1>15. PICK p : p = Len(pool[r]) + 1 OBVIOUS
<1>16. /\ k \in 1 .. Len(sent'[r]) /\ sent'[r][k] = p
       /\ p \in 1 .. Len(pool'[r]) /\ pool'[r][p] = tx
       /\ \A q \in 1 .. Len(pool'[r]) : q \in 1 .. Len(pool[r]) \/ q = p
       /\ \A q \in 1 .. Len(pool[r]) : pool'[r][q] = pool[r][q]
  <2>1. /\ pool \in [Relay -> Seq(Tx)] /\ sent \in [Relay -> Seq(Nat)]
        BY <1>1 DEF BatchTypes
  <2>2. p \in Nat BY <1>15, <2>1, LenProperties
  <2>3. k \in 1 .. Len(sent'[r]) /\ sent'[r][k] = p
    <3>1. PICK g : g = sent' OBVIOUS
    <3>2. g = [sent EXCEPT ![r] = Append(@, p)] BY <1>12, <1>15, <3>1 DEF Hears
    <3>3. Len(sent[r]) + 1 \in 1 .. Len(g[r]) /\ g[r][Len(sent[r]) + 1] = p
          BY <2>1, <2>2, <3>2, AppendAt
    <3>4. QED BY <1>14, <3>1, <3>3
  <2>4. /\ p \in 1 .. Len(pool'[r]) /\ pool'[r][p] = tx
        /\ \A q \in 1 .. Len(pool'[r]) : q \in 1 .. Len(pool[r]) \/ q = p
        /\ \A q \in 1 .. Len(pool[r]) : pool'[r][q] = pool[r][q]
    <3>1. PICK g : g = pool' OBVIOUS
    <3>2. g = [pool EXCEPT ![r] = Append(@, tx)] BY <1>12, <3>1 DEF Hears
    <3>3. /\ Len(pool[r]) + 1 \in 1 .. Len(g[r]) /\ g[r][Len(pool[r]) + 1] = tx
          /\ \A q \in 1 .. Len(g[r]) : q \in 1 .. Len(pool[r]) \/ q = Len(pool[r]) + 1
          /\ \A q \in 1 .. Len(pool[r]) : g[r][q] = pool[r][q]
          BY <2>1, <3>2, AppendAt
    <3>4. QED BY <1>15, <3>1, <3>3
  <2>5. QED BY <2>3, <2>4
<1>17. NotAtRetry(x)' BY <1>4, <1>13 DEF NotAtRetry
<1>18. IsAwaited(x)' BY <1>4, <1>16 DEF IsAwaited
<1>19. phase = 2 => WillBeConfirmed(x)'
  <2>1. SUFFICES ASSUME phase = 2 PROVE WillBeConfirmed(x)' OBVIOUS
  <2>2. ~(p \in 1 .. Len(status'[r]))
    <3>1. Len(status[r]) \in Nat /\ Len(pool[r]) \in Nat /\ Len(status[r]) <= Len(pool[r])
          BY <1>1, LenProperties DEF BatchTypes, PoolIsOfRelay
    <3>2. QED BY <1>2, <1>15, <3>1
  <2>3. ASSUME NEW q \in 1 .. Len(pool'[r]), pool'[r][q] = pool'[r][p] PROVE q = p
    <3>1. CASE q \in 1 .. Len(pool[r])
          BY <1>2, <1>4, <1>8, <1>16, <2>3, <3>1
    <3>2. QED BY <1>16, <3>1
  <2>4. pool'[r][p].device \in onChain'
        BY <1>2, <1>4, <1>7, <1>16, <2>1
  <2>5. WillSucceed(r, p)' BY <2>2, <2>3, <2>4 DEF WillSucceed, Mined
  <2>6. /\ r = x[1] /\ pool'[r][p].device = x
        /\ k \in 1 .. Len(sent'[r]) /\ sent'[r][k] = p
        BY <1>4, <1>16
  <2>7. QED BY <2>5, <2>6 DEF WillBeConfirmed, WillSucceed, Mined
<1>20. x[2] <= position'[x[1]] BY <1>4, <1>13
<1>21. phase' = phase /\ phase \in {1, 2} BY <1>2
<1>22. QED BY <1>17, <1>18, <1>19, <1>20, <1>21 DEF OnTrack

\* A send keeps the invariant: it puts one device at risk, by a fault.
LEMMA SendStep ==
  ASSUME BatchInv, NEW r \in Relay, batches!send(r)
  PROVE  BatchInv'
<1>1. BatchState BY DEF BatchInv
<1>2. BatchState' BY <1>1, SendState
<1>3. PICK x : x = NextDevice(r) OBVIOUS
<1>4. ASSUME NEW d \in Devices, d # x, OnTrack(d) PROVE OnTrack(d)'
      BY <1>1, <1>3, <1>4, OthersStayOnTrack
<1>5. CASE faults' = faults + 1
  <2>1. AtRisk' \subseteq AtRisk \cup {x} BY <1>4 DEF AtRisk
  <2>2. QED BY <1>2, <1>5, <2>1, OneFaultOneDevice
<1>6. CASE faults' # faults + 1
  <2>1. OnTrack(x) => OnTrack(x)' BY <1>1, <1>3, <1>6, FreeSendIsSafe
  <2>2. AtRisk' \subseteq AtRisk BY <1>4, <2>1 DEF AtRisk
  <2>3. faults' = faults
    <3>1. PICK tx \in Tx : SendOutcome(r, tx) BY <1>1, SendFacts
    <3>2. QED BY <1>6, <3>1 DEF SendOutcome, Hears, Loses, IsRefused
  <2>4. QED BY <1>2, <2>2, <2>3, OneFaultOneDevice
<1>7. QED BY <1>5, <1>6

\* A wait takes the first transaction awaited, p, away, and may leave its receipt.
WaitOutcome(r, p) ==
  /\ phase \in {1, 2} /\ 1 \in 1 .. Len(sent[r]) /\ p = sent[r][1]
  /\ sent' \in [Relay -> Seq(Nat)] /\ receipts' \in [Relay -> Seq(Nat)]
  /\ \A s \in Relay : s # r => sent'[s] = sent[s] /\ receipts'[s] = receipts[s]
  /\ \A j \in 1 .. Len(sent'[r]) :
       \E k \in 1 .. Len(sent[r]) : sent'[r][j] = sent[r][k]
  /\ \A j \in 1 .. Len(sent[r]) :
       sent[r][j] = p \/ \E k \in 1 .. Len(sent'[r]) : sent'[r][k] = sent[r][j]
  /\ \A j \in 1 .. Len(receipts[r]) :
       j \in 1 .. Len(receipts'[r]) /\ receipts'[r][j] = receipts[r][j]
  /\ \/ /\ p \in Mined(r) /\ status[r][p] /\ faults' = faults
        /\ Len(receipts[r]) + 1 \in 1 .. Len(receipts'[r])
        /\ receipts'[r][Len(receipts[r]) + 1] = p
        /\ \A j \in 1 .. Len(receipts'[r]) :
             j \in 1 .. Len(receipts[r]) \/ j = Len(receipts[r]) + 1
     \/ p \in Mined(r) /\ ~status[r][p] /\ faults' = faults /\ receipts' = receipts
     \/ faults' = faults + 1 /\ receipts' = receipts
  /\ UNCHANGED <<phase, pc, position, confirmed, pool, status, onChain, stored>>

\* Every wait has that outcome.
LEMMA WaitFacts ==
  ASSUME BatchState, NEW r \in Relay, batches!wait(r)
  PROVE  \E p \in Nat : WaitOutcome(r, p)
<1> USE DEF WaitOutcome
<1>1. /\ BatchTypes /\ AwaitedAreOfPhase /\ PoolIsOfRelay BY DEF BatchState
<1>2. /\ phase \in {1, 2} /\ sent[r] # <<>>
      /\ sent' = [sent EXCEPT ![r] = Tail(@)]
      /\ UNCHANGED <<phase, pc, position, confirmed, pool, status, onChain, stored>>
      BY DEF batches!wait, batches!chainVars
<1>3. sent \in [Relay -> Seq(Nat)] /\ receipts \in [Relay -> Seq(Nat)]
      BY <1>1 DEF BatchTypes
<1>4. sent[r] \in Seq(Nat) BY <1>3
<1>5. /\ Len(sent[r]) \in Nat /\ Len(sent[r]) >= 1 /\ sent[r][1] \in Nat
      /\ Head(sent[r]) = sent[r][1]
      /\ Tail(sent[r]) \in Seq(Nat) /\ Len(Tail(sent[r])) = Len(sent[r]) - 1
      /\ \A j \in 1 .. Len(sent[r]) - 1 : Tail(sent[r])[j] = sent[r][j + 1]
  <2>1. PICK t \in Seq(Nat) : t = sent[r] BY <1>4
  <2>2. /\ Len(t) \in Nat /\ Len(t) >= 1 /\ Head(t) = t[1] /\ t[1] \in Nat
        /\ Tail(t) \in Seq(Nat) /\ Len(Tail(t)) = Len(t) - 1
        /\ \A j \in 1 .. Len(t) - 1 : Tail(t)[j] = t[j + 1]
    <3>1. t # <<>> BY <1>2, <2>1
    <3>2. Len(t) \in Nat /\ Len(t) >= 1 BY <3>1, EmptySeq, LenProperties
    <3>3. QED BY <3>1, <3>2, HeadTailProperties, ElementOfSeq
  <2>3. QED BY <2>1, <2>2
<1>6. PICK p \in Nat : p = sent[r][1] BY <1>5
<1>7. /\ sent' \in [Relay -> Seq(Nat)] /\ sent'[r] = Tail(sent[r])
      /\ \A s \in Relay : s # r => sent'[s] = sent[s]
      BY <1>2, <1>3, <1>5
<1>8. /\ \A j \in 1 .. Len(sent'[r]) :
           \E k \in 1 .. Len(sent[r]) : sent'[r][j] = sent[r][k]
      /\ \A j \in 1 .. Len(sent[r]) :
           sent[r][j] = p \/ \E k \in 1 .. Len(sent'[r]) : sent'[r][k] = sent[r][j]
  <2>1. PICK t \in Seq(Nat) : t = sent[r] BY <1>4
  <2>2. PICK u \in Seq(Nat) : u = Tail(t) BY <1>5, <2>1
  <2>3. PICK k \in Nat : k = Len(t) BY <1>5, <2>1
  <2>4. Len(u) = k - 1 /\ \A j \in 1 .. k - 1 : u[j] = t[j + 1]
        BY <1>5, <2>1, <2>2, <2>3
  <2>5. ASSUME NEW j \in 1 .. k - 1 PROVE j + 1 \in 1 .. k /\ u[j] = t[j + 1]
        BY <2>3, <2>4
  <2>6. ASSUME NEW j \in 1 .. k, j # 1 PROVE j - 1 \in 1 .. k - 1 /\ u[j - 1] = t[j]
    <3>1. j - 1 \in 1 .. k - 1 /\ (j - 1) + 1 = j BY <2>3, <2>6
    <3>2. QED BY <2>4, <3>1
  <2>7. \A j \in 1 .. k - 1 : \E h \in 1 .. k : u[j] = t[h] BY <2>5
  <2>8. \A j \in 1 .. k : t[j] = t[1] \/ \E h \in 1 .. k - 1 : u[h] = t[j] BY <2>6
  <2>9. sent'[r] = u /\ sent[r] = t /\ p = t[1] BY <1>6, <1>7, <2>1, <2>2
  <2>10. 1 .. Len(u) = 1 .. k - 1 /\ 1 .. Len(t) = 1 .. k BY <2>3, <2>4
  <2>11. /\ \A j \in 1 .. Len(u) : \E h \in 1 .. Len(t) : u[j] = t[h]
         /\ \A j \in 1 .. Len(t) : t[j] = p \/ \E h \in 1 .. Len(u) : u[h] = t[j]
    <3>1. \A j \in 1 .. Len(u) : \E h \in 1 .. Len(t) : u[j] = t[h]
          BY <2>7, <2>10
    <3>2. \A j \in 1 .. Len(t) : t[j] = t[1] \/ \E h \in 1 .. Len(u) : u[h] = t[j]
          BY <2>8, <2>10
    <3>3. QED BY <2>9, <3>1, <3>2
  <2>12. QED BY <2>9, <2>11, Zenon
<1>9. \/ /\ p \in Mined(r) /\ status[r][p] /\ faults' = faults
         /\ receipts' = [receipts EXCEPT ![r] = Append(@, p)]
      \/ p \in Mined(r) /\ ~status[r][p] /\ faults' = faults /\ receipts' = receipts
      \/ faults' = faults + 1 /\ receipts' = receipts
  <2>1. Head(sent[r]) = p BY <1>5, <1>6
  <2>2. p \in 1 .. Len(pool[r])
        BY <1>1, <1>2, <1>5, <1>6 DEF AwaitedAreOfPhase
  <2>3. Len(status[r]) \in Nat BY <1>1, LenProperties DEF BatchTypes
  <2>4. p <= Len(status[r]) => p \in Mined(r) BY <2>2, <2>3 DEF Mined
  <2>5. QED BY <2>1, <2>4
            DEF batches!wait, batches!HasReceipt, batches!Mined, batches!Fault
<1>10. CASE /\ p \in Mined(r) /\ status[r][p] /\ faults' = faults
            /\ receipts' = [receipts EXCEPT ![r] = Append(@, p)]
  <2>1. /\ receipts' \in [Relay -> Seq(Nat)]
        /\ \A s \in Relay : s # r => receipts'[s] = receipts[s]
        /\ \A j \in 1 .. Len(receipts[r]) :
             j \in 1 .. Len(receipts'[r]) /\ receipts'[r][j] = receipts[r][j]
        /\ Len(receipts[r]) + 1 \in 1 .. Len(receipts'[r])
        /\ receipts'[r][Len(receipts[r]) + 1] = p
        /\ \A j \in 1 .. Len(receipts'[r]) :
             j \in 1 .. Len(receipts[r]) \/ j = Len(receipts[r]) + 1
    <3>1. PICK g : g = receipts' OBVIOUS
    <3>2. g = [receipts EXCEPT ![r] = Append(@, p)] BY <1>10, <3>1
    <3>3. QED BY <1>3, <3>1, <3>2, AppendAt
  <2>2. /\ phase \in {1, 2} /\ 1 \in 1 .. Len(sent[r])
        /\ \A s \in Relay : s # r => sent'[s] = sent[s] /\ receipts'[s] = receipts[s]
        BY <1>2, <1>5, <1>7, <2>1
  <2>3. QED BY <1>2, <1>6, <1>7, <1>8, <1>10, <2>1, <2>2, Zenon
<1>11. CASE \/ p \in Mined(r) /\ ~status[r][p] /\ faults' = faults /\ receipts' = receipts
            \/ faults' = faults + 1 /\ receipts' = receipts
  <2>1. /\ receipts' \in [Relay -> Seq(Nat)]
        /\ \A s \in Relay : s # r => receipts'[s] = receipts[s]
        /\ \A j \in 1 .. Len(receipts[r]) :
             j \in 1 .. Len(receipts'[r]) /\ receipts'[r][j] = receipts[r][j]
    <3>1. receipts' = receipts BY <1>11
    <3>2. QED BY <1>3, <3>1
  <2>2. /\ phase \in {1, 2} /\ 1 \in 1 .. Len(sent[r])
        /\ \A s \in Relay : s # r => sent'[s] = sent[s] /\ receipts'[s] = receipts[s]
        BY <1>2, <1>5, <1>7, <2>1
  <2>3. QED BY <1>2, <1>6, <1>7, <1>8, <1>11, <2>1, <2>2, Zenon
<1>12. QED BY <1>9, <1>10, <1>11

\* A wait keeps the books.
LEMMA WaitState ==
  ASSUME BatchState, NEW r \in Relay, batches!wait(r)
  PROVE  BatchState'
<1>1. /\ BatchTypes /\ CoroutinePlaces /\ PoolIsOfRelay /\ ChainIsOfPool
      /\ AwaitedAreOfPhase /\ ConfirmedAreStored
      BY DEF BatchState
<1> USE DEF WaitOutcome
<1>2. PICK p \in Nat : WaitOutcome(r, p) BY WaitFacts
<1>3. pc[r] = "wait" BY DEF batches!wait
<1>4. BatchTypes'
  <2>1. faults' \in Nat
    <3>1. faults \in Nat BY <1>1 DEF BatchTypes
    <3>2. faults' = faults \/ faults' = faults + 1 BY <1>2
    <3>3. QED BY <3>1, <3>2
  <2>2. QED BY <1>1, <1>2, <2>1 DEF BatchTypes
<1>5. CoroutinePlaces'
  <2>1. SUFFICES ASSUME NEW s \in Relay, pc[s] = "returned" PROVE sent'[s] = <<>>
        BY <1>1, <1>2 DEF CoroutinePlaces
  <2>2. s # r BY <1>3, <2>1
  <2>3. QED BY <1>1, <1>2, <2>1, <2>2 DEF CoroutinePlaces
<1>6. PoolIsOfRelay'
      BY <1>1, <1>2 DEF PoolIsOfRelay, IsBehind, IsNext, Mined, batches!Contains
<1>7. ChainIsOfPool'
      BY <1>1, <1>2 DEF ChainIsOfPool, HasTx, Mined, batches!Contains
<1>8. AwaitedAreOfPhase'
  <2>1. SUFFICES ASSUME NEW s \in Relay
                 PROVE  /\ \A j \in 1 .. Len(sent'[s]) :
                             /\ sent'[s][j] \in 1 .. Len(pool[s])
                             /\ pool[s][sent'[s][j]].method = phase
                             /\ pool[s][sent'[s][j]].device[2] <= position[s]
                        /\ \A j \in 1 .. Len(receipts'[s]) :
                             /\ receipts'[s][j] \in Mined(s) /\ status[s][receipts'[s][j]]
                             /\ pool[s][receipts'[s][j]].method = phase
        BY <1>2 DEF AwaitedAreOfPhase, Mined
  <2>2. CASE s # r
    <3>1. phase # 3 /\ sent'[s] = sent[s] /\ receipts'[s] = receipts[s]
          BY <1>2, <2>2
    <3>2. QED BY <1>1, <3>1 DEF AwaitedAreOfPhase
  <2>3. CASE s = r
    <3>1. ASSUME NEW j \in 1 .. Len(sent'[r])
          PROVE  /\ sent'[r][j] \in 1 .. Len(pool[r])
                 /\ pool[r][sent'[r][j]].method = phase
                 /\ pool[r][sent'[r][j]].device[2] <= position[r]
      <4>1. PICK k \in 1 .. Len(sent[r]) : sent'[r][j] = sent[r][k]
            BY <1>2
      <4>2. phase # 3 BY <1>2
      <4>3. QED BY <1>1, <4>1, <4>2 DEF AwaitedAreOfPhase
    <3>2. pool[r][p].method = phase
      <4>1. phase # 3 /\ 1 \in 1 .. Len(sent[r]) /\ p = sent[r][1] BY <1>2
      <4>2. QED BY <1>1, <4>1 DEF AwaitedAreOfPhase
    <3>3. ASSUME NEW j \in 1 .. Len(receipts'[r])
          PROVE  /\ receipts'[r][j] \in Mined(r) /\ status[r][receipts'[r][j]]
                 /\ pool[r][receipts'[r][j]].method = phase
      <4>1. CASE j \in 1 .. Len(receipts[r]) /\ receipts'[r][j] = receipts[r][j]
        <5>1. phase # 3 BY <1>2
        <5>2. QED BY <1>1, <4>1, <5>1 DEF AwaitedAreOfPhase
      <4>2. CASE receipts'[r][j] = p /\ p \in Mined(r) /\ status[r][p]
            BY <3>2, <4>2
      <4>3. CASE receipts' = receipts BY <4>1, <4>3
      <4>4. QED BY <1>2, <4>1, <4>2, <4>3
    <3>4. QED BY <2>3, <3>1, <3>3
  <2>4. QED BY <2>2, <2>3
<1>9. ConfirmedAreStored' BY <1>1, <1>2 DEF ConfirmedAreStored, batches!Contains
<1>10. QED BY <1>4, <1>5, <1>6, <1>7, <1>8, <1>9 DEF BatchState

\* Only the device waited for may be put at risk, and only by a fault.
LEMMA WaitTrack ==
  ASSUME BatchState, NEW r \in Relay, batches!wait(r),
         NEW x, x = pool[r][sent[r][1]].device,
         NEW d \in Devices, d # x \/ faults' # faults + 1, OnTrack(d)
  PROVE  OnTrack(d)'
<1>1. /\ BatchTypes /\ PoolIsOfRelay /\ AwaitedAreOfPhase BY DEF BatchState
<1> USE DEF WaitOutcome
<1>2. PICK p \in Nat : WaitOutcome(r, p) BY WaitFacts
<1>3. PICK s \in Relay : s = d[1] BY DEF Devices
<1>4. \A j \in 1 .. Len(receipts[s]) :
        j \in 1 .. Len(receipts'[s]) /\ receipts'[s][j] = receipts[s][j]
      BY <1>2
<1>5. HasReceipt(d) => HasReceipt(d)'
  <2>1. ASSUME NEW j \in 1 .. Len(receipts[s]), pool[s][receipts[s][j]].device = d
        PROVE  pool'[s][receipts'[s][j]].device = d /\ j \in 1 .. Len(receipts'[s])
        BY <1>2, <1>4, <2>1
  <2>2. QED BY <1>3, <2>1 DEF HasReceipt
<1>6. \A j \in 1 .. Len(sent[s]) :
        \/ s = r /\ sent[s][j] = p
        \/ \E k \in 1 .. Len(sent'[s]) : sent'[s][k] = sent[s][j]
  <2>1. CASE s = r BY <1>2, <2>1
  <2>2. CASE s # r
    <3>1. sent'[s] = sent[s] BY <1>2, <2>2
    <3>2. QED BY <3>1
  <2>3. QED BY <2>1, <2>2
<1>7. pool[r][p].method = phase /\ p \in 1 .. Len(pool[r])
  <2>1. phase # 3 /\ 1 \in 1 .. Len(sent[r]) /\ p = sent[r][1] BY <1>2
  <2>2. QED BY <1>1, <2>1 DEF AwaitedAreOfPhase
<1>8. CASE phase = 1
  <2>1. IsAwaited(d) => IsAwaited(d)' \/ (d = x /\ s = r)
    <3>1. ASSUME NEW j \in 1 .. Len(sent[s]), pool[s][sent[s][j]].device = d,
                 ~(d = x /\ s = r)
          PROVE  \E k \in 1 .. Len(sent'[s]) : pool'[s][sent'[s][k]].device = d
      <4>1. ~(s = r /\ sent[s][j] = p) BY <1>2, <3>1
      <4>2. PICK k \in 1 .. Len(sent'[s]) : sent'[s][k] = sent[s][j] BY <1>6, <4>1
      <4>3. QED BY <1>2, <3>1, <4>2
    <3>2. QED BY <1>3, <3>1 DEF IsAwaited
  <2>2. CASE d # x BY <1>2, <1>3, <1>8, <2>1, <2>2 DEF OnTrack, NotAtRetry
  <2>3. CASE d = x /\ p \in Mined(r)
    <3>1. d \in onChain BY <1>1, <1>2, <1>7, <1>8, <2>3 DEF PoolIsOfRelay
    <3>2. QED BY <1>2, <1>8, <3>1 DEF OnTrack, NotAtRetry
  <2>4. QED BY <1>2, <2>2, <2>3
<1>9. CASE phase = 2
  <2>1. ASSUME NEW j \in 1 .. Len(sent[s]), pool[s][sent[s][j]].device = d,
               WillSucceed(s, sent[s][j])
        PROVE  WillBeConfirmed(d)' \/ HasReceipt(d)'
    <3>1. CASE s = r /\ sent[s][j] = p
      <4>1. d = x BY <1>2, <2>1, <3>1
      <4>2. p \in Mined(r) BY <1>2, <4>1
      <4>3. status[r][p] BY <2>1, <3>1, <4>2 DEF WillSucceed
      <4>4. /\ Len(receipts[r]) + 1 \in 1 .. Len(receipts'[r])
            /\ receipts'[r][Len(receipts[r]) + 1] = p
            BY <1>2, <4>1, <4>3
      <4>5. pool'[r][p].device = d BY <1>2, <2>1, <3>1
      <4>6. QED BY <1>3, <3>1, <4>4, <4>5 DEF HasReceipt
    <3>2. CASE ~(s = r /\ sent[s][j] = p)
      <4>1. PICK k \in 1 .. Len(sent'[s]) : sent'[s][k] = sent[s][j] BY <1>6, <3>2
      <4>2. PICK q : q = sent[s][j] OBVIOUS
      <4>3. WillSucceed(s, q)' BY <1>2, <2>1, <4>2 DEF WillSucceed, Mined
      <4>4. pool'[s][q].device = d BY <1>2, <2>1, <4>2
      <4>5. sent'[s][k] = q BY <4>1, <4>2
      <4>6. QED BY <1>3, <4>3, <4>4, <4>5 DEF WillBeConfirmed, WillSucceed, Mined
    <3>3. QED BY <3>1, <3>2
  <2>2. WillBeConfirmed(d) => WillBeConfirmed(d)' \/ HasReceipt(d)'
        BY <1>3, <2>1 DEF WillBeConfirmed
  <2>3. UNCHANGED <<phase, pc, position, onChain>> BY <1>2
  <2>4. QED BY <1>5, <1>9, <2>2, <2>3 DEF OnTrack, NotAtRetry
<1>10. QED BY <1>2, <1>8, <1>9

\* A wait keeps the invariant: it puts one device at risk, by a fault.
LEMMA WaitStep ==
  ASSUME BatchInv, NEW r \in Relay, batches!wait(r)
  PROVE  BatchInv'
<1>1. BatchState BY DEF BatchInv
<1>2. BatchState' BY <1>1, WaitState
<1>3. PICK x : x = pool[r][sent[r][1]].device OBVIOUS
<1>4. ASSUME NEW d \in Devices, d # x \/ faults' # faults + 1, OnTrack(d)
      PROVE  OnTrack(d)'
      BY <1>1, <1>3, <1>4, WaitTrack
<1>5. faults' \in {faults, faults + 1} BY DEF batches!wait, batches!Fault
<1>6. CASE faults' = faults + 1
  <2>1. AtRisk' \subseteq AtRisk \cup {x} BY <1>4 DEF AtRisk
  <2>2. QED BY <1>2, <1>6, <2>1, OneFaultOneDevice
<1>7. CASE faults' # faults + 1
  <2>1. AtRisk' \subseteq AtRisk BY <1>4, <1>7 DEF AtRisk
  <2>2. QED BY <1>2, <1>5, <2>1, OneFaultOneDevice
<1>8. QED BY <1>6, <1>7

\* The end of a batch changes the place of a coroutine only.
LEMMA EndBatchStep ==
  ASSUME BatchInv, NEW r \in Relay, batches!endBatch(r)
  PROVE  BatchInv'
<1>1. /\ BatchTypes /\ CoroutinePlaces /\ PoolIsOfRelay /\ ChainIsOfPool
      /\ AwaitedAreOfPhase /\ ConfirmedAreStored
      BY DEF BatchInv, BatchState
<1>2. /\ phase \in {1, 2} /\ pc[r] = "wait" /\ sent[r] = <<>>
      /\ pc' = [pc EXCEPT ![r] = IF position[r] < PER THEN "send" ELSE "returned"]
      /\ UNCHANGED <<phase, position, sent, receipts, confirmed,
                     pool, status, onChain, stored, faults>>
      BY DEF batches!endBatch, batches!chainVars
<1>3. /\ pc' \in [Relay -> {"send", "retry", "wait", "returned"}]
      /\ \A s \in Relay : s # r => pc'[s] = pc[s]
      /\ pc'[r] = "send" => position[r] < PER
      /\ pc'[r] = "returned" => ~(position[r] < PER)
      /\ pc'[r] \in {"send", "returned"}
      BY <1>1, <1>2 DEF BatchTypes
<1>4. BatchTypes' BY <1>1, <1>2, <1>3 DEF BatchTypes
<1>5. CoroutinePlaces'
  <2>1. SUFFICES ASSUME NEW s \in Relay
                 PROVE  /\ pc'[s] \in {"send", "retry"} => position'[s] < PER
                        /\ pc'[s] = "returned" => position'[s] = PER /\ sent'[s] = <<>>
        BY DEF CoroutinePlaces
  <2>2. CASE s # r BY <1>1, <1>2, <1>3, <2>2 DEF CoroutinePlaces
  <2>3. CASE s = r
    <3>1. position[r] \in 0 .. PER /\ PER \in Nat
          BY <1>1, ParameterAssumption DEF BatchTypes
    <3>2. ~(position[r] < PER) => position[r] = PER BY <3>1
    <3>3. QED BY <1>2, <1>3, <2>3, <3>2
  <2>4. QED BY <2>2, <2>3
<1>6. \A s \in Relay : pc'[s] = "retry" <=> pc[s] = "retry" BY <1>2, <1>3
<1>7. PoolIsOfRelay'
      BY <1>1, <1>2, <1>6 DEF PoolIsOfRelay, IsBehind, IsNext, Mined, batches!Contains
<1>8. ChainIsOfPool'
      BY <1>1, <1>2 DEF ChainIsOfPool, HasTx, Mined, batches!Contains
<1>9. AwaitedAreOfPhase' BY <1>1, <1>2 DEF AwaitedAreOfPhase, Mined
<1>10. ConfirmedAreStored' BY <1>1, <1>2 DEF ConfirmedAreStored, batches!Contains
<1>11. BatchState' BY <1>4, <1>5, <1>7, <1>8, <1>9, <1>10 DEF BatchState
<1>12. ASSUME NEW d \in Devices, OnTrack(d) PROVE OnTrack(d)'
  <2>1. d[1] \in Relay BY DEF Devices
  <2>2. NotAtRetry(d) => NotAtRetry(d)' BY <1>2, <1>6, <2>1 DEF NotAtRetry
  <2>3. /\ IsAwaited(d) => IsAwaited(d)'
        /\ HasReceipt(d) => HasReceipt(d)'
        /\ WillBeConfirmed(d) => WillBeConfirmed(d)'
        BY <1>2 DEF IsAwaited, HasReceipt, WillBeConfirmed, WillSucceed, Mined
  <2>4. UNCHANGED <<phase, position, onChain, confirmed>> BY <1>2
  <2>5. QED BY <1>12, <2>2, <2>3, <2>4 DEF OnTrack
<1>13. AtRisk' \subseteq AtRisk BY <1>12 DEF AtRisk
<1>14. QED BY <1>2, <1>11, <1>13, OneFaultOneDevice

\* The devices of the receipts returned are the ones reported.
LEMMA ReceiptDevices ==
  ASSUME BatchTypes, NEW d
  PROVE  /\ d \in batches!DevicesOf(receipts) =>
              \E r \in Relay : \E j \in 1 .. Len(receipts[r]) :
                d = pool[r][receipts[r][j]].device
         /\ d \in Devices /\ HasReceipt(d) => d \in batches!DevicesOf(receipts)
<1>1. \A r \in Relay : DOMAIN receipts[r] = 1 .. Len(receipts[r])
      BY LenProperties DEF BatchTypes
<1>2. d \in batches!DevicesOf(receipts) =>
        \E r \in Relay : \E j \in 1 .. Len(receipts[r]) :
          d = pool[r][receipts[r][j]].device
      BY <1>1 DEF batches!DevicesOf
<1>3. ASSUME d \in Devices, HasReceipt(d) PROVE d \in batches!DevicesOf(receipts)
  <2>1. PICK s \in Relay : s = d[1] BY <1>3 DEF Devices
  <2>2. PICK j \in DOMAIN receipts[s] : pool[s][receipts[s][j]].device = d
        BY <1>1, <1>3, <2>1 DEF HasReceipt
  <2>3. QED BY <2>1, <2>2 DEF batches!DevicesOf
<1>4. QED BY <1>2, <1>3

\* Between the phases all that was awaited is mined, so a device on track in
\* the first is registered, and one on track in the second is confirmed.
LEMMA NextPhaseStep ==
  ASSUME BatchInv, batches!nextPhase
  PROVE  BatchInv'
<1>1. /\ BatchTypes /\ CoroutinePlaces /\ PoolIsOfRelay /\ ChainIsOfPool
      /\ AwaitedAreOfPhase /\ ConfirmedAreStored
      BY DEF BatchInv, BatchState
<1>2. /\ phase \in {1, 2} /\ phase' = phase + 1
      /\ \A r \in Relay : pc[r] = "returned"
      /\ pc' = [r \in Relay |-> "send"] /\ position' = [r \in Relay |-> 0]
      /\ sent' = [r \in Relay |-> <<>>] /\ receipts' = [r \in Relay |-> <<>>]
      /\ confirmed' = IF phase = 2 THEN batches!DevicesOf(receipts) ELSE confirmed
      /\ UNCHANGED <<pool, status, onChain, stored, faults>>
      BY DEF batches!nextPhase, batches!AllReturned, batches!chainVars
<1>3. PER \in Nat \ {0} BY ParameterAssumption
<1>4. \A r \in Relay : position[r] = PER /\ sent[r] = <<>>
      BY <1>1, <1>2 DEF CoroutinePlaces
<1>5. \A r \in Relay : \A p \in Mined(r) : p \in 1 .. Len(pool[r]) /\ pool[r][p] \in Tx
  <2>1. TAKE r \in Relay
  <2>2. TAKE p \in Mined(r)
  <2>3. pool[r] \in Seq(Tx) /\ Len(pool[r]) \in Nat /\ Len(status[r]) \in Nat
        BY <1>1, LenProperties DEF BatchTypes
  <2>4. Len(status[r]) <= Len(pool[r]) BY <1>1 DEF PoolIsOfRelay
  <2>5. p \in 1 .. Len(pool[r]) BY <2>3, <2>4 DEF Mined
  <2>6. QED BY <2>3, <2>5, ElementOfSeq
<1>6. ASSUME NEW d \in batches!DevicesOf(receipts), phase = 2
      PROVE  d \in Devices /\ batches!Contains(stored, d)
  <2>1. PICK r \in Relay : \E j \in 1 .. Len(receipts[r]) :
          d = pool[r][receipts[r][j]].device
        BY <1>1, ReceiptDevices
  <2>6. PICK j \in 1 .. Len(receipts[r]) : d = pool[r][receipts[r][j]].device
        BY <2>1
  <2>2. PICK p : p = receipts[r][j] OBVIOUS
  <2>3. p \in Mined(r) /\ status[r][p] /\ pool[r][p].method = 2
        BY <1>1, <1>6, <2>2 DEF AwaitedAreOfPhase
  <2>4. pool[r][p] \in Tx BY <1>5, <2>3
  <2>5. QED BY <1>1, <2>6, <2>2, <2>3, <2>4 DEF PoolIsOfRelay, Tx
<1>7. BatchTypes'
  <2>1. /\ pc' \in [Relay -> {"send", "retry", "wait", "returned"}]
        /\ position' \in [Relay -> 0 .. PER]
        BY <1>2, <1>3
  <2>2. sent' \in [Relay -> Seq(Nat)] /\ receipts' \in [Relay -> Seq(Nat)]
        BY <1>2, EmptySeq
  <2>3. confirmed' \subseteq Devices BY <1>1, <1>2, <1>6 DEF BatchTypes
  <2>4. phase' \in {1, 2, 3} BY <1>2
  <2>5. QED BY <1>1, <1>2, <2>1, <2>2, <2>3, <2>4 DEF BatchTypes
<1>8. CoroutinePlaces' BY <1>2, <1>3 DEF CoroutinePlaces
<1>9. PoolIsOfRelay'
  <2>1. SUFFICES ASSUME NEW r \in Relay, phase' # 3, NEW p \in 1 .. Len(pool[r])
                 PROVE  (IsBehind(r, pool[r][p]))'
        BY <1>1, <1>2 DEF PoolIsOfRelay, Mined, batches!Contains
  <2>2. phase = 1 /\ phase' = 2 BY <1>2, <2>1
  <2>3. pc[r] # "retry" BY <1>2
  <2>4. IsBehind(r, pool[r][p]) BY <1>1, <2>2, <2>3 DEF PoolIsOfRelay, IsNext
  <2>5. pool[r][p].method \in {1, 2}
    <3>1. pool[r] \in Seq(Tx) BY <1>1 DEF BatchTypes
    <3>2. pool[r][p] \in Tx BY <3>1, ElementOfSeq
    <3>3. QED BY <3>2 DEF Tx
  <2>6. pool[r][p].method < 2 BY <2>2, <2>4, <2>5 DEF IsBehind
  <2>7. QED BY <1>2, <2>2, <2>6 DEF IsBehind
<1>10. ChainIsOfPool'
       BY <1>1, <1>2 DEF ChainIsOfPool, HasTx, Mined, batches!Contains
<1>11. AwaitedAreOfPhase'
  <2>1. \A r \in Relay : Len(sent'[r]) = 0 /\ Len(receipts'[r]) = 0
        BY <1>2, EmptySeq
  <2>2. QED BY <2>1 DEF AwaitedAreOfPhase
<1>12. ConfirmedAreStored'
       BY <1>1, <1>2, <1>6 DEF ConfirmedAreStored, batches!Contains
<1>13. BatchState' BY <1>7, <1>8, <1>9, <1>10, <1>11, <1>12 DEF BatchState
<1>14. ASSUME NEW d \in Devices, OnTrack(d) PROVE OnTrack(d)'
  <2>1. PICK s \in Relay : s = d[1] /\ d[2] \in 1 .. PER BY DEF Devices
  <2>2. d[2] <= position[s] /\ d[2] \in Nat /\ d[2] >= 1 BY <1>3, <1>4, <2>1
  <2>3. Len(sent[s]) = 0 BY <1>4, EmptySeq
  <2>4. ~IsAwaited(d) /\ ~WillBeConfirmed(d)
        BY <2>1, <2>3 DEF IsAwaited, WillBeConfirmed
  <2>5. CASE phase = 1
    <3>1. d \in onChain BY <1>14, <2>1, <2>2, <2>4, <2>5 DEF OnTrack
    <3>2. phase' = 2 /\ pc'[s] = "send" /\ position'[s] = 0 BY <1>2, <2>5
    <3>3. ~(d[2] <= position'[s]) BY <2>2, <3>2
    <3>4. QED BY <1>2, <2>1, <3>1, <3>2, <3>3 DEF OnTrack, NotAtRetry
  <2>6. CASE phase = 2
    <3>1. HasReceipt(d) BY <1>14, <2>1, <2>2, <2>4, <2>6 DEF OnTrack
    <3>2. d \in confirmed' BY <1>1, <1>2, <2>6, <3>1, ReceiptDevices
    <3>3. phase' = 3 BY <1>2, <2>6
    <3>4. QED BY <3>2, <3>3 DEF OnTrack
  <2>7. QED BY <1>2, <2>5, <2>6
<1>15. AtRisk' \subseteq AtRisk BY <1>14 DEF AtRisk
<1>16. QED BY <1>2, <1>13, <1>15, OneFaultOneDevice

\* At the start no device is at risk.
LEMMA BatchScriptInit == ASSUME batches!Init PROVE BatchInv
<1>1. PER \in Nat \ {0} BY ParameterAssumption
<1>2. /\ phase = 1 /\ pc = [r \in Relay |-> "send"]
      /\ position = [r \in Relay |-> 0]
      /\ sent = [r \in Relay |-> <<>>] /\ receipts = [r \in Relay |-> <<>>]
      /\ confirmed = {} /\ pool = [r \in Relay |-> <<>>]
      /\ status = [r \in Relay |-> <<>>] /\ onChain = {} /\ stored = <<>> /\ faults = 0
      BY DEF batches!Init
<1>3. \A r \in Relay :
        /\ Len(sent[r]) = 0 /\ Len(receipts[r]) = 0
        /\ Len(pool[r]) = 0 /\ Len(status[r]) = 0
      BY <1>2, EmptySeq
<1>4. BatchTypes BY <1>1, <1>2, EmptySeq DEF BatchTypes
<1>5. CoroutinePlaces BY <1>1, <1>2 DEF CoroutinePlaces
<1>6. PoolIsOfRelay BY <1>3 DEF PoolIsOfRelay, Mined
<1>7. ChainIsOfPool
  <2>1. Len(stored) = 0 BY <1>2, EmptySeq
  <2>2. QED BY <1>2, <2>1 DEF ChainIsOfPool, batches!Contains
<1>8. AwaitedAreOfPhase BY <1>3 DEF AwaitedAreOfPhase
<1>9. ConfirmedAreStored BY <1>2 DEF ConfirmedAreStored
<1>10. BatchState BY <1>4, <1>5, <1>6, <1>7, <1>8, <1>9 DEF BatchState
<1>11. \A d \in Devices : OnTrack(d)
  <2>1. TAKE d \in Devices
  <2>2. PICK r \in Relay : r = d[1] /\ d[2] \in 1 .. PER BY DEF Devices
  <2>3. ~(d[2] <= position[r]) /\ pc[r] = "send" BY <1>1, <1>2, <2>2
  <2>4. QED BY <1>2, <2>2, <2>3 DEF OnTrack, NotAtRetry
<1>12. Cardinality(AtRisk) = 0
  <2>1. AtRisk = {} BY <1>11 DEF AtRisk
  <2>2. QED BY <2>1, FS_EmptySet
<1>13. QED BY <1>2, <1>10, <1>12 DEF BatchInv

\* Every step of the script keeps the invariant.
LEMMA BatchScriptStep ==
  ASSUME BatchInv, [batches!Next]_(batches!vars)
  PROVE  BatchInv'
<1>1. CASE UNCHANGED batches!vars
  <2>1. UNCHANGED <<phase, pc, position, sent, receipts, confirmed, pool, status,
                    onChain, stored, faults>>
        BY <1>1 DEF batches!vars, batches!relayVars, batches!chainVars
  <2>2. /\ UNCHANGED BatchTypes /\ UNCHANGED CoroutinePlaces
        /\ UNCHANGED AwaitedAreOfPhase
        BY <2>1 DEF BatchTypes, CoroutinePlaces, AwaitedAreOfPhase, Mined
  <2>3. /\ UNCHANGED PoolIsOfRelay /\ UNCHANGED ChainIsOfPool
        /\ UNCHANGED ConfirmedAreStored
        BY <2>1 DEF PoolIsOfRelay, ChainIsOfPool, ConfirmedAreStored, IsBehind,
             IsNext, HasTx, Mined, batches!Contains
  <2>4. UNCHANGED AtRisk
        BY <2>1 DEF AtRisk, OnTrack, NotAtRetry, IsAwaited, HasReceipt,
             WillBeConfirmed, WillSucceed, Mined
  <2>5. QED BY <2>1, <2>2, <2>3, <2>4 DEF BatchInv, BatchState
<1>2. CASE batches!nextPhase BY <1>2, NextPhaseStep
<1>3. CASE \E r \in Relay : batches!coroutine(r) \/ batches!mine(r)
  <2>1. PICK r \in Relay : batches!coroutine(r) \/ batches!mine(r) BY <1>3
  <2>2. QED BY <2>1, SendStep, WaitStep, EndBatchStep, MineStep DEF batches!coroutine
<1>4. QED BY <1>1, <1>2, <1>3 DEF batches!Next

\* What the script of the two relays reports as confirmed is stored, and it
\* misses at most one device for each refusal, lost answer or lost receipt.
THEOREM Reports == Spec => []ReportIsTrue
<1> DEFINE I == program = "batch_script" => BatchInv
<1>1. Init => I BY Started, BatchScriptInit
<1>2. I /\ [Next]_vars => I' BY OneProgram, BatchScriptStep
<1>3. ASSUME BatchInv PROVE batches!ConfirmedIsStored
  <2>1. /\ BatchTypes /\ PoolIsOfRelay /\ AwaitedAreOfPhase /\ ConfirmedAreStored
        BY <1>3 DEF BatchInv, BatchState
  <2>2. SUFFICES ASSUME phase = 2, NEW r \in Relay, NEW j \in DOMAIN receipts[r]
                 PROVE  batches!Contains(stored, pool[r][receipts[r][j]].device)
        BY <2>1 DEF batches!ConfirmedIsStored, ConfirmedAreStored
  <2>3. j \in 1 .. Len(receipts[r]) BY <2>1, LenProperties DEF BatchTypes
  <2>4. PICK p : p = receipts[r][j] OBVIOUS
  <2>5. p \in Mined(r) /\ status[r][p] /\ pool[r][p].method = 2
        BY <2>1, <2>2, <2>3, <2>4 DEF AwaitedAreOfPhase
  <2>6. QED BY <2>1, <2>4, <2>5 DEF PoolIsOfRelay
<1>4. ASSUME BatchInv PROVE batches!FaultsBoundLoss
  <2>1. Cardinality(AtRisk) <= faults /\ faults \in Nat
        BY <1>3, <1>4 DEF BatchInv, BatchState, BatchTypes
  <2>2. SUFFICES ASSUME phase = 3
                 PROVE  batches!Cardinality(batches!Devices \ confirmed) <= faults
        BY DEF batches!FaultsBoundLoss
  <2>3. batches!Devices \ confirmed = AtRisk
        BY <2>2 DEF batches!Devices, Devices, AtRisk, OnTrack
  <2>4. batches!Cardinality(AtRisk) = Cardinality(AtRisk)
        BY DEF batches!Cardinality, Cardinality
  <2>5. QED BY <2>1, <2>3, <2>4
<1>5. I => ReportIsTrue BY <1>3, <1>4 DEF ReportIsTrue
<1>6. QED BY <1>1, <1>2, <1>5, PTL DEF Spec

=============================================================================
