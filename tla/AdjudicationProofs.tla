------------------------ MODULE AdjudicationProofs -------------------------
(***************************************************************************)
(* Theorems about how AccountableRelay decides and what its verdicts cost: *)
(* the states of records, batches and leaves, the counters of open         *)
(* disputes and the votes; then the exposure of verifiers, who may lose a  *)
(* stake, who does, and where the money goes; last, that what is posted    *)
(* is adjudicated as the module Adjudication says.                         *)
(***************************************************************************)
EXTENDS AccountableRelayProofs

-----------------------------------------------------------------------------
(* What a step does to the targets.                                        *)

\* A target is as it was.
KeepsTarget(t) ==
  /\ Posted(t)' <=> Posted(t)
  /\ Posted(t) => /\ TargetRelay(t)' = TargetRelay(t)
                  /\ TargetState(t)' = TargetState(t)
                  /\ Settled(t)' <=> Settled(t)

\* No step but a submission posts a target, and none moves one to another relay.
LEMMA PostedKeeps ==
  ASSUME SamePosted, NEW t \in Target
  PROVE  /\ Posted(t)' <=> Posted(t)
         /\ Posted(t) => TargetRelay(t)' = TargetRelay(t)
<1>1. Posted(t)' <=> Posted(t) BY DEF SamePosted, SameBatch, Posted
<1>2. Posted(t) => TargetRelay(t)' = TargetRelay(t)
      BY DEF SamePosted, SameRecord, SameBatch, Posted, TargetRelay
<1>3. QED BY <1>1, <1>2

\* A target is kept by a step that changes neither its record's state, nor its
\* leaf's and its batch's.
LEMMA TargetKept ==
  ASSUME SamePosted, NEW t \in Target,
         t[1] = 0 /\ t[2] \in DOMAIN records =>
           records'[t[2]].state = records[t[2]].state,
         t[1] # 0 =>
           /\ batchLeafState'[t[2]][t[3]] = batchLeafState[t[2]][t[3]]
           /\ t[2] \in DOMAIN batches =>
                batches'[t[2]].state = batches[t[2]].state
  PROVE  KeepsTarget(t)
<1>1. Posted(t)' <=> Posted(t) BY PostedKeeps
<1>2. Posted(t) => TargetRelay(t)' = TargetRelay(t) BY PostedKeeps
<1>3. ASSUME Posted(t) PROVE TargetState(t)' = TargetState(t)
      BY <1>3 DEF TargetState, Posted
<1>4. ASSUME Posted(t) PROVE Settled(t)' <=> Settled(t)
      BY <1>3, <1>4 DEF Settled, Posted
<1>5. QED BY <1>1, <1>2, <1>3, <1>4 DEF KeepsTarget

\* Changing the state of one record keeps every other target.
LEMMA RecordStateChange ==
  ASSUME TypeOK, NEW i \in DOMAIN records, NEW s,
         records' = [records EXCEPT ![i].state = s],
         UNCHANGED <<batches, batchLeafState>>
  PROVE  /\ SamePosted
         /\ \A t \in Target : t # RecordTarget(i) => KeepsTarget(t)
         /\ records'[i].state = s
<1>1. TargetTypes BY DEF TypeOK
<1>2. SamePosted BY <1>1, SamePostedCases
<1>3. \A j \in DOMAIN records : j # i => records'[j] = records[j] OBVIOUS
<1>4. ASSUME NEW t \in Target, t # RecordTarget(i) PROVE KeepsTarget(t)
  <2>1. t[1] = 0 => t[2] # i BY <1>4, TargetCases
  <2>2. t[1] = 0 /\ t[2] \in DOMAIN records =>
          records'[t[2]].state = records[t[2]].state
        BY <1>3, <2>1
  <2>3. QED BY <1>2, <2>2, TargetKept
<1>5. records[i] \in Record BY <1>1 DEF TargetTypes
<1>6. records'[i] = [records[i] EXCEPT !.state = s] OBVIOUS
<1>7. records'[i].state = s BY <1>5, <1>6 DEF Record
<1>8. QED BY <1>2, <1>4, <1>7

\* Changing the state of one leaf keeps every other target.
LEMMA LeafStateChange ==
  ASSUME TypeOK, NEW b \in 1 .. MaxBatches, NEW l \in 1 .. MaxLeaves, NEW s,
         batchLeafState' = [batchLeafState EXCEPT ![b][l] = s],
         UNCHANGED records, SamePosted,
         \A c \in DOMAIN batches : batches'[c].state = batches[c].state
  PROVE  /\ \A t \in Target : t # LeafTarget(b, l) => KeepsTarget(t)
         /\ batchLeafState'[b][l] = s
<1>1. batchLeafState \in [1 .. MaxBatches -> [1 .. MaxLeaves -> LeafState]]
      BY DEF TypeOK, TargetTypes
<1>2. /\ batchLeafState'[b][l] = s
      /\ \A c \in 1 .. MaxBatches, m \in 1 .. MaxLeaves :
           ~ (c = b /\ m = l) => batchLeafState'[c][m] = batchLeafState[c][m]
      BY <1>1
<1>3. ASSUME NEW t \in Target, t # LeafTarget(b, l) PROVE KeepsTarget(t)
  <2>1. t[1] # 0 => /\ t[2] \in 1 .. MaxBatches /\ t[3] \in 1 .. MaxLeaves
                    /\ ~ (t[2] = b /\ t[3] = l)
        BY <1>3, TargetCases
  <2>2. t[1] # 0 => batchLeafState'[t[2]][t[3]] = batchLeafState[t[2]][t[3]]
        BY <1>2, <2>1
  <2>3. QED BY <2>2, TargetKept
<1>4. QED BY <1>2, <1>3

\* A dispute is opened about an undecided target that is not under dispute,
\* and no other target changes.
Opens(t, a, bond) ==
  /\ t \in Target /\ Posted(t)
  /\ TargetState(t) # "Disputed" /\ ~Settled(t)
  /\ TargetState(t)' = "Disputed" /\ ~Settled(t)'
  /\ SamePosted
  /\ \A u \in Target : u # t => KeepsTarget(u)
  /\ OpenDispute(a, t, bond)
  /\ UNCHANGED <<now, exposureVars>>

\* openDispute does that for a record.
LEMMA OpenRecordShape ==
  ASSUME TypeOK, NEW a \in Address, NEW bond \in Nat, NEW i \in 1 .. MaxRecords,
         openDispute(a, i, bond)
  PROVE  Opens(RecordTarget(i), a, bond)
<1> DEFINE t == RecordTarget(i)
<1>1. t \in Target /\ t[1] = 0 /\ t[2] = i BY TargetCases DEF RecordTarget
<1>2. /\ i \in DOMAIN records /\ records[i].state = "Provisional"
      /\ records' = [records EXCEPT ![i].state = "Disputed"]
      /\ UNCHANGED <<batches, batchLeafState, now, exposureVars>>
      /\ OpenDispute(a, t, bond)
      BY DEF openDispute, chainVars
<1>3. /\ SamePosted /\ records'[i].state = "Disputed"
      /\ \A u \in Target : u # t => KeepsTarget(u)
      BY <1>2, RecordStateChange
<1> HIDE DEF t
<1>4. Posted(t) BY <1>1, <1>2 DEF Posted
<1>5. TargetState(t) # "Disputed" /\ ~Settled(t)
      BY <1>1, <1>2 DEF TargetState, Settled
<1>6. TargetState(t)' = "Disputed" BY <1>1, <1>3 DEF TargetState
<1>7. ~Settled(t)' BY <1>1, <1>6 DEF Settled
<1>8. QED BY <1>1, <1>2, <1>3, <1>4, <1>5, <1>6, <1>7 DEF Opens, t

\* openBatchLeafDispute does that for a leaf.
LEMMA OpenLeafShape ==
  ASSUME TypeOK, NEW a \in Address, NEW bond \in Nat, NEW b \in 1 .. MaxBatches,
         NEW l \in 1 .. MaxLeaves, NEW leaf, openBatchLeafDispute(a, b, l, leaf, bond)
  PROVE  Opens(LeafTarget(b, l), a, bond)
<1> DEFINE t == LeafTarget(b, l)
<1>1. t \in Target /\ t[1] = 1 /\ t[2] = b /\ t[3] = l
      BY TargetCases DEF LeafTarget
<1>2. /\ b \in DOMAIN batches /\ batches[b].state = "Provisional"
      /\ l \in 1 .. Len(batches[b].merkleRoot)
      /\ batchLeafState[b][l] \in {"Undisputed", "Upheld"}
      /\ batchLeafState' = [batchLeafState EXCEPT ![b][l] = "Disputed"]
      /\ UNCHANGED <<records, batches, now, exposureVars>>
      /\ OpenDispute(a, t, bond)
      BY DEF openBatchLeafDispute, Disputable, chainVars
<1>3. SamePosted BY <1>2, SamePostedCases DEF TypeOK
<1>4. /\ batchLeafState'[b][l] = "Disputed"
      /\ \A u \in Target : u # t => KeepsTarget(u)
      BY <1>2, <1>3, LeafStateChange
<1>5. l \in DOMAIN batches[b].merkleRoot
  <2>1. batches[b] \in Batch BY <1>2 DEF TypeOK, TargetTypes
  <2>2. batches[b].merkleRoot \in Seq(Leaf) BY <2>1 DEF Batch
  <2>3. QED BY <1>2, <2>2
<1> HIDE DEF t
<1>6. Posted(t) BY <1>1, <1>2, <1>5 DEF Posted
<1>7. TargetState(t) # "Disputed" /\ ~Settled(t)
      BY <1>1, <1>2 DEF TargetState, Settled
<1>8. TargetState(t)' = "Disputed" BY <1>1, <1>4 DEF TargetState
<1>9. ~Settled(t)' BY <1>1, <1>2, <1>8 DEF Settled
<1>10. QED BY <1>1, <1>2, <1>3, <1>4, <1>6, <1>7, <1>8, <1>9 DEF Opens, t

\* A verdict decides a target under dispute, or makes it disputable again.
LEMMA VerdictShape ==
  ASSUME TypeOK, NEW t \in Target, Posted(t), ~Settled(t),
         TargetState(t) = "Disputed", RevokeTarget(t) \/ UpholdTarget(t)
  PROVE  /\ SamePosted
         /\ \A u \in Target : u # t => KeepsTarget(u)
         /\ RevokeTarget(t) => TargetState(t)' = "Revoked" /\ Settled(t)'
         /\ UpholdTarget(t) => /\ TargetState(t)' \notin {"Disputed", "Revoked"}
                               /\ ~Settled(t)'
<1> DEFINE n == t[2]
           l == t[3]
<1>1. SamePosted BY VerdictSamePosted DEF TypeOK
<1>2. CASE t[1] = 0
  <2>1. n \in DOMAIN records /\ t = RecordTarget(n)
        BY <1>2, TargetCases DEF Posted
  <2>2. /\ UNCHANGED <<batches, batchLeafState>>
        /\ \E s : /\ records' = [records EXCEPT ![n].state = s]
                  /\ RevokeTarget(t) => s = "Revoked"
                  /\ UpholdTarget(t) => s = "Provisional"
    <3>1. RevokeTarget(t) =>
            /\ records' = [records EXCEPT ![n].state = "Revoked"]
            /\ UNCHANGED <<batches, batchLeafState>>
          BY <1>2 DEF RevokeTarget
    <3>2. UpholdTarget(t) =>
            /\ records' = [records EXCEPT ![n].state = "Provisional"]
            /\ UNCHANGED <<batches, batchLeafState>>
          BY <1>2 DEF UpholdTarget
    <3>3. ~ (RevokeTarget(t) /\ UpholdTarget(t))
      <4>1. records[n] \in Record BY <2>1 DEF TypeOK, TargetTypes
      <4>2. [records[n] EXCEPT !.state = "Revoked"].state = "Revoked"
            /\ [records[n] EXCEPT !.state = "Provisional"].state = "Provisional"
            BY <4>1 DEF Record
      <4>3. /\ [records EXCEPT ![n].state = "Revoked"][n]
                 = [records[n] EXCEPT !.state = "Revoked"]
            /\ [records EXCEPT ![n].state = "Provisional"][n]
                 = [records[n] EXCEPT !.state = "Provisional"]
            BY <2>1
      <4>4. QED BY <3>1, <3>2, <4>2, <4>3
    <3>4. QED BY <3>1, <3>2, <3>3
  <2>3. PICK s : /\ records' = [records EXCEPT ![n].state = s]
                 /\ RevokeTarget(t) => s = "Revoked"
                 /\ UpholdTarget(t) => s = "Provisional"
        BY <2>2
  <2> HIDE DEF n
  <2>4. /\ \A u \in Target : u # t => KeepsTarget(u)
        /\ records'[n].state = s
        BY <2>1, <2>2, <2>3, RecordStateChange
  <2>5. TargetState(t)' = s BY <1>2, <2>4 DEF TargetState, n
  <2>6. Settled(t)' <=> s \in {"Confirmed", "Revoked"}
        BY <1>2, <2>5 DEF Settled
  <2>7. QED BY <1>1, <2>3, <2>4, <2>5, <2>6
<1>3. CASE t[1] # 0
  <2>1. /\ n \in DOMAIN batches /\ n \in 1 .. MaxBatches /\ l \in 1 .. MaxLeaves
        /\ t = LeafTarget(n, l)
        BY <1>3, TargetCases DEF Posted
  <2>2. /\ UNCHANGED records
        /\ \A c \in DOMAIN batches : batches'[c].state = batches[c].state
    <3>1. UNCHANGED records
          /\ \/ UNCHANGED batches
             \/ batches' = [batches EXCEPT ![n].revokedLeafCount = @ + 1]
          BY <1>3 DEF RevokeTarget, UpholdTarget
    <3>2. batches[n] \in Batch BY <2>1 DEF TypeOK, TargetTypes
    <3>3. [batches[n] EXCEPT !.revokedLeafCount = @ + 1].state = batches[n].state
          BY <3>2 DEF Batch
    <3> DEFINE x == [batches[n] EXCEPT !.revokedLeafCount = @ + 1]
    <3>4. \/ UNCHANGED batches
          \/ batches' = [batches EXCEPT ![n] = x]
          BY <3>1
    <3> HIDE DEF x, n
    <3>5. QED BY <3>1, <3>3, <3>4 DEF x
  <2>3. PICK s : /\ batchLeafState' = [batchLeafState EXCEPT ![n][l] = s]
                 /\ RevokeTarget(t) => s = "Revoked"
                 /\ UpholdTarget(t) => s = "Upheld"
    <3>1. RevokeTarget(t) =>
            batchLeafState' = [batchLeafState EXCEPT ![n][l] = "Revoked"]
          BY <1>3 DEF RevokeTarget
    <3>2. UpholdTarget(t) =>
            batchLeafState' = [batchLeafState EXCEPT ![n][l] = "Upheld"]
          BY <1>3 DEF UpholdTarget
    <3>3. batchLeafState \in [1 .. MaxBatches -> [1 .. MaxLeaves -> LeafState]]
          BY DEF TypeOK, TargetTypes
    <3>4. ~ (RevokeTarget(t) /\ UpholdTarget(t))
      <4>1. /\ [batchLeafState EXCEPT ![n][l] = "Revoked"][n][l] = "Revoked"
            /\ [batchLeafState EXCEPT ![n][l] = "Upheld"][n][l] = "Upheld"
        <5> HIDE DEF n, l
        <5>1. QED BY <2>1, <3>3
      <4>2. QED BY <3>1, <3>2, <4>1
    <3>5. QED BY <3>1, <3>2, <3>4
  <2> HIDE DEF n, l
  <2>4. /\ \A u \in Target : u # t => KeepsTarget(u)
        /\ batchLeafState'[n][l] = s
        BY <1>1, <2>1, <2>2, <2>3, LeafStateChange
  <2>5. TargetState(t)' = s BY <1>3, <2>4 DEF TargetState, n, l
  <2>6. batches'[n].state # "Confirmed"
        BY <1>3, <2>1, <2>2 DEF Settled, n
  <2>7. Settled(t)' <=> s = "Revoked"
        BY <1>3, <2>5, <2>6 DEF Settled, n
  <2>8. QED BY <1>1, <2>3, <2>4, <2>5, <2>7
<1>4. QED BY <1>2, <1>3

-----------------------------------------------------------------------------
(* The leaves of the batches.                                              *)

\* The leaves of batch b that are in state s under the assignment f.
LeavesIn(f, b, s) == {l \in 1 .. MaxLeaves : f[b][l] = s}

\* From f to g one leaf of batch b moves from state old to state s.
OneLeafMoves(f, g, b, old, s) ==
  /\ Cardinality(LeavesIn(g, b, s)) = Cardinality(LeavesIn(f, b, s)) + 1
  /\ Cardinality(LeavesIn(g, b, old)) = Cardinality(LeavesIn(f, b, old)) - 1
  /\ Cardinality(LeavesIn(g, b, s)) \in Nat
  /\ Cardinality(LeavesIn(f, b, s)) \in Nat
  /\ Cardinality(LeavesIn(f, b, old)) \in Nat
  /\ \A c \in 1 .. MaxBatches, u \in LeafState :
       c # b \/ u \notin {s, old} =>
         Cardinality(LeavesIn(g, c, u)) = Cardinality(LeavesIn(f, c, u))

\* Changing the state of one leaf does that.
LEMMA LeafCounts ==
  ASSUME NEW f \in [1 .. MaxBatches -> [1 .. MaxLeaves -> LeafState]],
         NEW b \in 1 .. MaxBatches, NEW l \in 1 .. MaxLeaves, NEW s \in LeafState,
         NEW old, old = f[b][l], old # s,
         NEW g, g = [f EXCEPT ![b][l] = s]
  PROVE  OneLeafMoves(f, g, b, old, s)
<1>1. \A h, c, u : IsFiniteSet(LeavesIn(h, c, u))
  <2>1. IsFiniteSet(1 .. MaxLeaves) BY InputAssumption, FS_Interval
  <2>2. \A h, c, u : LeavesIn(h, c, u) \subseteq 1 .. MaxLeaves BY DEF LeavesIn
  <2>3. QED BY <2>1, <2>2, FS_Subset
<1>2. /\ LeavesIn(g, b, s) = LeavesIn(f, b, s) \cup {l}
      /\ l \notin LeavesIn(f, b, s)
      /\ LeavesIn(g, b, old) = LeavesIn(f, b, old) \ {l}
      /\ l \in LeavesIn(f, b, old)
      /\ \A c \in 1 .. MaxBatches, u \in LeafState :
           c # b \/ u \notin {s, old} => LeavesIn(g, c, u) = LeavesIn(f, c, u)
  <2>1. /\ g[b][l] = s /\ f[b][l] = old
        /\ \A c \in 1 .. MaxBatches, m \in 1 .. MaxLeaves :
             ~ (c = b /\ m = l) => g[c][m] = f[c][m]
        OBVIOUS
  <2>2. QED BY <2>1 DEF LeavesIn
<1>3. \A h, c, u : Cardinality(LeavesIn(h, c, u)) \in Nat BY <1>1, FS_CardinalityType
<1>4. Cardinality(LeavesIn(g, b, s)) = Cardinality(LeavesIn(f, b, s)) + 1
      BY <1>1, <1>2, FS_AddElement
<1>5. Cardinality(LeavesIn(g, b, old)) = Cardinality(LeavesIn(f, b, old)) - 1
  <2>1. /\ IsFiniteSet(LeavesIn(f, b, old))
        /\ LeavesIn(g, b, old) = LeavesIn(f, b, old) \ {l}
        /\ l \in LeavesIn(f, b, old)
        BY <1>1, <1>2
  <2>2. QED BY <2>1, FS_RemoveElement
<1>6. QED BY <1>2, <1>3, <1>4, <1>5 DEF OneLeafMoves

\* The parts of DisputeCounters, by name.
RelayCases(a) == {i \in OpenDisputes : TargetRelay(disputes[i].target) = a}
RelayCounters ==
  \A a \in Address : relayActiveDisputes[a] = Cardinality(RelayCases(a))
LeafCounters ==
  \A b \in 1 .. MaxBatches :
    batchOpenLeafDisputes[b] = Cardinality(LeavesIn(batchLeafState, b, "Disputed"))
OpenMeansDisputed ==
  \A i \in OpenDisputes : TargetState(disputes[i].target) = "Disputed"
OneOpenEach ==
  \A i, j \in OpenDisputes : disputes[i].target = disputes[j].target => i = j
DisputedMeansOpen ==
  \A target \in Target :
    Posted(target) /\ TargetState(target) = "Disputed" =>
      DisputesAbout(target) \cap OpenDisputes # {}

\* They are all of it.
LEMMA CounterParts ==
  DisputeCounters <=>
    /\ RelayCounters /\ LeafCounters /\ OpenMeansDisputed /\ OneOpenEach
    /\ DisputedMeansOpen
BY DEF DisputeCounters, RelayCounters, RelayCases, LeafCounters, LeavesIn,
       OpenMeansDisputed, OneOpenEach, DisputedMeansOpen

\* Nobody has touched a leaf that was never posted.
LeavesUntouched ==
  \A b \in 1 .. MaxBatches, l \in 1 .. MaxLeaves :
    ~Posted(LeafTarget(b, l)) => batchLeafState[b][l] = "Undisputed"

\* What is said about the leaves alone.
LeafInvariant == LeafCounters /\ BatchAudit /\ LeavesUntouched

\* It is kept by a step that touches no leaf, and confirms no batch with a leaf
\* under dispute.
LEMMA LeavesKept ==
  ASSUME TypeOK, LeafInvariant,
         UNCHANGED <<batchLeafState, batchOpenLeafDisputes>>,
         \A b \in DOMAIN batches :
           /\ b \in DOMAIN batches'
           /\ batches'[b].merkleRoot = batches[b].merkleRoot,
         \A b \in DOMAIN batches' :
           \/ /\ b \in DOMAIN batches
              /\ batches'[b].revokedLeafCount = batches[b].revokedLeafCount
              /\ \/ batches'[b].state = batches[b].state
                 \/ batchOpenLeafDisputes[b] = 0
           \/ /\ b \in 1 .. MaxBatches /\ b \notin DOMAIN batches
              /\ batches'[b].revokedLeafCount = 0
              /\ batches'[b].state # "Confirmed"
  PROVE  LeafInvariant'
<1>0. /\ batchLeafState \in [1 .. MaxBatches -> [1 .. MaxLeaves -> LeafState]]
      /\ DOMAIN batches \subseteq 1 .. MaxBatches
  <2>1. batches \in Seq(Batch) /\ Len(batches) <= MaxBatches /\ MaxBatches \in Nat
        BY InputAssumption DEF TypeOK, TargetTypes
  <2>2. QED BY <2>1 DEF TypeOK, TargetTypes
<1>1. LeafCounters' BY DEF LeafInvariant, LeafCounters
<1>2. LeavesUntouched'
  <2>1. \A b, l : Posted(LeafTarget(b, l)) => Posted(LeafTarget(b, l))'
        BY DEF Posted, LeafTarget
  <2>2. QED BY <2>1 DEF LeafInvariant, LeavesUntouched
<1>3. ASSUME NEW b \in DOMAIN batches'
      PROVE  /\ batches'[b].revokedLeafCount =
                  Cardinality(LeavesIn(batchLeafState, b, "Revoked"))
             /\ batches'[b].state = "Confirmed" =>
                  LeavesIn(batchLeafState, b, "Disputed") = {}
  <2>1. CASE b \in DOMAIN batches
    <3>1. /\ batches[b].revokedLeafCount =
               Cardinality(LeavesIn(batchLeafState, b, "Revoked"))
          /\ batches[b].state = "Confirmed" =>
               LeavesIn(batchLeafState, b, "Disputed") = {}
          BY <2>1 DEF LeafInvariant, BatchAudit, LeavesIn
    <3>2. /\ batches'[b].revokedLeafCount = batches[b].revokedLeafCount
          /\ \/ batches'[b].state = batches[b].state
             \/ batchOpenLeafDisputes[b] = 0
          BY <2>1
    <3>3. b \in 1 .. MaxBatches BY <1>0, <2>1
    <3>4. batchOpenLeafDisputes[b] = Cardinality(LeavesIn(batchLeafState, b, "Disputed"))
          BY <3>3 DEF LeafInvariant, LeafCounters
    <3>5. IsFiniteSet(LeavesIn(batchLeafState, b, "Disputed"))
      <4>1. IsFiniteSet(1 .. MaxLeaves) BY InputAssumption, FS_Interval
      <4>2. LeavesIn(batchLeafState, b, "Disputed") \subseteq 1 .. MaxLeaves BY DEF LeavesIn
      <4>3. QED BY <4>1, <4>2, FS_Subset
    <3>6. batchOpenLeafDisputes[b] = 0 => LeavesIn(batchLeafState, b, "Disputed") = {}
          BY <3>4, <3>5, FS_EmptySet
    <3>7. QED BY <3>1, <3>2, <3>6
  <2>2. CASE b \notin DOMAIN batches
    <3>1. /\ b \in 1 .. MaxBatches
          /\ batches'[b].revokedLeafCount = 0
          /\ batches'[b].state # "Confirmed"
          BY <2>2
    <3>2. \A l \in 1 .. MaxLeaves : batchLeafState[b][l] = "Undisputed"
          BY <2>2, <3>1 DEF LeafInvariant, LeavesUntouched, Posted, LeafTarget
    <3>3. LeavesIn(batchLeafState, b, "Revoked") = {} BY <3>2 DEF LeavesIn
    <3>4. QED BY <3>1, <3>3, FS_EmptySet
  <2>3. QED BY <2>1, <2>2
<1>4. BatchAudit' BY <1>3 DEF BatchAudit, LeavesIn
<1>5. QED BY <1>1, <1>2, <1>4 DEF LeafInvariant

\* The counters of batch b, whose leaf changes its state from old to s, follow.
BatchFollows(b, old, s) ==
  /\ \A c \in DOMAIN batches :
       /\ batches'[c].state = batches[c].state
       /\ batches'[c].revokedLeafCount =
            IF c = b /\ s = "Revoked" THEN batches[c].revokedLeafCount + 1
            ELSE batches[c].revokedLeafCount
  /\ \A c \in 1 .. MaxBatches :
       batchOpenLeafDisputes'[c] =
         IF c = b /\ s = "Disputed" THEN batchOpenLeafDisputes[c] + 1
         ELSE IF c = b /\ old = "Disputed" THEN batchOpenLeafDisputes[c] - 1
         ELSE batchOpenLeafDisputes[c]

\* The invariant is kept when one leaf of an unconfirmed batch changes its state
\* and the two counters of the batch follow.
LEMMA LeafChange ==
  ASSUME TypeOK, LeafInvariant,
         NEW b \in DOMAIN batches, NEW l \in 1 .. MaxLeaves,
         l \in DOMAIN batches[b].merkleRoot, batches[b].state # "Confirmed",
         NEW s \in LeafState, NEW old, old = batchLeafState[b][l],
         old # s, old # "Revoked",
         batchLeafState' = [batchLeafState EXCEPT ![b][l] = s],
         SamePosted,
         BatchFollows(b, old, s)
  PROVE  LeafInvariant'
<1>0. /\ batchLeafState \in [1 .. MaxBatches -> [1 .. MaxLeaves -> LeafState]]
      /\ DOMAIN batches \subseteq 1 .. MaxBatches
  <2>1. batches \in Seq(Batch) /\ Len(batches) <= MaxBatches /\ MaxBatches \in Nat
        BY InputAssumption DEF TypeOK, TargetTypes
  <2>2. QED BY <2>1 DEF TypeOK, TargetTypes
<1>1. b \in 1 .. MaxBatches BY <1>0
<1>2. PICK f, g : f = batchLeafState /\ g = batchLeafState' OBVIOUS
<1>20. /\ f \in [1 .. MaxBatches -> [1 .. MaxLeaves -> LeafState]]
       /\ g = [f EXCEPT ![b][l] = s] /\ old = f[b][l] /\ old # s
       BY <1>0, <1>2
<1>3. OneLeafMoves(f, g, b, old, s) BY <1>1, <1>20, LeafCounts, ZenonT(40)
<1>4. {"Disputed", "Revoked"} \subseteq LeafState BY DEF LeafState
<1>5. LeafCounters'
  <2> SUFFICES ASSUME NEW c \in 1 .. MaxBatches
               PROVE  batchOpenLeafDisputes'[c] = Cardinality(LeavesIn(g, c, "Disputed"))
      BY <1>2 DEF LeafCounters
  <2>1. batchOpenLeafDisputes[c] = Cardinality(LeavesIn(f, c, "Disputed"))
        BY <1>2 DEF LeafInvariant, LeafCounters
  <2>2. QED BY <1>3, <1>4, <2>1 DEF BatchFollows, OneLeafMoves
<1>6. ASSUME NEW c \in DOMAIN batches'
      PROVE  /\ batches'[c].revokedLeafCount = Cardinality(LeavesIn(g, c, "Revoked"))
             /\ batches'[c].state = "Confirmed" => LeavesIn(g, c, "Disputed") = {}
  <2>1. c \in DOMAIN batches /\ c \in 1 .. MaxBatches BY <1>0 DEF SamePosted
  <2>2. /\ batches[c].revokedLeafCount = Cardinality(LeavesIn(f, c, "Revoked"))
        /\ batches[c].state = "Confirmed" => LeavesIn(f, c, "Disputed") = {}
        BY <1>2, <2>1 DEF LeafInvariant, BatchAudit, LeavesIn
  <2>3. c # b => LeavesIn(g, c, "Disputed") = LeavesIn(f, c, "Disputed")
        BY <1>0, <1>1, <1>2, <2>1 DEF LeavesIn
  <2>4. QED BY <1>3, <1>4, <2>1, <2>2, <2>3 DEF BatchFollows, OneLeafMoves
<1>7. BatchAudit' BY <1>2, <1>6 DEF BatchAudit, LeavesIn
<1>8. LeavesUntouched'
  <2> SUFFICES ASSUME NEW c \in 1 .. MaxBatches, NEW m \in 1 .. MaxLeaves,
                      ~Posted(LeafTarget(c, m))'
               PROVE  batchLeafState'[c][m] = "Undisputed"
      BY DEF LeavesUntouched
  <2>1. ~Posted(LeafTarget(c, m)) /\ LeafTarget(c, m) # LeafTarget(b, l)
        BY DEF SamePosted, SameBatch, Posted, LeafTarget
  <2>2. ~ (c = b /\ m = l) BY <2>1
  <2>3. batchLeafState[c][m] = "Undisputed" BY <2>1 DEF LeafInvariant, LeavesUntouched
  <2>4. QED BY <1>0, <1>1, <2>2, <2>3
<1>9. QED BY <1>5, <1>7, <1>8 DEF LeafInvariant

\* A leaf comes under dispute.
LEMMA LeafOpened ==
  ASSUME TypeOK, LeafInvariant, NEW a \in Address, NEW bond \in Nat,
         NEW b \in 1 .. MaxBatches, NEW l \in 1 .. MaxLeaves, NEW leaf,
         openBatchLeafDispute(a, b, l, leaf, bond)
  PROVE  LeafInvariant'
<1>1. /\ b \in DOMAIN batches /\ batches[b].state = "Provisional"
      /\ l \in 1 .. Len(batches[b].merkleRoot)
      /\ batchLeafState[b][l] \in {"Undisputed", "Upheld"}
      /\ batchLeafState' = [batchLeafState EXCEPT ![b][l] = "Disputed"]
      /\ batchOpenLeafDisputes' = [batchOpenLeafDisputes EXCEPT ![b] = @ + 1]
      /\ UNCHANGED <<records, batches>>
      BY DEF openBatchLeafDispute, Disputable
<1>2. l \in DOMAIN batches[b].merkleRoot
  <2>1. batches[b] \in Batch BY <1>1 DEF TypeOK, TargetTypes
  <2>2. batches[b].merkleRoot \in Seq(Leaf) BY <2>1 DEF Batch
  <2>3. QED BY <1>1, <2>2
<1>3. SamePosted BY <1>1, SamePostedCases DEF TypeOK
<1>4. \A c \in 1 .. MaxBatches :
        batchOpenLeafDisputes'[c] =
          IF c = b THEN batchOpenLeafDisputes[c] + 1 ELSE batchOpenLeafDisputes[c]
      BY <1>1 DEF TypeOK, ExposureTypes
<1>5. PICK s, old : s = "Disputed" /\ old = batchLeafState[b][l] OBVIOUS
<1>6. s \in LeafState /\ old # s /\ old # "Revoked" BY <1>1, <1>5 DEF LeafState
<1>7. BatchFollows(b, old, s) BY <1>1, <1>4, <1>5 DEF BatchFollows
<1>8. batchLeafState' = [batchLeafState EXCEPT ![b][l] = s] BY <1>1, <1>5
<1>9. batches[b].state # "Confirmed" BY <1>1
<1>10. QED BY <1>1, <1>2, <1>3, <1>5, <1>6, <1>7, <1>8, <1>9, LeafChange

\* A record's verdict touches no leaf, and a leaf's verdict takes it out of
\* dispute.
LEMMA LeafClosed ==
  ASSUME TypeOK, LeafInvariant, NEW t \in Target, Posted(t),
         TargetState(t) = "Disputed",
         CloseDispute(t), RevokeTarget(t) \/ UpholdTarget(t)
  PROVE  LeafInvariant'
<1>1. SamePosted BY VerdictSamePosted DEF TypeOK
<1>2. CASE t[1] = 0
  <2>1. UNCHANGED <<batches, batchLeafState, batchOpenLeafDisputes>>
        BY <1>2 DEF RevokeTarget, UpholdTarget, CloseDispute
  <2>2. QED BY <2>1, LeavesKept
<1>3. CASE t[1] # 0
  <2>1. PICK b \in 1 .. MaxBatches, l \in 1 .. MaxLeaves : b = t[2] /\ l = t[3]
        BY <1>3, TargetCases
  <2>2. /\ b \in DOMAIN batches /\ l \in DOMAIN batches[b].merkleRoot
        /\ batchLeafState[b][l] = "Disputed"
        BY <1>3, <2>1 DEF Posted, TargetState
  <2>3. batches[b].state # "Confirmed" BY <2>2 DEF LeafInvariant, BatchAudit
  <2>4. batches[b] \in Batch BY <2>2 DEF TypeOK, TargetTypes
  <2>5. PICK s : /\ s \in {"Revoked", "Upheld"}
                 /\ batchLeafState' = [batchLeafState EXCEPT ![b][l] = s]
                 /\ s = "Upheld" => UNCHANGED batches
                 /\ s = "Revoked" =>
                      batches' = [batches EXCEPT ![b].revokedLeafCount = @ + 1]
        BY <1>3, <2>1, <2>2 DEF RevokeTarget, UpholdTarget
  <2>6. /\ batchOpenLeafDisputes' = [batchOpenLeafDisputes EXCEPT ![b] = @ - 1]
        BY <1>3, <2>1 DEF CloseDispute
  <2>7. \A c \in DOMAIN batches :
          /\ batches'[c].state = batches[c].state
          /\ batches'[c].revokedLeafCount =
               IF c = b /\ s = "Revoked" THEN batches[c].revokedLeafCount + 1
               ELSE batches[c].revokedLeafCount
    <3> DEFINE x == [batches[b] EXCEPT !.revokedLeafCount = @ + 1]
    <3>1. /\ x.state = batches[b].state
          /\ x.revokedLeafCount = batches[b].revokedLeafCount + 1
          BY <2>4 DEF Batch
    <3>2. s = "Revoked" => batches' = [batches EXCEPT ![b] = x] BY <2>5
    <3> HIDE DEF x
    <3>3. QED BY <2>2, <2>5, <3>1, <3>2
  <2>8. \A c \in 1 .. MaxBatches :
          batchOpenLeafDisputes'[c] =
            IF c = b THEN batchOpenLeafDisputes[c] - 1 ELSE batchOpenLeafDisputes[c]
        BY <2>6 DEF TypeOK, ExposureTypes
  <2>9. PICK old : old = batchLeafState[b][l] OBVIOUS
  <2>10. s \in LeafState /\ old # s /\ old # "Revoked" /\ s # "Disputed"
         BY <2>2, <2>5, <2>9 DEF LeafState
  <2>11. BatchFollows(b, old, s) BY <2>2, <2>7, <2>8, <2>9, <2>10 DEF BatchFollows
  <2>12. batchLeafState' = [batchLeafState EXCEPT ![b][l] = s] BY <2>5
  <2>13. QED BY <1>1, <2>2, <2>3, <2>9, <2>10, <2>11, <2>12, LeafChange
<1>4. QED BY <1>2, <1>3

\* The remaining steps change no leaf; a batch is confirmed only when no leaf of
\* it is under dispute.
LEMMA NextLeaves ==
  ASSUME TypeOK, LeafInvariant, OpenMeansDisputed, [Next]_vars
  PROVE  LeafInvariant'
<1>0. ASSUME UNCHANGED <<batches, batchLeafState, batchOpenLeafDisputes>>
      PROVE  LeafInvariant'
      BY <1>0, LeavesKept
<1>1. ASSUME NEW a \in Address, NEW value \in Nat, Housekeeping(a, value)
      PROVE  LeafInvariant'
  <2>1. UNCHANGED <<batches, batchLeafState, batchOpenLeafDisputes>>
        BY <1>1
        DEF Housekeeping, stakeRelay, announceUnstake, unstakeRelay, stakeVerifier,
            announceVerifierUnstake, unstakeVerifier, deregisterVerifier,
            registryCall, withdraw, targetVars, counterVars
  <2>2. QED BY <1>0, <2>1
<1>2. ASSUME NEW a, NEW x, NEW y, NEW z, submitAccountable(a, x, y, z)
      PROVE  LeafInvariant'
  <2>1. UNCHANGED <<batches, batchLeafState, batchOpenLeafDisputes>>
        BY <1>2 DEF submitAccountable, counterVars
  <2>2. QED BY <1>0, <2>1
<1>3. ASSUME NEW a \in Address, NEW k \in 0 .. MaxLeaves,
             NEW didHashes \in [1 .. k -> DID], NEW dataHashes \in [1 .. k -> Payload],
             NEW length \in Nat, submitBatch(a, didHashes, dataHashes, length)
      PROVE  LeafInvariant'
  <2>1. PICK n, x : n = Len(batches) /\ x = batches'[n + 1] OBVIOUS
  <2>2. /\ n \in Nat /\ n + 1 <= MaxBatches
        /\ DOMAIN batches = 1 .. n /\ DOMAIN batches' = 1 .. n + 1
        /\ \A b \in 1 .. n : batches'[b] = batches[b]
        /\ x.revokedLeafCount = 0 /\ x.state = "Provisional"
        BY <1>3, <2>1, BatchAppends, SMTT(40)
  <2>3. UNCHANGED <<batchLeafState, batchOpenLeafDisputes>>
        BY <1>3 DEF submitBatch, counterVars
  <2>4. /\ \A b \in DOMAIN batches :
             /\ b \in DOMAIN batches'
             /\ batches'[b].merkleRoot = batches[b].merkleRoot
        /\ \A b \in DOMAIN batches' :
             \/ /\ b \in DOMAIN batches
                /\ batches'[b].revokedLeafCount = batches[b].revokedLeafCount
                /\ batches'[b].state = batches[b].state
             \/ /\ b \in 1 .. MaxBatches /\ b \notin DOMAIN batches
                /\ batches'[b].revokedLeafCount = 0
                /\ batches'[b].state # "Confirmed"
    <3>1. \A b \in 1 .. n + 1 : b \in 1 .. n \/ (b = n + 1 /\ b \notin 1 .. n)
          BY <2>2
    <3>2. n + 1 \in 1 .. MaxBatches BY <2>2, InputAssumption
    <3>3. QED BY <2>1, <2>2, <3>1, <3>2
  <2>5. QED BY <2>3, <2>4, LeavesKept
<1>4. ASSUME NEW i, finalizeRecord(i) PROVE LeafInvariant'
  <2>1. UNCHANGED <<batches, batchLeafState, batchOpenLeafDisputes>>
        BY <1>4 DEF finalizeRecord, counterVars
  <2>2. QED BY <1>0, <2>1
<1>5. ASSUME NEW b \in 1 .. MaxBatches, finalizeBatch(b) PROVE LeafInvariant'
  <2>1. /\ b \in DOMAIN batches /\ batchOpenLeafDisputes[b] = 0
        /\ batches' = [batches EXCEPT ![b].state = "Confirmed"]
        /\ UNCHANGED <<records, batchLeafState, batchOpenLeafDisputes>>
        BY <1>5 DEF finalizeBatch, NoOpenLeafDispute, counterVars
  <2>2. batches[b] \in Batch BY <2>1 DEF TypeOK, TargetTypes
  <2> DEFINE x == [batches[b] EXCEPT !.state = "Confirmed"]
  <2>3. /\ x.merkleRoot = batches[b].merkleRoot
        /\ x.revokedLeafCount = batches[b].revokedLeafCount
        BY <2>2 DEF Batch
  <2>4. batches' = [batches EXCEPT ![b] = x] BY <2>1
  <2> HIDE DEF x
  <2>5. /\ DOMAIN batches' = DOMAIN batches
        /\ \A c \in DOMAIN batches : batches'[c] = IF c = b THEN x ELSE batches[c]
        BY <2>1, <2>4
  <2>6. /\ \A c \in DOMAIN batches :
             /\ c \in DOMAIN batches'
             /\ batches'[c].merkleRoot = batches[c].merkleRoot
        /\ \A c \in DOMAIN batches' :
             /\ c \in DOMAIN batches
             /\ batches'[c].revokedLeafCount = batches[c].revokedLeafCount
             /\ \/ batches'[c].state = batches[c].state
                \/ batchOpenLeafDisputes[c] = 0
        BY <2>1, <2>3, <2>5
  <2>7. QED BY <2>1, <2>6, LeavesKept
<1>6. ASSUME NEW a, NEW i, NEW bond, openDispute(a, i, bond) PROVE LeafInvariant'
  <2>1. UNCHANGED <<batches, batchLeafState, batchOpenLeafDisputes>>
        BY <1>6 DEF openDispute
  <2>2. QED BY <1>0, <2>1
<1>7. ASSUME NEW i \in DOMAIN disputes
      PROVE  disputes[i] \in Dispute /\ disputes[i].target \in Target
             /\ Posted(disputes[i].target)
  <2>1. disputes[i] \in Dispute BY DEF TypeOK, DisputeTypes
  <2>2. QED BY <2>1 DEF TypeOK, DisputeTypes, Dispute
<1>8. ASSUME NEW i \in DOMAIN disputes, expireDispute(i) PROVE LeafInvariant'
  <2>1. /\ RevokeTarget(disputes[i].target) /\ CloseDispute(disputes[i].target)
        /\ i \in OpenDisputes
        BY <1>8 DEF expireDispute, OpenDisputes
  <2>2. TargetState(disputes[i].target) = "Disputed" BY <2>1 DEF OpenMeansDisputed
  <2>3. QED BY <1>7, <2>1, <2>2, LeafClosed
<1>9. ASSUME NEW i \in DOMAIN disputes, NEW v \in Address, NEW f \in BOOLEAN,
             submitAttestation(i, v, f)
      PROVE  LeafInvariant'
  <2> DEFINE d == Voted(disputes[i], v, f)
  <2>1. d.target = disputes[i].target BY <1>7, VotedType
  <2>2. /\ i \in OpenDisputes
        /\ \/ RevokeTarget(d.target) /\ CloseDispute(d.target)
           \/ UpholdTarget(d.target) /\ CloseDispute(d.target)
           \/ UNCHANGED <<targetVars, counterVars>>
        BY <1>9 DEF submitAttestation, ResolveFraud, ResolveSpurious, OpenDisputes
  <2> HIDE DEF d
  <2>3. TargetState(disputes[i].target) = "Disputed" BY <2>2 DEF OpenMeansDisputed
  <2>4. CASE UNCHANGED <<targetVars, counterVars>>
        BY <1>0, <2>4 DEF targetVars, counterVars
  <2>5. QED BY <1>7, <2>1, <2>2, <2>3, <2>4, LeafClosed
<1>10. CASE withdrawReturns \/ Tick \/ UNCHANGED vars
       BY <1>0, <1>10 DEF withdrawReturns, Tick, targetVars, counterVars, vars
<1>11. QED
       BY <1>1, <1>2, <1>3, <1>4, <1>5, <1>6, <1>8, <1>9, <1>10, LeafOpened, StepKinds

-----------------------------------------------------------------------------
(* The shapes of the steps.                                                *)

\* Nothing happens to a target or to a dispute.
Idles ==
  /\ UNCHANGED <<targetVars, disputes, counterVars, exposureVars>>
  /\ now' >= now

\* Relay a posts target t now.
PostedBy(a, t) == TargetRelay(t)' = a /\ SubmittedAt(t)' = now

\* Targets are posted.
Submits ==
  /\ \A t \in Target :
       Posted(t) => KeepsTarget(t) /\ SubmittedAt(t)' = SubmittedAt(t)
  /\ \E a \in Address : \A t \in Target :
       ~Posted(t) /\ Posted(t)' => PostedBy(a, t)
  /\ \A t \in Target :
       ~Posted(t) /\ Posted(t)' =>
         TargetState(t)' \notin {"Disputed", "Revoked"} /\ ~Settled(t)'
  /\ \A i \in DOMAIN records' :
       \/ i \in DOMAIN records /\ records'[i] = records[i]
       \/ i \notin DOMAIN records /\ records'[i].state = "Provisional"
  /\ DOMAIN records \subseteq DOMAIN records'
  /\ UNCHANGED <<now, disputes, counterVars, exposureVars>>

\* A record has survived its window.
Confirms(i) ==
  LET t == RecordTarget(i) IN
  /\ i \in DOMAIN records /\ t \in Target
  /\ TargetState(t) = "Provisional" /\ TargetState(t)' = "Confirmed"
  /\ now >= records[i].submittedAt + challengePeriod
  /\ SamePosted
  /\ \A u \in Target : u # t => KeepsTarget(u)
  /\ ReleaseExposures(t)
  /\ UNCHANGED <<now, disputes, counterVars, targetValidHas, exposedLeaves>>

\* All the leaves of a batch are settled, none of them under dispute.
ConfirmsBatch(b) ==
  /\ b \in DOMAIN batches /\ finalizeBatch(b)
  /\ SamePosted
  /\ \A t \in Target :
       Posted(t) =>
         /\ TargetState(t)' = TargetState(t)
         /\ Settled(t)' <=> (Settled(t) \/ (t[1] # 0 /\ t[2] = b))
         /\ t[1] # 0 /\ t[2] = b => TargetState(t) # "Disputed"
  /\ UNCHANGED <<now, records, disputes, counterVars, targetValidHas>>

\* Dispute i, which is open, becomes d; no other dispute or target changes.
Rules(i, d) ==
  LET t == disputes[i].target IN
  /\ i \in OpenDisputes
  /\ d \in Dispute /\ d.target = t /\ d.deadline = disputes[i].deadline
  /\ disputes' = [disputes EXCEPT ![i] = d]
  /\ SamePosted
  /\ \A u \in Target : u # t => KeepsTarget(u)
  /\ UNCHANGED now

\* One more vote was cast, by somebody who may cast it.
Ballot(i, d) ==
  LET old == disputes[i] IN
  \E v \in Address :
    /\ v # TargetRelay(old.target)
    /\ v \notin old.fraudAttesters \cup old.validAttesters
    /\ now <= old.deadline
    /\ \/ /\ d.fraudAttesters = old.fraudAttesters \cup {v}
          /\ d.validAttesters = old.validAttesters
       \/ /\ d.fraudAttesters = old.fraudAttesters
          /\ d.validAttesters = old.validAttesters \cup {v}

\* It decides nothing.
Counts(i, d) ==
  /\ Rules(i, d) /\ Ballot(i, d)
  /\ ~d.resolved /\ ~FraudQuorum(d) /\ ~ValidQuorum(d)
  /\ KeepsTarget(d.target)
  /\ UNCHANGED <<counterVars, exposureVars>>

\* It is the one that proves fraud.
Convicts(i, d) ==
  /\ Rules(i, d) /\ Ballot(i, d)
  /\ d.resolved /\ FraudQuorum(d)
  /\ TargetState(d.target)' = "Revoked" /\ Settled(d.target)'
  /\ CloseDispute(d.target)
  /\ targetValidHas' =
       [targetValidHas EXCEPT ![d.target] = @ \cup d.validAttesters]
  /\ targetValidList' = [targetValidList EXCEPT ![d.target] = {}]
  /\ exposedLeaves' = RememberExposedLeaf(d.target)
  /\ verifierLiveExposures' =
       Released(Exposed(verifierLiveExposures,
                        NewlyExposed(d.target, d.validAttesters)),
                WrongSide(d))

\* It is the one that clears the target.
Acquits(i, d) ==
  LET new == NewlyExposed(d.target, d.validAttesters) IN
  /\ Rules(i, d) /\ Ballot(i, d)
  /\ d.resolved /\ ~FraudQuorum(d) /\ ValidQuorum(d)
  /\ TargetState(d.target)' \notin {"Disputed", "Revoked", "Confirmed"}
  /\ ~Settled(d.target)'
  /\ CloseDispute(d.target)
  /\ targetValidHas' = [targetValidHas EXCEPT ![d.target] = @ \cup new]
  /\ targetValidList' = [targetValidList EXCEPT ![d.target] = @ \cup new]
  /\ exposedLeaves' = RememberExposedLeaf(d.target)
  /\ verifierLiveExposures' = Exposed(verifierLiveExposures, new)

\* Its deadline has passed without a decision.
Lapses(i, d) ==
  /\ Rules(i, d)
  /\ d.fraudAttesters = disputes[i].fraudAttesters
  /\ d.validAttesters = disputes[i].validAttesters
  /\ d.resolved /\ now > d.deadline
  /\ TargetState(d.target)' = "Revoked" /\ Settled(d.target)'
  /\ CloseDispute(d.target)
  /\ ReleaseExposures(d.target)
  /\ UNCHANGED <<targetValidHas, exposedLeaves>>

\* An open dispute is about an undecided target.
LEMMA OpenUnsettled ==
  ASSUME TypeOK, OpenMeansDisputed, BatchAudit, NEW i \in OpenDisputes
  PROVE  /\ i \in DOMAIN disputes /\ disputes[i] \in Dispute
         /\ disputes[i].target \in Target /\ Posted(disputes[i].target)
         /\ TargetState(disputes[i].target) = "Disputed"
         /\ ~Settled(disputes[i].target)
<1>1. i \in DOMAIN disputes BY DEF OpenDisputes
<1>2. disputes[i] \in Dispute BY <1>1 DEF TypeOK, DisputeTypes
<1> DEFINE t == disputes[i].target
<1>3. t \in Target /\ Posted(t)
      BY <1>1, <1>2 DEF TypeOK, DisputeTypes, Dispute
<1>4. TargetState(t) = "Disputed" BY DEF OpenMeansDisputed
<1> HIDE DEF t
<1>5. ~Settled(t)
  <2>1. CASE t[1] = 0 BY <1>4, <2>1 DEF Settled
  <2>2. CASE t[1] # 0
    <3>1. t[2] \in DOMAIN batches /\ t[3] \in 1 .. MaxLeaves
          BY <1>3, <2>2, TargetCases DEF Posted
    <3>2. batchLeafState[t[2]][t[3]] = "Disputed" BY <1>4, <2>2 DEF TargetState
    <3>3. batches[t[2]].state # "Confirmed" BY <3>1, <3>2 DEF BatchAudit
    <3>4. QED BY <1>4, <2>2, <3>3 DEF Settled
  <2>3. QED BY <2>1, <2>2
<1>6. QED BY <1>1, <1>2, <1>3, <1>4, <1>5 DEF t

\* A record is submitted.
LEMMA SubmitShape ==
  ASSUME TypeOK, NEW a \in Address, NEW dataHash \in Payload, NEW did \in DID,
         NEW sig \in SigLength, submitAccountable(a, dataHash, did, sig)
  PROVE  Submits
<1>1. PICK n, r : n = Len(records) /\ r = records'[n + 1] OBVIOUS
<1>2. /\ n \in Nat /\ DOMAIN records = 1 .. n /\ DOMAIN records' = 1 .. n + 1
      /\ \A i \in 1 .. n : records'[i] = records[i]
      /\ r.state = "Provisional" /\ r.relay = a /\ r.submittedAt = now
      /\ UNCHANGED batches
      BY <1>1, SubmitAppends
<1>3. UNCHANGED <<now, batchLeafState, disputes, counterVars, exposureVars>>
      BY DEF submitAccountable, chainVars
<1>4. \A i \in 1 .. n + 1 : i \in 1 .. n \/ (i = n + 1 /\ i \notin 1 .. n) BY <1>2
<1>5. ASSUME NEW t \in Target, Posted(t)
      PROVE  KeepsTarget(t) /\ SubmittedAt(t)' = SubmittedAt(t)
  <2>1. t[1] = 0 => t[2] \in 1 .. n BY <1>2, <1>5 DEF Posted
  <2>2. t[1] = 0 => t[2] \in DOMAIN records' /\ records'[t[2]] = records[t[2]]
        BY <1>2, <1>4, <2>1
  <2>3. Posted(t)' BY <1>2, <1>5, <2>2 DEF Posted
  <2>4. /\ TargetRelay(t)' = TargetRelay(t)
        /\ TargetState(t)' = TargetState(t)
        BY <1>2, <1>3, <2>2 DEF TargetRelay, TargetState
  <2>5. Settled(t)' <=> Settled(t) BY <1>2, <1>3, <2>2, <2>4 DEF Settled
  <2>6. SubmittedAt(t)' = SubmittedAt(t) BY <1>2, <2>2 DEF SubmittedAt
  <2>7. QED BY <1>5, <2>3, <2>4, <2>5, <2>6 DEF KeepsTarget
<1>6. ASSUME NEW t \in Target, ~Posted(t), Posted(t)'
      PROVE  /\ TargetState(t)' \notin {"Disputed", "Revoked"} /\ ~Settled(t)'
             /\ PostedBy(a, t)
  <2>1. t[1] = 0 /\ t[2] = n + 1 BY <1>2, <1>4, <1>6 DEF Posted
  <2>2. TargetState(t)' = "Provisional" BY <1>1, <1>2, <2>1 DEF TargetState
  <2>3. PostedBy(a, t) BY <1>1, <1>2, <2>1 DEF PostedBy, TargetRelay, SubmittedAt
  <2>4. QED BY <2>1, <2>2, <2>3 DEF Settled
<1>7. /\ \A i \in DOMAIN records' :
           \/ i \in DOMAIN records /\ records'[i] = records[i]
           \/ i \notin DOMAIN records /\ records'[i].state = "Provisional"
      /\ DOMAIN records \subseteq DOMAIN records'
      BY <1>1, <1>2, <1>4
<1>8. QED BY <1>3, <1>5, <1>6, <1>7 DEF Submits

\* A batch is submitted.
LEMMA SubmitBatchShape ==
  ASSUME TypeOK, LeavesUntouched, NEW a \in Address, NEW k \in 0 .. MaxLeaves,
         NEW didHashes \in [1 .. k -> DID], NEW dataHashes \in [1 .. k -> Payload],
         NEW length, submitBatch(a, didHashes, dataHashes, length)
  PROVE  Submits
<1>1. PICK n, x : n = Len(batches) /\ x = batches'[n + 1] OBVIOUS
<1>2. /\ n \in Nat
      /\ DOMAIN batches = 1 .. n /\ DOMAIN batches' = 1 .. n + 1
      /\ \A b \in 1 .. n : batches'[b] = batches[b]
      /\ x.state = "Provisional" /\ x.relay = a /\ x.submittedAt = now
      /\ UNCHANGED records
      BY <1>1, BatchAppends, SMTT(40)
<1>3. UNCHANGED <<now, batchLeafState, disputes, counterVars, exposureVars>>
      BY DEF submitBatch, chainVars
<1>4. \A i \in 1 .. n + 1 : i \in 1 .. n \/ (i = n + 1 /\ i \notin 1 .. n) BY <1>2
<1>5. ASSUME NEW t \in Target, Posted(t)
      PROVE  KeepsTarget(t) /\ SubmittedAt(t)' = SubmittedAt(t)
  <2>1. t[1] # 0 => t[2] \in 1 .. n BY <1>2, <1>5 DEF Posted
  <2>2. t[1] # 0 => t[2] \in DOMAIN batches' /\ batches'[t[2]] = batches[t[2]]
        BY <1>2, <1>4, <2>1
  <2>3. Posted(t)' BY <1>2, <1>5, <2>2 DEF Posted
  <2>4. /\ TargetRelay(t)' = TargetRelay(t)
        /\ TargetState(t)' = TargetState(t)
        BY <1>2, <1>3, <2>2 DEF TargetRelay, TargetState
  <2>5. Settled(t)' <=> Settled(t) BY <1>2, <1>3, <2>2, <2>4 DEF Settled
  <2>6. SubmittedAt(t)' = SubmittedAt(t) BY <1>2, <2>2 DEF SubmittedAt
  <2>7. QED BY <1>5, <2>3, <2>4, <2>5, <2>6 DEF KeepsTarget
<1>6. ASSUME NEW t \in Target, ~Posted(t), Posted(t)'
      PROVE  /\ TargetState(t)' \notin {"Disputed", "Revoked"} /\ ~Settled(t)'
             /\ PostedBy(a, t)
  <2>1. t[1] # 0 BY <1>2, <1>6 DEF Posted
  <2>2. t[2] = n + 1 BY <1>2, <1>4, <1>6, <2>1 DEF Posted
  <2>3. batchLeafState[t[2]][t[3]] = "Undisputed"
        BY <1>6, <2>1, TargetCases DEF LeavesUntouched
  <2>4. TargetState(t)' = "Undisputed" BY <1>3, <2>1, <2>3 DEF TargetState
  <2>5. batches'[t[2]].state = "Provisional" BY <1>1, <1>2, <2>2
  <2>6. PostedBy(a, t)
        BY <1>1, <1>2, <2>1, <2>2 DEF PostedBy, TargetRelay, SubmittedAt
  <2>7. QED BY <2>1, <2>4, <2>5, <2>6 DEF Settled
<1>7. /\ \A i \in DOMAIN records' : i \in DOMAIN records /\ records'[i] = records[i]
      /\ DOMAIN records \subseteq DOMAIN records'
      BY <1>2
<1>8. QED BY <1>3, <1>5, <1>6, <1>7 DEF Submits

\* A record is confirmed.
LEMMA ConfirmShape ==
  ASSUME TypeOK, NEW i \in 1 .. MaxRecords, finalizeRecord(i)
  PROVE  Confirms(i)
<1> DEFINE t == RecordTarget(i)
<1>1. t \in Target /\ t[1] = 0 /\ t[2] = i BY TargetCases DEF RecordTarget
<1>2. /\ i \in DOMAIN records /\ records[i].state = "Provisional"
      /\ records' = [records EXCEPT ![i].state = "Confirmed"]
      /\ now >= records[i].submittedAt + challengePeriod
      /\ UNCHANGED <<now, batches, batchLeafState, disputes, counterVars,
                     targetValidHas, exposedLeaves>>
      /\ ReleaseExposures(t)
      BY DEF finalizeRecord, WindowClosed, chainVars
<1>3. /\ SamePosted /\ records'[i].state = "Confirmed"
      /\ \A u \in Target : u # t => KeepsTarget(u)
      BY <1>2, RecordStateChange
<1> HIDE DEF t
<1>4. TargetState(t) = "Provisional" /\ TargetState(t)' = "Confirmed"
      BY <1>1, <1>2, <1>3 DEF TargetState
<1>5. QED BY <1>1, <1>2, <1>3, <1>4 DEF Confirms, t

\* A batch is confirmed.
LEMMA ConfirmBatchShape ==
  ASSUME TypeOK, LeafInvariant, NEW b \in 1 .. MaxBatches, finalizeBatch(b)
  PROVE  ConfirmsBatch(b)
<1>1. /\ b \in DOMAIN batches /\ batches[b].state = "Provisional"
      /\ batchOpenLeafDisputes[b] = 0
      /\ batches' = [batches EXCEPT ![b].state = "Confirmed"]
      /\ UNCHANGED <<now, records, batchLeafState, disputes, counterVars,
                     targetValidHas>>
      BY DEF finalizeBatch, NoOpenLeafDispute, chainVars
<1>2. SamePosted BY <1>1, SamePostedCases DEF TypeOK
<1>3. batches[b] \in Batch BY <1>1 DEF TypeOK, TargetTypes
<1>4. /\ batches'[b].state = "Confirmed"
      /\ \A c \in DOMAIN batches : c # b => batches'[c] = batches[c]
  <2> DEFINE x == [batches[b] EXCEPT !.state = "Confirmed"]
  <2>1. x.state = "Confirmed" BY <1>3 DEF Batch
  <2>2. batches' = [batches EXCEPT ![b] = x] BY <1>1
  <2> HIDE DEF x
  <2>3. QED BY <1>1, <2>1, <2>2
<1>5. \A l \in 1 .. MaxLeaves : batchLeafState[b][l] # "Disputed"
  <2>1. LeavesIn(batchLeafState, b, "Disputed") = {}
    <3>1. Cardinality(LeavesIn(batchLeafState, b, "Disputed")) = 0
          BY <1>1 DEF LeafInvariant, LeafCounters
    <3>2. IsFiniteSet(LeavesIn(batchLeafState, b, "Disputed"))
      <4>1. IsFiniteSet(1 .. MaxLeaves) BY InputAssumption, FS_Interval
      <4>2. LeavesIn(batchLeafState, b, "Disputed") \subseteq 1 .. MaxLeaves
            BY DEF LeavesIn
      <4>3. QED BY <4>1, <4>2, FS_Subset
    <3>3. QED BY <3>1, <3>2, FS_EmptySet
  <2>2. QED BY <2>1 DEF LeavesIn
<1>6. ASSUME NEW t \in Target, Posted(t)
      PROVE  /\ TargetState(t)' = TargetState(t)
             /\ Settled(t)' <=> (Settled(t) \/ (t[1] # 0 /\ t[2] = b))
             /\ t[1] # 0 /\ t[2] = b => TargetState(t) # "Disputed"
  <2>1. TargetState(t)' = TargetState(t) BY <1>1 DEF TargetState
  <2>2. t[1] # 0 => t[2] \in DOMAIN batches /\ t[3] \in 1 .. MaxLeaves
        BY <1>6, TargetCases DEF Posted
  <2>3. t[1] # 0 /\ t[2] = b => TargetState(t) # "Disputed"
        BY <1>5, <2>2 DEF TargetState
  <2>4. Settled(t)' <=> (Settled(t) \/ (t[1] # 0 /\ t[2] = b))
        BY <1>4, <2>1, <2>2 DEF Settled
  <2>5. QED BY <2>1, <2>3, <2>4
<1>7. QED BY <1>1, <1>2, <1>6 DEF ConfirmsBatch

\* An upheld target is no confirmed record.
LEMMA UpheldState ==
  ASSUME TypeOK, NEW t \in Target, Posted(t), UpholdTarget(t)
  PROVE  TargetState(t)' # "Confirmed"
<1> DEFINE n == t[2]
           l == t[3]
<1>1. CASE t[1] = 0
  <2>1. n \in DOMAIN records BY <1>1 DEF Posted
  <2>2. records[n] \in Record BY <2>1 DEF TypeOK, TargetTypes
  <2>3. records'[n] = [records[n] EXCEPT !.state = "Provisional"]
        BY <1>1, <2>1 DEF UpholdTarget
  <2>4. records'[n].state = "Provisional" BY <2>2, <2>3 DEF Record
  <2>5. QED BY <1>1, <2>4 DEF TargetState
<1>2. CASE t[1] # 0
  <2>1. n \in 1 .. MaxBatches /\ l \in 1 .. MaxLeaves BY <1>2, TargetCases
  <2>2. batchLeafState' = [batchLeafState EXCEPT ![n][l] = "Upheld"]
        BY <1>2 DEF UpholdTarget
  <2> HIDE DEF n, l
  <2>3. batchLeafState'[n][l] = "Upheld" BY <2>1, <2>2 DEF TypeOK, TargetTypes
  <2>4. QED BY <1>2, <2>3 DEF TargetState, n, l
<1>3. QED BY <1>1, <1>2

\* A vote counts, convicts or acquits.
LEMMA AttestationShape ==
  ASSUME TypeOK, OpenMeansDisputed, BatchAudit, NEW i \in DOMAIN disputes,
         NEW v \in Address, NEW f \in BOOLEAN, submitAttestation(i, v, f)
  PROVE  \E d \in Dispute : Counts(i, d) \/ Convicts(i, d) \/ Acquits(i, d)
<1>1. PICK old, t : old = disputes[i] /\ t = disputes[i].target OBVIOUS
<1>2. i \in OpenDisputes BY DEF submitAttestation, OpenDisputes
<1>3. /\ old \in Dispute /\ t \in Target /\ Posted(t) /\ ~Settled(t)
      /\ TargetState(t) = "Disputed"
      BY <1>1, <1>2, OpenUnsettled
<1>4. PICK e : e = Voted(old, v, f) OBVIOUS
<1>5. /\ e \in Dispute /\ e.target = t /\ e.deadline = old.deadline
      /\ ~e.resolved
      /\ \/ /\ e.fraudAttesters = old.fraudAttesters \cup {v}
            /\ e.validAttesters = old.validAttesters
         \/ /\ e.fraudAttesters = old.fraudAttesters
            /\ e.validAttesters = old.validAttesters \cup {v}
  <2>1. ~old.resolved BY <1>1, <1>2 DEF OpenDisputes
  <2>2. QED BY <1>1, <1>3, <1>4, <2>1 DEF Voted, Dispute
<1>6. PICK d : d = [e EXCEPT !.resolved = TRUE] OBVIOUS
<1>7. /\ d \in Dispute /\ d.target = t /\ d.deadline = old.deadline /\ d.resolved
      /\ d.fraudAttesters = e.fraudAttesters /\ d.validAttesters = e.validAttesters
      BY <1>5, <1>6 DEF Dispute
<1>8. /\ v # TargetRelay(t) /\ v \notin old.fraudAttesters \cup old.validAttesters
      /\ now <= old.deadline /\ UNCHANGED now
      BY <1>1 DEF submitAttestation, MayAttest, chainVars
<1>9. Ballot(i, e) /\ Ballot(i, d) BY <1>1, <1>5, <1>7, <1>8 DEF Ballot
<1>10. \/ FraudQuorum(e) /\ ResolveFraud(i, e)
       \/ ~FraudQuorum(e) /\ ValidQuorum(e) /\ ResolveSpurious(i, e)
       \/ /\ ~FraudQuorum(e) /\ ~ValidQuorum(e)
          /\ disputes' = [disputes EXCEPT ![i] = e]
          /\ UNCHANGED <<targetVars, counterVars, exposureVars>>
       BY <1>1, <1>4 DEF submitAttestation
<1>11. CASE FraudQuorum(e) /\ ResolveFraud(i, e)
  <2>1. /\ disputes' = [disputes EXCEPT ![i] = d]
        /\ RevokeTarget(t) /\ CloseDispute(t)
        /\ targetValidHas' = [targetValidHas EXCEPT ![t] = @ \cup e.validAttesters]
        /\ targetValidList' = [targetValidList EXCEPT ![t] = {}]
        /\ exposedLeaves' = RememberExposedLeaf(t)
        /\ verifierLiveExposures' =
             Released(Exposed(verifierLiveExposures,
                              NewlyExposed(t, e.validAttesters)),
                      WrongSide(e))
        BY <1>5, <1>6, <1>11 DEF ResolveFraud
  <2>2. /\ SamePosted /\ \A u \in Target : u # t => KeepsTarget(u)
        /\ TargetState(t)' = "Revoked" /\ Settled(t)'
        BY <1>3, <2>1, VerdictShape
  <2>3. Rules(i, d) BY <1>1, <1>2, <1>7, <1>8, <2>1, <2>2 DEF Rules
  <2>4. FraudQuorum(d) BY <1>7, <1>11 DEF FraudQuorum
  <2>5. WrongSide(e) = WrongSide(d) BY <1>5, <1>7 DEF WrongSide
  <2>6. Convicts(i, d) BY <1>7, <1>9, <2>1, <2>2, <2>3, <2>4, <2>5 DEF Convicts
  <2>7. QED BY <1>7, <2>6
<1>12. CASE ~FraudQuorum(e) /\ ValidQuorum(e) /\ ResolveSpurious(i, e)
  <2>1. /\ disputes' = [disputes EXCEPT ![i] = d]
        /\ UpholdTarget(t) /\ CloseDispute(t)
        /\ targetValidHas' =
             [targetValidHas EXCEPT ![t] = @ \cup NewlyExposed(t, e.validAttesters)]
        /\ targetValidList' =
             [targetValidList EXCEPT ![t] = @ \cup NewlyExposed(t, e.validAttesters)]
        /\ exposedLeaves' = RememberExposedLeaf(t)
        /\ verifierLiveExposures' =
             Exposed(verifierLiveExposures, NewlyExposed(t, e.validAttesters))
        BY <1>5, <1>6, <1>12 DEF ResolveSpurious
  <2>2. /\ SamePosted /\ \A u \in Target : u # t => KeepsTarget(u)
        /\ TargetState(t)' \notin {"Disputed", "Revoked"} /\ ~Settled(t)'
        BY <1>3, <2>1, VerdictShape
  <2>3. TargetState(t)' # "Confirmed" BY <1>3, <2>1, UpheldState
  <2>4. Rules(i, d) BY <1>1, <1>2, <1>7, <1>8, <2>1, <2>2 DEF Rules
  <2>5. ~FraudQuorum(d) /\ ValidQuorum(d)
        BY <1>7, <1>12 DEF FraudQuorum, ValidQuorum
  <2>6. Acquits(i, d) BY <1>7, <1>9, <2>1, <2>2, <2>3, <2>4, <2>5 DEF Acquits
  <2>7. QED BY <1>7, <2>6
<1>13. CASE /\ ~FraudQuorum(e) /\ ~ValidQuorum(e)
            /\ disputes' = [disputes EXCEPT ![i] = e]
            /\ UNCHANGED <<targetVars, counterVars, exposureVars>>
  <2>1. SamePosted BY <1>13, SamePostedCases DEF targetVars, TypeOK
  <2>2. \A u \in Target : KeepsTarget(u) BY <1>13, <2>1, TargetKept DEF targetVars
  <2>3. Rules(i, e) BY <1>1, <1>2, <1>5, <1>8, <1>13, <2>1, <2>2 DEF Rules
  <2>4. Counts(i, e) BY <1>3, <1>5, <1>9, <1>13, <2>2, <2>3 DEF Counts
  <2>5. QED BY <1>5, <2>4
<1>14. QED BY <1>10, <1>11, <1>12, <1>13

\* The deadline convicts.
LEMMA ExpireShape ==
  ASSUME TypeOK, OpenMeansDisputed, BatchAudit, NEW i \in DOMAIN disputes,
         expireDispute(i)
  PROVE  \E d \in Dispute : Lapses(i, d)
<1>1. PICK old, t : old = disputes[i] /\ t = disputes[i].target OBVIOUS
<1>2. i \in OpenDisputes BY DEF expireDispute, OpenDisputes
<1>3. /\ old \in Dispute /\ t \in Target /\ Posted(t) /\ ~Settled(t)
      /\ TargetState(t) = "Disputed"
      BY <1>1, <1>2, OpenUnsettled
<1>4. PICK d : d = [old EXCEPT !.resolved = TRUE] OBVIOUS
<1>5. /\ d \in Dispute /\ d.target = t /\ d.deadline = old.deadline /\ d.resolved
      /\ d.fraudAttesters = old.fraudAttesters /\ d.validAttesters = old.validAttesters
      BY <1>1, <1>3, <1>4 DEF Dispute
<1>6. /\ disputes' = [disputes EXCEPT ![i] = d]
      /\ now > old.deadline
      /\ RevokeTarget(t) /\ CloseDispute(t) /\ ReleaseExposures(t)
      /\ UNCHANGED <<now, targetValidHas, exposedLeaves>>
      BY <1>1, <1>4 DEF expireDispute, Overdue, chainVars
<1>7. /\ SamePosted /\ \A u \in Target : u # t => KeepsTarget(u)
      /\ TargetState(t)' = "Revoked" /\ Settled(t)'
      BY <1>3, <1>6, VerdictShape
<1>8. Rules(i, d) BY <1>1, <1>2, <1>5, <1>6, <1>7 DEF Rules
<1>9. Lapses(i, d) BY <1>1, <1>5, <1>6, <1>7, <1>8 DEF Lapses
<1>10. QED BY <1>5, <1>9

\* Every step has one of these shapes.
LEMMA StepShapes ==
  ASSUME TypeOK, LeafInvariant, OpenMeansDisputed, [Next]_vars
  PROVE  \/ Idles
         \/ Submits
         \/ \E i \in 1 .. MaxRecords : Confirms(i)
         \/ \E b \in 1 .. MaxBatches : ConfirmsBatch(b)
         \/ \E t \in Target, a \in Address, bond \in Nat : Opens(t, a, bond)
         \/ \E i \in DOMAIN disputes, d \in Dispute :
              Counts(i, d) \/ Convicts(i, d) \/ Acquits(i, d) \/ Lapses(i, d)
<1>0. now \in Nat /\ BatchAudit /\ LeavesUntouched
      BY DEF TypeOK, ChainTypes, LeafInvariant
<1>1. ASSUME NEW a \in Address, NEW value \in Nat, Housekeeping(a, value)
      PROVE  Idles
      BY <1>0, <1>1
      DEF Housekeeping, stakeRelay, announceUnstake, unstakeRelay, stakeVerifier,
          announceVerifierUnstake, unstakeVerifier, deregisterVerifier,
          registryCall, withdraw, chainVars, Idles
<1>2. CASE withdrawReturns \/ Tick \/ UNCHANGED vars
      BY <1>0, <1>2 DEF withdrawReturns, Tick, vars, chainVars, Idles
<1>3. ASSUME NEW a \in Address, NEW bond \in Nat, NEW i \in 1 .. MaxRecords,
             openDispute(a, i, bond)
      PROVE  \E t \in Target : Opens(t, a, bond)
      BY <1>3, OpenRecordShape, TargetCases
<1>4. ASSUME NEW a \in Address, NEW bond \in Nat, NEW b \in 1 .. MaxBatches,
             NEW l \in 1 .. MaxLeaves, NEW leaf, openBatchLeafDispute(a, b, l, leaf, bond)
      PROVE  \E t \in Target : Opens(t, a, bond)
      BY <1>4, OpenLeafShape, TargetCases
<1>5. QED
      BY <1>0, <1>1, <1>2, <1>3, <1>4, StepKinds, SubmitShape, SubmitBatchShape,
         ConfirmShape, ConfirmBatchShape, AttestationShape, ExpireShape

-----------------------------------------------------------------------------
(* The disputes and their counters.                                        *)

\* An open dispute is the last one about its target.
OpenIsLast ==
  \A i \in OpenDisputes : \A j \in DisputesAbout(disputes[i].target) : j <= i

\* What is said about the disputes and the state of their targets.
DisputeInvariant ==
  /\ RelayCounters /\ OpenMeansDisputed /\ OneOpenEach /\ DisputedMeansOpen
  /\ OpenIsLast

\* Disputes are about posted targets.
LEMMA AboutPosted ==
  ASSUME TypeOK, NEW i \in DOMAIN disputes
  PROVE  /\ disputes[i] \in Dispute /\ disputes[i].target \in Target
         /\ Posted(disputes[i].target) /\ i \in Nat
         /\ TargetRelay(disputes[i].target) \in Address
<1>1. disputes[i] \in Dispute /\ i \in Nat BY DEF TypeOK, DisputeTypes
<1>2. disputes[i].target \in Target /\ Posted(disputes[i].target)
      BY <1>1 DEF TypeOK, DisputeTypes, Dispute
<1>3. QED BY <1>1, <1>2, TargetRelayType DEF TypeOK

\* A step that opens and closes no dispute keeps that if no target comes under
\* dispute or leaves it.
LEMMA DisputesKept ==
  ASSUME TypeOK, DisputeInvariant,
         DOMAIN disputes' = DOMAIN disputes,
         \A i \in DOMAIN disputes :
           /\ disputes'[i].target = disputes[i].target
           /\ disputes'[i].resolved = disputes[i].resolved,
         UNCHANGED relayActiveDisputes,
         \A t \in Target : Posted(t) =>
           /\ TargetRelay(t)' = TargetRelay(t)
           /\ TargetState(t)' = "Disputed" <=> TargetState(t) = "Disputed",
         \A t \in Target : Posted(t)' /\ ~Posted(t) => TargetState(t)' # "Disputed"
  PROVE  DisputeInvariant'
<1>1. /\ OpenDisputes' = OpenDisputes
      /\ \A u : DisputesAbout(u)' = DisputesAbout(u)
      BY DEF OpenDisputes, DisputesAbout
<1>2. \A i \in OpenDisputes :
        /\ i \in DOMAIN disputes
        /\ disputes'[i].target = disputes[i].target
        /\ disputes[i].target \in Target /\ Posted(disputes[i].target)
      BY AboutPosted DEF OpenDisputes
<1>3. RelayCounters'
  <2> SUFFICES ASSUME NEW a \in Address
               PROVE  relayActiveDisputes[a] = Cardinality(RelayCases(a)')
      BY DEF RelayCounters
  <2>1. RelayCases(a)' = RelayCases(a) BY <1>1, <1>2 DEF RelayCases
  <2>2. QED BY <2>1 DEF DisputeInvariant, RelayCounters
<1>4. OpenMeansDisputed' BY <1>1, <1>2 DEF DisputeInvariant, OpenMeansDisputed
<1>5. OneOpenEach' BY <1>1, <1>2 DEF DisputeInvariant, OneOpenEach
<1>6. DisputedMeansOpen'
  <2> SUFFICES ASSUME NEW t \in Target, Posted(t)', TargetState(t)' = "Disputed"
               PROVE  (DisputesAbout(t) \cap OpenDisputes)' # {}
      BY DEF DisputedMeansOpen
  <2>1. Posted(t) /\ TargetState(t) = "Disputed" OBVIOUS
  <2>2. DisputesAbout(t) \cap OpenDisputes # {}
        BY <2>1 DEF DisputeInvariant, DisputedMeansOpen
  <2>3. QED BY <1>1, <2>2
<1>7. OpenIsLast' BY <1>1, <1>2 DEF DisputeInvariant, OpenIsLast
<1>8. QED BY <1>3, <1>4, <1>5, <1>6, <1>7 DEF DisputeInvariant

\* Dispute n about t, without votes, comes after all the others.
Lists(t, n) ==
  /\ n \in Nat /\ n \notin DOMAIN disputes
  /\ \A i \in DOMAIN disputes : i \in Nat /\ i < n
  /\ DOMAIN disputes' = DOMAIN disputes \cup {n}
  /\ \A i \in DOMAIN disputes : disputes'[i] = disputes[i]
  /\ disputes'[n].target = t /\ ~disputes'[n].resolved
  /\ disputes'[n].fraudAttesters = {} /\ disputes'[n].validAttesters = {}
  /\ disputes'[n].deadline = now + challengePeriod
  /\ OpenDisputes' = OpenDisputes \cup {n} /\ n \notin OpenDisputes
  /\ \A u : DisputesAbout(u)' =
              IF u = t THEN DisputesAbout(u) \cup {n} ELSE DisputesAbout(u)
  /\ relayActiveDisputes' = [relayActiveDisputes EXCEPT ![TargetRelay(t)] = @ + 1]

\* That is what opening one does.
LEMMA Opened ==
  ASSUME TypeOK, NEW t \in Target, NEW a \in Address, NEW bond \in Nat,
         OpenDispute(a, t, bond), NEW n, n = Len(disputes) + 1
  PROVE  Lists(t, n)
<1> DEFINE d == [target |-> t, challenger |-> a, bond |-> bond,
                 deadline |-> now + challengePeriod, fraudAttesters |-> {},
                 validAttesters |-> {}, resolved |-> FALSE]
<1>1. /\ disputes' = Append(disputes, d)
      /\ relayActiveDisputes' =
           [relayActiveDisputes EXCEPT ![TargetRelay(t)] = @ + 1]
      BY DEF OpenDispute
<1>2. /\ d.target = t /\ ~d.resolved
      /\ d.fraudAttesters = {} /\ d.validAttesters = {}
      /\ d.deadline = now + challengePeriod
      OBVIOUS
<1> HIDE DEF d
<1>3. disputes \in Seq(Dispute) BY DEF TypeOK, DisputeTypes
<1>4. /\ n \in Nat /\ n \notin DOMAIN disputes
      /\ \A i \in DOMAIN disputes : i \in Nat /\ i < n
      /\ DOMAIN disputes' = DOMAIN disputes \cup {n}
      /\ \A i \in DOMAIN disputes : disputes'[i] = disputes[i]
      /\ disputes'[n] = d
      BY <1>1, <1>3
<1>5. /\ OpenDisputes' = OpenDisputes \cup {n} /\ n \notin OpenDisputes
      BY <1>2, <1>4 DEF OpenDisputes
<1>6. \A u : DisputesAbout(u)' =
               IF u = t THEN DisputesAbout(u) \cup {n} ELSE DisputesAbout(u)
      BY <1>2, <1>4 DEF DisputesAbout
<1>7. QED BY <1>1, <1>2, <1>4, <1>5, <1>6 DEF Lists

\* Opening a dispute keeps it.
LEMMA DisputesOpened ==
  ASSUME TypeOK, DisputeInvariant, NEW t \in Target, NEW a \in Address,
         NEW bond \in Nat, Opens(t, a, bond)
  PROVE  DisputeInvariant'
<1>1. PICK n : n = Len(disputes) + 1 OBVIOUS
<1>2. /\ Posted(t) /\ TargetState(t) # "Disputed" /\ TargetState(t)' = "Disputed"
      /\ SamePosted /\ \A u \in Target : u # t => KeepsTarget(u)
      /\ OpenDispute(a, t, bond)
      BY DEF Opens
<1>3. /\ n \in Nat /\ n \notin DOMAIN disputes
      /\ \A i \in DOMAIN disputes : i \in Nat /\ i < n
      /\ DOMAIN disputes' = DOMAIN disputes \cup {n}
      /\ \A i \in DOMAIN disputes : disputes'[i] = disputes[i]
      /\ disputes'[n].target = t /\ ~disputes'[n].resolved
      /\ OpenDisputes' = OpenDisputes \cup {n} /\ n \notin OpenDisputes
      /\ \A u : DisputesAbout(u)' =
                  IF u = t THEN DisputesAbout(u) \cup {n} ELSE DisputesAbout(u)
      /\ relayActiveDisputes' =
           [relayActiveDisputes EXCEPT ![TargetRelay(t)] = @ + 1]
  <2>1. Lists(t, n) BY <1>1, <1>2, Opened
  <2>2. QED BY <2>1 DEF Lists
<1>4. \A i \in OpenDisputes :
        /\ i \in DOMAIN disputes /\ disputes'[i].target = disputes[i].target
        /\ disputes[i].target \in Target /\ Posted(disputes[i].target)
        /\ disputes[i].target # t
      BY <1>2, <1>3, AboutPosted DEF OpenDisputes, DisputeInvariant, OpenMeansDisputed
<1>5. \A u \in Target : Posted(u) => TargetRelay(u)' = TargetRelay(u)
      BY <1>2, PostedKeeps
<1>6. RelayCounters'
  <2> SUFFICES ASSUME NEW b \in Address
               PROVE  relayActiveDisputes'[b] = Cardinality(RelayCases(b)')
      BY DEF RelayCounters
  <2>1. RelayCases(b)' = IF b = TargetRelay(t) THEN RelayCases(b) \cup {n}
                         ELSE RelayCases(b)
        BY <1>2, <1>3, <1>4, <1>5 DEF RelayCases
  <2>2. n \notin RelayCases(b) BY <1>3 DEF RelayCases
  <2>3. IsFiniteSet(RelayCases(b))
    <3>1. IsFiniteSet(DOMAIN disputes) BY BondsType DEF TypeOK, DisputeTypes
    <3>2. RelayCases(b) \subseteq DOMAIN disputes BY DEF RelayCases, OpenDisputes
    <3>3. QED BY <3>1, <3>2, FS_Subset
  <2>4. Cardinality(RelayCases(b) \cup {n}) = Cardinality(RelayCases(b)) + 1
        BY <2>2, <2>3, FS_AddElement
  <2>5. /\ relayActiveDisputes \in [Address -> Nat]
        /\ relayActiveDisputes[b] = Cardinality(RelayCases(b))
        BY DEF TypeOK, ExposureTypes, DisputeInvariant, RelayCounters
  <2>6. QED BY <1>3, <2>1, <2>4, <2>5
<1>7. OpenMeansDisputed'
  <2> SUFFICES ASSUME NEW i \in OpenDisputes', NEW u, u = disputes'[i].target
               PROVE  TargetState(u)' = "Disputed"
      BY DEF OpenMeansDisputed
  <2>1. CASE i = n BY <1>2, <1>3, <2>1
  <2>2. CASE i \in OpenDisputes
    <3>1. /\ u = disputes[i].target /\ u \in Target /\ Posted(u) /\ u # t
          /\ TargetState(u) = "Disputed"
          BY <1>4, <2>2 DEF DisputeInvariant, OpenMeansDisputed
    <3>2. QED BY <1>2, <3>1 DEF KeepsTarget
  <2>3. QED BY <1>3, <2>1, <2>2
<1>8. OneOpenEach'
      BY <1>3, <1>4 DEF DisputeInvariant, OneOpenEach
<1>9. DisputedMeansOpen'
  <2> SUFFICES ASSUME NEW u \in Target, Posted(u)', TargetState(u)' = "Disputed"
               PROVE  (DisputesAbout(u) \cap OpenDisputes)' # {}
      BY DEF DisputedMeansOpen
  <2>1. CASE u = t
    <3>1. n \in DisputesAbout(u)' /\ n \in OpenDisputes' BY <1>3, <2>1
    <3>2. QED BY <3>1
  <2>2. CASE u # t
    <3>1. Posted(u) /\ TargetState(u) = "Disputed" BY <1>2, <2>2 DEF KeepsTarget
    <3>2. DisputesAbout(u) \cap OpenDisputes # {}
          BY <3>1 DEF DisputeInvariant, DisputedMeansOpen
    <3>3. QED BY <1>3, <2>2, <3>2
  <2>3. QED BY <2>1, <2>2
<1>10. OpenIsLast'
  <2> SUFFICES ASSUME NEW i \in OpenDisputes', NEW u, u = disputes'[i].target,
                      NEW j \in DisputesAbout(u)'
               PROVE  j <= i
      BY DEF OpenIsLast
  <2>1. CASE i = n
    <3>1. j \in DOMAIN disputes' BY DEF DisputesAbout
    <3>2. QED BY <1>3, <2>1, <3>1
  <2>2. CASE i \in OpenDisputes
    <3>1. u = disputes[i].target /\ j \in DisputesAbout(u) BY <1>3, <1>4, <2>2
    <3>2. QED BY <2>2, <3>1 DEF DisputeInvariant, OpenIsLast
  <2>3. QED BY <1>3, <2>1, <2>2
<1>11. QED BY <1>6, <1>7, <1>8, <1>9, <1>10 DEF DisputeInvariant

\* What a ruling does to the disputes.
LEMMA Ruled ==
  ASSUME TypeOK, NEW i \in DOMAIN disputes, NEW d \in Dispute, Rules(i, d)
  PROVE  /\ DOMAIN disputes' = DOMAIN disputes
         /\ disputes'[i] = d /\ d.target = disputes[i].target
         /\ \A j \in DOMAIN disputes : j # i => disputes'[j] = disputes[j]
         /\ OpenDisputes' = IF d.resolved THEN OpenDisputes \ {i} ELSE OpenDisputes
         /\ i \in OpenDisputes
         /\ \A u : DisputesAbout(u)' = DisputesAbout(u)
<1>1. /\ disputes' = [disputes EXCEPT ![i] = d] /\ d.target = disputes[i].target
      /\ i \in OpenDisputes
      BY DEF Rules
<1>2. /\ DOMAIN disputes' = DOMAIN disputes
      /\ disputes'[i] = d
      /\ \A j \in DOMAIN disputes : j # i => disputes'[j] = disputes[j]
      BY <1>1
<1>3. OpenDisputes' = IF d.resolved THEN OpenDisputes \ {i} ELSE OpenDisputes
      BY <1>1, <1>2 DEF OpenDisputes
<1>4. \A u : DisputesAbout(u)' = DisputesAbout(u)
      BY <1>1, <1>2 DEF DisputesAbout
<1>5. QED BY <1>1, <1>2, <1>3, <1>4

\* Closing a dispute keeps it.
LEMMA DisputesClosed ==
  ASSUME TypeOK, DisputeInvariant, NEW i \in DOMAIN disputes, NEW d \in Dispute,
         Rules(i, d), d.resolved, CloseDispute(d.target),
         TargetState(d.target)' # "Disputed"
  PROVE  DisputeInvariant'
<1>1. /\ DOMAIN disputes' = DOMAIN disputes
      /\ disputes'[i] = d /\ d.target = disputes[i].target
      /\ \A j \in DOMAIN disputes : j # i => disputes'[j] = disputes[j]
      /\ OpenDisputes' = OpenDisputes \ {i} /\ i \in OpenDisputes
      /\ \A u : DisputesAbout(u)' = DisputesAbout(u)
      BY Ruled
<1>2. PICK t : t = disputes[i].target OBVIOUS
<1>3. /\ SamePosted /\ \A u \in Target : u # t => KeepsTarget(u)
      BY <1>2 DEF Rules
<1>4. \A j \in OpenDisputes :
        /\ j \in DOMAIN disputes
        /\ disputes[j].target \in Target /\ Posted(disputes[j].target)
        /\ j # i => disputes[j].target # t
      BY <1>1, <1>2, AboutPosted DEF OpenDisputes, DisputeInvariant, OneOpenEach
<1>5. \A u \in Target : Posted(u) => TargetRelay(u)' = TargetRelay(u)
      BY <1>3, PostedKeeps
<1>6. RelayCounters'
  <2> SUFFICES ASSUME NEW b \in Address
               PROVE  relayActiveDisputes'[b] = Cardinality(RelayCases(b)')
      BY DEF RelayCounters
  <2>1. RelayCases(b)' = IF b = TargetRelay(t) THEN RelayCases(b) \ {i}
                         ELSE RelayCases(b)
        BY <1>1, <1>2, <1>4, <1>5 DEF RelayCases
  <2>2. i \in RelayCases(TargetRelay(t)) BY <1>1, <1>2 DEF RelayCases
  <2>3. IsFiniteSet(RelayCases(b))
    <3>1. IsFiniteSet(DOMAIN disputes) BY BondsType DEF TypeOK, DisputeTypes
    <3>2. RelayCases(b) \subseteq DOMAIN disputes BY DEF RelayCases, OpenDisputes
    <3>3. QED BY <3>1, <3>2, FS_Subset
  <2>4. b = TargetRelay(t) =>
          Cardinality(RelayCases(b) \ {i}) = Cardinality(RelayCases(b)) - 1
        BY <2>2, <2>3, FS_RemoveElement
  <2>5. /\ relayActiveDisputes \in [Address -> Nat]
        /\ relayActiveDisputes[b] = Cardinality(RelayCases(b))
        BY DEF TypeOK, ExposureTypes, DisputeInvariant, RelayCounters
  <2>6. relayActiveDisputes' =
          [relayActiveDisputes EXCEPT ![TargetRelay(t)] = @ - 1]
        BY <1>1, <1>2 DEF CloseDispute, ReliefOf
  <2>7. QED BY <2>1, <2>4, <2>5, <2>6
<1>7. OpenMeansDisputed'
  <2> SUFFICES ASSUME NEW j \in OpenDisputes', NEW u, u = disputes'[j].target
               PROVE  TargetState(u)' = "Disputed"
      BY DEF OpenMeansDisputed
  <2>1. j \in OpenDisputes /\ j # i BY <1>1
  <2>2. /\ u = disputes[j].target /\ KeepsTarget(u) /\ Posted(u)
        /\ TargetState(u) = "Disputed"
        BY <1>1, <1>3, <1>4, <2>1 DEF DisputeInvariant, OpenMeansDisputed
  <2>3. QED BY <2>2 DEF KeepsTarget
<1>8. OneOpenEach'
      BY <1>1, <1>4 DEF DisputeInvariant, OneOpenEach
<1>9. DisputedMeansOpen'
  <2> SUFFICES ASSUME NEW u \in Target, Posted(u)', TargetState(u)' = "Disputed"
               PROVE  (DisputesAbout(u) \cap OpenDisputes)' # {}
      BY DEF DisputedMeansOpen
  <2>1. u # t BY <1>1, <1>2
  <2>2. Posted(u) /\ TargetState(u) = "Disputed" BY <1>3, <2>1 DEF KeepsTarget
  <2>3. PICK j \in DisputesAbout(u) : j \in OpenDisputes
        BY <2>2 DEF DisputeInvariant, DisputedMeansOpen
  <2>4. j # i BY <1>2, <2>1, <2>3 DEF DisputesAbout
  <2>5. QED BY <1>1, <2>3, <2>4
<1>10. OpenIsLast'
  <2> SUFFICES ASSUME NEW j \in OpenDisputes', NEW u, u = disputes'[j].target,
                      NEW k \in DisputesAbout(u)'
               PROVE  k <= j
      BY DEF OpenIsLast
  <2>1. j \in OpenDisputes /\ j # i BY <1>1
  <2>2. u = disputes[j].target BY <1>1, <1>4, <2>1
  <2>3. k \in DisputesAbout(disputes[j].target) BY <1>1, <2>2
  <2>4. QED BY <2>1, <2>3 DEF DisputeInvariant, OpenIsLast
<1>11. QED BY <1>6, <1>7, <1>8, <1>9, <1>10 DEF DisputeInvariant

\* So does every step.
LEMMA NextDisputes ==
  ASSUME TypeOK, LeafInvariant, DisputeInvariant, [Next]_vars
  PROVE  DisputeInvariant'
<1>1. CASE Idles
  <2>1. SamePosted BY <1>1, SamePostedCases DEF Idles, targetVars, TypeOK
  <2>2. \A t \in Target : KeepsTarget(t)
        BY <1>1, <2>1, TargetKept DEF Idles, targetVars
  <2>3. UNCHANGED <<disputes, relayActiveDisputes>> BY <1>1 DEF Idles, counterVars
  <2>4. QED BY <2>2, <2>3, DisputesKept DEF KeepsTarget
<1>2. CASE Submits
  <2>1. UNCHANGED <<disputes, relayActiveDisputes>> BY <1>2 DEF Submits, counterVars
  <2>2. QED BY <1>2, <2>1, DisputesKept DEF Submits, KeepsTarget
<1>3. ASSUME NEW i \in 1 .. MaxRecords, Confirms(i) PROVE DisputeInvariant'
  <2>1. PICK t : t = RecordTarget(i) OBVIOUS
  <2>2. /\ t \in Target /\ TargetState(t) = "Provisional"
        /\ TargetState(t)' = "Confirmed"
        /\ SamePosted /\ \A u \in Target : u # t => KeepsTarget(u)
        BY <1>3, <2>1 DEF Confirms
  <2>3. UNCHANGED <<disputes, relayActiveDisputes>> BY <1>3 DEF Confirms, counterVars
  <2>4. \A u \in Target : Posted(u) => TargetRelay(u)' = TargetRelay(u)
        BY <2>2, PostedKeeps
  <2>5. \A u \in Target : Posted(u)' <=> Posted(u) BY <2>2, PostedKeeps
  <2>6. \A u \in Target :
          Posted(u) => (TargetState(u)' = "Disputed" <=> TargetState(u) = "Disputed")
        BY <2>2 DEF KeepsTarget
  <2>7. QED BY <2>3, <2>4, <2>5, <2>6, DisputesKept
<1>4. ASSUME NEW b, ConfirmsBatch(b) PROVE DisputeInvariant'
  <2>1. /\ SamePosted
        /\ \A t \in Target : Posted(t) => TargetState(t)' = TargetState(t)
        /\ UNCHANGED <<disputes, relayActiveDisputes>>
        BY <1>4 DEF ConfirmsBatch, counterVars
  <2>2. \A u \in Target : Posted(u) => TargetRelay(u)' = TargetRelay(u)
        BY <2>1, PostedKeeps
  <2>3. \A u \in Target : Posted(u)' <=> Posted(u) BY <2>1, PostedKeeps
  <2>4. QED BY <2>1, <2>2, <2>3, DisputesKept
<1>5. ASSUME NEW t \in Target, NEW a \in Address, NEW bond \in Nat, Opens(t, a, bond)
      PROVE  DisputeInvariant'
      BY <1>5, DisputesOpened
<1>6. ASSUME NEW i \in DOMAIN disputes, NEW d \in Dispute, Counts(i, d)
      PROVE  DisputeInvariant'
  <2>1. Rules(i, d) /\ ~d.resolved /\ KeepsTarget(d.target)
        /\ UNCHANGED relayActiveDisputes
        BY <1>6 DEF Counts, counterVars
  <2>2. /\ DOMAIN disputes' = DOMAIN disputes
        /\ disputes'[i] = d /\ d.target = disputes[i].target
        /\ \A j \in DOMAIN disputes : j # i => disputes'[j] = disputes[j]
        /\ i \in OpenDisputes
        BY <2>1, Ruled
  <2>3. \A u \in Target : KeepsTarget(u) BY <2>1, <2>2 DEF Rules
  <2>4. disputes[i].resolved = d.resolved
    <3>1. disputes[i] \in Dispute /\ d \in Dispute BY AboutPosted
    <3>2. ~disputes[i].resolved BY <2>2 DEF OpenDisputes
    <3>3. QED BY <2>1, <3>1, <3>2 DEF Dispute
  <2>5. \A j \in DOMAIN disputes :
          /\ disputes'[j].target = disputes[j].target
          /\ disputes'[j].resolved = disputes[j].resolved
        BY <2>2, <2>4
  <2>6. QED BY <2>1, <2>2, <2>3, <2>5, DisputesKept DEF KeepsTarget
<1>7. ASSUME NEW i \in DOMAIN disputes, NEW d \in Dispute,
             Convicts(i, d) \/ Acquits(i, d) \/ Lapses(i, d)
      PROVE  DisputeInvariant'
  <2>1. /\ Rules(i, d) /\ d.resolved /\ CloseDispute(d.target)
        /\ TargetState(d.target)' # "Disputed"
        BY <1>7 DEF Convicts, Acquits, Lapses
  <2>2. QED BY <2>1, DisputesClosed
<1>8. QED
      BY <1>1, <1>2, <1>3, <1>4, <1>5, <1>6, <1>7, StepShapes DEF DisputeInvariant

-----------------------------------------------------------------------------
(* States and votes.                                                       *)

\* A dispute that revoked its target.
Guilty(d) == FoundFraud(d) \/ Expired(d)

\* The parts of VerdictMatchesVotes: what is said of each dispute, of the state
\* of each target, and of each confirmed record.
FairVotes ==
  \A i \in DOMAIN disputes :
    LET d == disputes[i] IN
    /\ d.fraudAttesters \cap d.validAttesters = {}
    /\ TargetRelay(d.target) \notin d.fraudAttesters \cup d.validAttesters
    /\ ~d.resolved /\ quorum > 0 => ~FraudQuorum(d) /\ ~ValidQuorum(d)
    /\ Expired(d) => now > d.deadline
    /\ Guilty(d) => \A j \in DisputesAbout(d.target) : j <= i
RevokedMeansGuilty ==
  \A t \in Target :
    Posted(t) => (TargetState(t) = "Revoked" <=>
                    \E i \in DisputesAbout(t) : Guilty(disputes[i]))
Survived(r) ==
  /\ now >= records[r].submittedAt + challengePeriod
  /\ \A i \in DisputesAbout(RecordTarget(r)) : FoundSpurious(disputes[i])
ConfirmedSurvived ==
  \A r \in DOMAIN records : records[r].state = "Confirmed" => Survived(r)

\* They are all of it.
LEMMA VerdictParts ==
  VerdictMatchesVotes <=> FairVotes /\ RevokedMeansGuilty /\ ConfirmedSurvived
BY DEF VerdictMatchesVotes, FairVotes, RevokedMeansGuilty, ConfirmedSurvived,
       Survived, Guilty

\* A step that leaves the disputes alone keeps it, if it revokes no target and
\* confirms only a record that has survived.
LEMMA VotesKept ==
  ASSUME TypeOK, VerdictMatchesVotes, UNCHANGED disputes, now' \in Nat, now' >= now,
         \A t \in Target : Posted(t) =>
           /\ TargetRelay(t)' = TargetRelay(t)
           /\ TargetState(t)' = "Revoked" <=> TargetState(t) = "Revoked",
         \A t \in Target : Posted(t)' /\ ~Posted(t) => TargetState(t)' # "Revoked",
         \A r \in DOMAIN records' :
           records'[r].state = "Confirmed" =>
             /\ r \in DOMAIN records
             /\ records'[r].submittedAt = records[r].submittedAt
             /\ records[r].state = "Confirmed" \/ Survived(r)
  PROVE  VerdictMatchesVotes'
<1>0. /\ FairVotes /\ RevokedMeansGuilty /\ ConfirmedSurvived
      /\ now \in Nat /\ challengePeriod \in Nat
      BY VerdictParts, ParameterAssumption DEF TypeOK, ChainTypes
<1>1. \A u : DisputesAbout(u)' = DisputesAbout(u) BY DEF DisputesAbout
<1>2. FairVotes'
  <2> SUFFICES ASSUME NEW i \in DOMAIN disputes, NEW d, d = disputes[i],
                      NEW t, t = d.target
               PROVE  /\ d.fraudAttesters \cap d.validAttesters = {}
                      /\ TargetRelay(t)' \notin d.fraudAttesters \cup d.validAttesters
                      /\ ~d.resolved /\ quorum > 0 => ~FraudQuorum(d) /\ ~ValidQuorum(d)
                      /\ Expired(d) => now' > d.deadline
                      /\ Guilty(d) => \A j \in DisputesAbout(t)' : j <= i
      BY DEF FairVotes
  <2>1. d \in Dispute /\ t \in Target /\ Posted(t) BY AboutPosted
  <2>2. TargetRelay(t)' = TargetRelay(t) /\ d.deadline \in Nat
        BY <2>1 DEF Dispute
  <2>3. QED BY <1>0, <1>1, <2>1, <2>2 DEF FairVotes
<1>3. RevokedMeansGuilty'
  <2> SUFFICES ASSUME NEW t \in Target, Posted(t)'
               PROVE  TargetState(t)' = "Revoked" <=>
                        \E i \in DisputesAbout(t) : Guilty(disputes[i])
      BY <1>1 DEF RevokedMeansGuilty
  <2>1. CASE Posted(t) BY <1>0, <2>1 DEF RevokedMeansGuilty
  <2>2. CASE ~Posted(t)
    <3>1. DisputesAbout(t) = {} BY <2>2, AboutPosted DEF DisputesAbout
    <3>2. QED BY <2>2, <3>1
  <2>3. QED BY <2>1, <2>2
<1>4. ConfirmedSurvived'
  <2> SUFFICES ASSUME NEW r \in DOMAIN records', records'[r].state = "Confirmed"
               PROVE  /\ now' >= records'[r].submittedAt + challengePeriod
                      /\ \A i \in DisputesAbout(RecordTarget(r))' :
                           FoundSpurious(disputes[i])
      BY DEF ConfirmedSurvived, Survived
  <2>1. /\ r \in DOMAIN records /\ Survived(r)
        /\ records'[r].submittedAt = records[r].submittedAt
        BY <1>0 DEF ConfirmedSurvived
  <2>2. DisputesAbout(RecordTarget(r))' = DisputesAbout(RecordTarget(r))
        BY DEF DisputesAbout, RecordTarget
  <2>3. records[r].submittedAt \in Nat
    <3>1. records[r] \in Record BY <2>1 DEF TypeOK, TargetTypes
    <3>2. QED BY <3>1 DEF Record
  <2>4. QED BY <1>0, <2>1, <2>2, <2>3 DEF Survived
<1>5. QED
  <2>1. FairVotes' /\ RevokedMeansGuilty' /\ ConfirmedSurvived' => VerdictMatchesVotes'
        BY DEF VerdictMatchesVotes, FairVotes, RevokedMeansGuilty, ConfirmedSurvived,
               Survived, Guilty
  <2>2. QED BY <1>2, <1>3, <1>4, <2>1

\* A new dispute has no vote and no revoked target.
LEMMA VotesOpened ==
  ASSUME TypeOK, VerdictMatchesVotes, NEW t \in Target, NEW a \in Address,
         NEW bond \in Nat, Opens(t, a, bond)
  PROVE  VerdictMatchesVotes'
<1>0. /\ FairVotes /\ RevokedMeansGuilty /\ ConfirmedSurvived
      /\ quorum \in Nat
      BY VerdictParts, ParameterAssumption
<1>1. /\ Posted(t) /\ ~Settled(t) /\ TargetState(t)' = "Disputed"
      /\ SamePosted /\ \A u \in Target : u # t => KeepsTarget(u)
      /\ OpenDispute(a, t, bond)
      /\ UNCHANGED now
      BY DEF Opens
<1>2. PICK n : n = Len(disputes) + 1 OBVIOUS
<1>3. Lists(t, n) BY <1>1, <1>2, Opened
<1>4. \A u \in Target : Posted(u)' <=> Posted(u) BY <1>1, PostedKeeps
<1>5. TargetState(t) # "Revoked" BY <1>1 DEF Settled
<1>6. \A j \in DisputesAbout(t) : ~Guilty(disputes[j])
      BY <1>0, <1>1, <1>5 DEF RevokedMeansGuilty
<1>7. PICK e : e = disputes'[n] OBVIOUS
<1>8. /\ e.target = t /\ e.fraudAttesters = {} /\ e.validAttesters = {}
      /\ ~e.resolved /\ ~Guilty(e)
      BY <1>3, <1>7 DEF Lists, Guilty, FoundFraud, Expired
<1>9. FairVotes'
  <2> SUFFICES ASSUME NEW i \in DOMAIN disputes', NEW d, d = disputes'[i],
                      NEW u, u = d.target
               PROVE  /\ d.fraudAttesters \cap d.validAttesters = {}
                      /\ TargetRelay(u)' \notin d.fraudAttesters \cup d.validAttesters
                      /\ ~d.resolved /\ quorum > 0 => ~FraudQuorum(d) /\ ~ValidQuorum(d)
                      /\ Expired(d) => now' > d.deadline
                      /\ Guilty(d) => \A j \in DisputesAbout(u)' : j <= i
      BY DEF FairVotes
  <2>1. CASE i = n
    <3>1. d = e BY <1>7, <2>1
    <3>2. Cardinality({}) = 0 BY FS_EmptySet
    <3>3. quorum > 0 => ~FraudQuorum(d) /\ ~ValidQuorum(d)
          BY <1>0, <1>8, <3>1, <3>2 DEF FraudQuorum, ValidQuorum
    <3>4. QED BY <1>8, <3>1, <3>3 DEF Expired
  <2>2. CASE i \in DOMAIN disputes
    <3>1. d = disputes[i] BY <1>3, <2>2 DEF Lists
    <3>2. u \in Target /\ Posted(u) BY <2>2, <3>1, AboutPosted
    <3>3. TargetRelay(u)' = TargetRelay(u) BY <1>1, <3>2, PostedKeeps
    <3>4. Guilty(d) => u # t BY <1>6, <2>2, <3>1 DEF DisputesAbout
    <3>5. Guilty(d) => DisputesAbout(u)' = DisputesAbout(u) BY <1>3, <3>4 DEF Lists
    <3>6. QED BY <1>0, <1>1, <2>2, <3>1, <3>3, <3>5 DEF FairVotes
  <2>3. QED BY <1>3, <2>1, <2>2 DEF Lists
<1>10. RevokedMeansGuilty'
  <2> SUFFICES ASSUME NEW u \in Target, Posted(u)'
               PROVE  TargetState(u)' = "Revoked" <=>
                        \E i \in DisputesAbout(u)' : Guilty(disputes'[i])
      BY DEF RevokedMeansGuilty, Guilty
  <2>1. \A j \in DisputesAbout(u) : j \in DOMAIN disputes /\ disputes'[j] = disputes[j]
        BY <1>3 DEF Lists, DisputesAbout
  <2>2. CASE u = t
    <3>1. \A i \in DisputesAbout(u)' : ~Guilty(disputes'[i])
          BY <1>3, <1>6, <1>7, <1>8, <2>1, <2>2 DEF Lists
    <3>2. QED BY <1>1, <2>2, <3>1
  <2>3. CASE u # t
    <3>1. DisputesAbout(u)' = DisputesAbout(u) BY <1>3, <2>3 DEF Lists
    <3>2. TargetState(u)' = TargetState(u) /\ Posted(u)
          BY <1>1, <2>3 DEF KeepsTarget
    <3>3. QED BY <1>0, <2>1, <3>1, <3>2 DEF RevokedMeansGuilty
  <2>4. QED BY <2>2, <2>3
<1>11. ConfirmedSurvived'
  <2> SUFFICES ASSUME NEW r \in DOMAIN records', records'[r].state = "Confirmed",
                      NEW u, u = RecordTarget(r)
               PROVE  /\ now' >= records'[r].submittedAt + challengePeriod
                      /\ \A i \in DisputesAbout(u)' : FoundSpurious(disputes'[i])
      BY DEF ConfirmedSurvived, Survived
  <2>1. /\ r \in DOMAIN records /\ u[1] = 0 /\ u[2] = r /\ u \in Target
        /\ records'[r].submittedAt = records[r].submittedAt
    <3>1. r \in DOMAIN records /\ records'[r].submittedAt = records[r].submittedAt
          BY <1>1 DEF SamePosted, SameRecord
    <3>2. r \in 1 .. MaxRecords
          BY <3>1, InputAssumption DEF TypeOK, TargetTypes
    <3>3. QED BY <3>1, <3>2, TargetCases DEF RecordTarget
  <2>2. TargetState(u)' = "Confirmed" BY <2>1 DEF TargetState
  <2>3. u # t BY <1>1, <2>2
  <2>4. TargetState(u) = "Confirmed" BY <1>1, <2>1, <2>2, <2>3 DEF KeepsTarget, Posted
  <2>5. records[r].state = "Confirmed" BY <2>1, <2>4 DEF TargetState
  <2>6. DisputesAbout(u)' = DisputesAbout(u) BY <1>3, <2>3 DEF Lists
  <2>7. \A i \in DisputesAbout(u) : disputes'[i] = disputes[i]
        BY <1>3 DEF Lists, DisputesAbout
  <2>8. QED BY <1>0, <1>1, <2>1, <2>5, <2>6, <2>7 DEF ConfirmedSurvived, Survived
<1>12. QED
  <2>1. FairVotes' /\ RevokedMeansGuilty' /\ ConfirmedSurvived' => VerdictMatchesVotes'
        BY DEF VerdictMatchesVotes, FairVotes, RevokedMeansGuilty, ConfirmedSurvived,
               Survived, Guilty
  <2>2. QED BY <1>9, <1>10, <1>11, <2>1

\* The votes of a dispute that becomes d, and the state of its target, agree.
SoundRuling(i, d) ==
  /\ Rules(i, d)
  /\ d.fraudAttesters \cap d.validAttesters = {}
  /\ TargetRelay(d.target) \notin d.fraudAttesters \cup d.validAttesters
  /\ ~d.resolved /\ quorum > 0 => ~FraudQuorum(d) /\ ~ValidQuorum(d)
  /\ Expired(d) => now > d.deadline
  /\ Guilty(d) <=> TargetState(d.target)' = "Revoked"
  /\ TargetState(d.target)' # "Confirmed"

\* Whichever way it goes.
LEMMA EachRulingSound ==
  ASSUME TypeOK, VerdictMatchesVotes, OpenMeansDisputed, NEW i \in DOMAIN disputes,
         NEW d \in Dispute,
         Counts(i, d) \/ Convicts(i, d) \/ Acquits(i, d) \/ Lapses(i, d)
  PROVE  SoundRuling(i, d)
<1>1. PICK old, t : old = disputes[i] /\ t = disputes[i].target OBVIOUS
<1>2. /\ Rules(i, d) /\ i \in OpenDisputes /\ d.target = t /\ old.target = t
      /\ ~old.resolved /\ TargetState(t) = "Disputed"
  <2>1. Rules(i, d) BY DEF Counts, Convicts, Acquits, Lapses
  <2>2. QED BY <1>1, <2>1 DEF Rules, OpenDisputes, OpenMeansDisputed
<1>3. old \in Dispute /\ t \in Target /\ Posted(t) BY <1>1, AboutPosted
<1>4. /\ old.fraudAttesters \cap old.validAttesters = {}
      /\ TargetRelay(t) \notin old.fraudAttesters \cup old.validAttesters
      /\ quorum > 0 => ~FraudQuorum(old) /\ ~ValidQuorum(old)
      BY <1>1, <1>2 DEF VerdictMatchesVotes
<1>5. Ballot(i, d) => /\ d.fraudAttesters \cap d.validAttesters = {}
                      /\ TargetRelay(t) \notin d.fraudAttesters \cup d.validAttesters
      BY <1>1, <1>4 DEF Ballot
<1>6. CASE Counts(i, d)
  <2>1. /\ Ballot(i, d) /\ ~d.resolved /\ ~FraudQuorum(d) /\ ~ValidQuorum(d)
        /\ KeepsTarget(t)
        BY <1>2, <1>6 DEF Counts
  <2>2. TargetState(t)' = "Disputed" BY <1>2, <1>3, <2>1 DEF KeepsTarget
  <2>3. ~Guilty(d) /\ ~Expired(d) BY <2>1 DEF Guilty, FoundFraud, Expired
  <2>4. QED BY <1>2, <1>5, <2>1, <2>2, <2>3 DEF SoundRuling
<1>7. CASE Convicts(i, d)
  <2>1. /\ Ballot(i, d) /\ d.resolved /\ FraudQuorum(d)
        /\ TargetState(t)' = "Revoked"
        BY <1>2, <1>7 DEF Convicts
  <2>2. Guilty(d) /\ ~Expired(d) BY <2>1 DEF Guilty, FoundFraud, Expired
  <2>3. QED BY <1>2, <1>5, <2>1, <2>2 DEF SoundRuling
<1>8. CASE Acquits(i, d)
  <2>1. /\ Ballot(i, d) /\ d.resolved /\ ~FraudQuorum(d) /\ ValidQuorum(d)
        /\ TargetState(t)' \notin {"Disputed", "Revoked", "Confirmed"}
        BY <1>2, <1>8 DEF Acquits
  <2>2. ~Guilty(d) /\ ~Expired(d) BY <2>1 DEF Guilty, FoundFraud, Expired
  <2>3. QED BY <1>2, <1>5, <2>1, <2>2 DEF SoundRuling
<1>9. CASE Lapses(i, d)
  <2>1. /\ d.fraudAttesters = old.fraudAttesters
        /\ d.validAttesters = old.validAttesters
        /\ d.resolved /\ now > d.deadline
        /\ TargetState(t)' = "Revoked"
        BY <1>1, <1>2, <1>9 DEF Lapses
  <2>2. Guilty(d)
    <3>1. CASE FraudQuorum(d) BY <2>1, <3>1 DEF Guilty, FoundFraud
    <3>2. CASE ~FraudQuorum(d)
      <4>1. IsFiniteSet(Address) /\ d.fraudAttesters \subseteq Address
            BY ParameterAssumption DEF Dispute
      <4>2. Cardinality(d.fraudAttesters) \in Nat
            BY <4>1, FS_Subset, FS_CardinalityType
      <4>3. quorum \in Nat /\ quorum > 0
            BY <3>2, <4>2, ParameterAssumption DEF FraudQuorum
      <4>4. ~ValidQuorum(d) BY <1>4, <2>1, <4>3 DEF ValidQuorum
      <4>5. QED BY <2>1, <3>2, <4>4 DEF Guilty, Expired
    <3>3. QED BY <3>1, <3>2
  <2>3. QED BY <1>2, <1>4, <2>1, <2>2 DEF SoundRuling
<1>10. QED BY <1>6, <1>7, <1>8, <1>9

\* So a ruling keeps it.
LEMMA VotesRuled ==
  ASSUME TypeOK, VerdictMatchesVotes, OpenMeansDisputed, OpenIsLast,
         NEW i \in DOMAIN disputes, NEW d \in Dispute, SoundRuling(i, d)
  PROVE  VerdictMatchesVotes'
<1>0. FairVotes /\ RevokedMeansGuilty /\ ConfirmedSurvived BY VerdictParts
<1>1. PICK t : t = disputes[i].target OBVIOUS
<1>2. /\ Rules(i, d) /\ d.target = t /\ UNCHANGED now
      /\ SamePosted /\ \A u \in Target : u # t => KeepsTarget(u)
      BY <1>1 DEF SoundRuling, Rules
<1>3. /\ DOMAIN disputes' = DOMAIN disputes
      /\ disputes'[i] = d
      /\ \A j \in DOMAIN disputes : j # i => disputes'[j] = disputes[j]
      /\ i \in OpenDisputes
      /\ \A u : DisputesAbout(u)' = DisputesAbout(u)
      BY <1>2, Ruled
<1>4. t \in Target /\ Posted(t) /\ TargetState(t) = "Disputed"
      BY <1>1, <1>3, AboutPosted DEF OpenMeansDisputed
<1>5. /\ \A j \in DisputesAbout(t) : j <= i /\ ~Guilty(disputes[j])
      /\ i \in DisputesAbout(t)
  <2>1. \A j \in DisputesAbout(t) : j <= i BY <1>1, <1>3 DEF OpenIsLast
  <2>2. \A j \in DisputesAbout(t) : ~Guilty(disputes[j])
        BY <1>0, <1>4 DEF RevokedMeansGuilty
  <2>3. QED BY <1>1, <2>1, <2>2 DEF DisputesAbout
<1>6. /\ Guilty(d) <=> TargetState(t)' = "Revoked"
      /\ TargetState(t)' # "Confirmed"
      /\ d.fraudAttesters \cap d.validAttesters = {}
      /\ TargetRelay(t) \notin d.fraudAttesters \cup d.validAttesters
      /\ ~d.resolved /\ quorum > 0 => ~FraudQuorum(d) /\ ~ValidQuorum(d)
      /\ Expired(d) => now > d.deadline
      BY <1>2 DEF SoundRuling
<1>7. FairVotes'
  <2> SUFFICES ASSUME NEW j \in DOMAIN disputes', NEW e, e = disputes'[j],
                      NEW u, u = e.target
               PROVE  /\ e.fraudAttesters \cap e.validAttesters = {}
                      /\ TargetRelay(u)' \notin e.fraudAttesters \cup e.validAttesters
                      /\ ~e.resolved /\ quorum > 0 => ~FraudQuorum(e) /\ ~ValidQuorum(e)
                      /\ Expired(e) => now' > e.deadline
                      /\ Guilty(e) => \A k \in DisputesAbout(u)' : k <= j
      BY DEF FairVotes
  <2>1. \A x \in Target : Posted(x) => TargetRelay(x)' = TargetRelay(x)
        BY <1>2, PostedKeeps
  <2>2. CASE j = i
    <3>1. e = d /\ u = t BY <1>2, <1>3, <2>2
    <3>2. QED BY <1>2, <1>3, <1>4, <1>5, <1>6, <2>1, <2>2, <3>1
  <2>3. CASE j # i
    <3>1. j \in DOMAIN disputes /\ e = disputes[j] BY <1>3, <2>3
    <3>2. u \in Target /\ Posted(u) BY <3>1, AboutPosted
    <3>3. QED BY <1>0, <1>2, <1>3, <2>1, <3>1, <3>2 DEF FairVotes
  <2>4. QED BY <2>2, <2>3
<1>8. RevokedMeansGuilty'
  <2> SUFFICES ASSUME NEW u \in Target, Posted(u)'
               PROVE  TargetState(u)' = "Revoked" <=>
                        \E j \in DisputesAbout(u) : Guilty(disputes'[j])
      BY <1>3 DEF RevokedMeansGuilty, Guilty
  <2>1. CASE u = t
    <3>1. \A j \in DisputesAbout(u) : j # i => ~Guilty(disputes'[j])
      <4>1. \A j \in DisputesAbout(u) : j \in DOMAIN disputes BY DEF DisputesAbout
      <4>2. QED BY <1>3, <1>5, <2>1, <4>1
    <3>2. QED BY <1>3, <1>5, <1>6, <2>1, <3>1
  <2>2. CASE u # t
    <3>1. TargetState(u)' = TargetState(u) /\ Posted(u)
          BY <1>2, <2>2 DEF KeepsTarget
    <3>2. \A j \in DisputesAbout(u) : disputes'[j] = disputes[j]
          BY <1>1, <1>3, <2>2 DEF DisputesAbout
    <3>3. QED BY <1>0, <3>1, <3>2 DEF RevokedMeansGuilty
  <2>3. QED BY <2>1, <2>2
<1>9. ConfirmedSurvived'
  <2> SUFFICES ASSUME NEW r \in DOMAIN records', records'[r].state = "Confirmed",
                      NEW u, u = RecordTarget(r)
               PROVE  /\ now' >= records'[r].submittedAt + challengePeriod
                      /\ \A j \in DisputesAbout(u)' : FoundSpurious(disputes'[j])
      BY DEF ConfirmedSurvived, Survived
  <2>1. /\ r \in DOMAIN records /\ u[1] = 0 /\ u[2] = r /\ u \in Target
        /\ records'[r].submittedAt = records[r].submittedAt
    <3>1. r \in DOMAIN records /\ records'[r].submittedAt = records[r].submittedAt
          BY <1>2 DEF SamePosted, SameRecord
    <3>2. r \in 1 .. MaxRecords
          BY <3>1, InputAssumption DEF TypeOK, TargetTypes
    <3>3. QED BY <3>1, <3>2, TargetCases DEF RecordTarget
  <2>2. TargetState(u)' = "Confirmed" BY <2>1 DEF TargetState
  <2>3. u # t BY <1>6, <2>2
  <2>4. TargetState(u) = "Confirmed" BY <1>2, <2>1, <2>2, <2>3 DEF KeepsTarget, Posted
  <2>5. records[r].state = "Confirmed" BY <2>1, <2>4 DEF TargetState
  <2>6. \A j \in DisputesAbout(u) : disputes'[j] = disputes[j]
        BY <1>1, <1>3, <2>3 DEF DisputesAbout
  <2>7. QED BY <1>0, <1>2, <1>3, <2>1, <2>5, <2>6 DEF ConfirmedSurvived, Survived
<1>10. QED
  <2>1. FairVotes' /\ RevokedMeansGuilty' /\ ConfirmedSurvived' => VerdictMatchesVotes'
        BY DEF VerdictMatchesVotes, FairVotes, RevokedMeansGuilty, ConfirmedSurvived,
               Survived, Guilty
  <2>2. QED BY <1>7, <1>8, <1>9, <2>1

\* Every step keeps it.
LEMMA NextVotes ==
  ASSUME TypeOK, TypeOK', LeafInvariant, DisputeInvariant, VerdictMatchesVotes,
         [Next]_vars
  PROVE  VerdictMatchesVotes'
<1>0. OpenMeansDisputed /\ OpenIsLast /\ now \in Nat /\ now' \in Nat
      /\ DOMAIN records \subseteq 1 .. MaxRecords
      BY InputAssumption DEF DisputeInvariant, TypeOK, ChainTypes, TargetTypes
<1>1. CASE Idles
  <2>1. SamePosted BY <1>1, SamePostedCases DEF Idles, targetVars, TypeOK
  <2>2. \A t \in Target : KeepsTarget(t)
        BY <1>1, <2>1, TargetKept DEF Idles, targetVars
  <2>3. UNCHANGED <<disputes, records>> /\ now' >= now BY <1>1 DEF Idles, targetVars
  <2>4. QED BY <1>0, <2>2, <2>3, VotesKept DEF KeepsTarget
<1>2. CASE Submits
  <2>1. UNCHANGED <<disputes, now>> BY <1>2 DEF Submits
  <2>2. \A r \in DOMAIN records' :
          records'[r].state = "Confirmed" =>
            /\ r \in DOMAIN records
            /\ records'[r].submittedAt = records[r].submittedAt
            /\ records[r].state = "Confirmed"
        BY <1>2 DEF Submits
  <2>3. QED BY <1>0, <1>2, <2>1, <2>2, VotesKept DEF Submits, KeepsTarget
<1>3. ASSUME NEW i \in 1 .. MaxRecords, Confirms(i) PROVE VerdictMatchesVotes'
  <2>1. PICK t : t = RecordTarget(i) OBVIOUS
  <2>2. /\ t \in Target /\ TargetState(t) = "Provisional"
        /\ TargetState(t)' = "Confirmed"
        /\ SamePosted /\ \A u \in Target : u # t => KeepsTarget(u)
        /\ i \in DOMAIN records
        /\ now >= records[i].submittedAt + challengePeriod
        /\ UNCHANGED <<disputes, now>>
        BY <1>3, <2>1 DEF Confirms
  <2>3. Posted(t) BY <2>1, <2>2 DEF Posted, RecordTarget
  <2>4. \A j \in DisputesAbout(t) : FoundSpurious(disputes[j])
    <3>1. \A j \in DisputesAbout(t) : disputes[j].resolved
          BY <1>0, <2>2 DEF DisputesAbout, OpenDisputes, OpenMeansDisputed
    <3>2. \A j \in DisputesAbout(t) : ~Guilty(disputes[j])
          BY <2>2, <2>3, VerdictParts DEF RevokedMeansGuilty
    <3>3. QED BY <3>1, <3>2 DEF Guilty, FoundFraud, Expired, FoundSpurious
  <2>5. Survived(i) BY <2>1, <2>2, <2>4 DEF Survived
  <2>6. \A u \in Target :
          Posted(u) => /\ TargetRelay(u)' = TargetRelay(u)
                       /\ TargetState(u)' = "Revoked" <=> TargetState(u) = "Revoked"
        BY <2>2, PostedKeeps DEF KeepsTarget
  <2>7. \A u \in Target : Posted(u)' <=> Posted(u) BY <2>2, PostedKeeps
  <2>8. \A r \in DOMAIN records' :
          records'[r].state = "Confirmed" =>
            /\ r \in DOMAIN records
            /\ records'[r].submittedAt = records[r].submittedAt
            /\ records[r].state = "Confirmed" \/ Survived(r)
    <3> SUFFICES ASSUME NEW r \in DOMAIN records', records'[r].state = "Confirmed"
                 PROVE  /\ r \in DOMAIN records
                        /\ records'[r].submittedAt = records[r].submittedAt
                        /\ records[r].state = "Confirmed" \/ Survived(r)
        OBVIOUS
    <3>1. r \in DOMAIN records /\ records'[r].submittedAt = records[r].submittedAt
          BY <2>2 DEF SamePosted, SameRecord
    <3>2. PICK u : u = RecordTarget(r) OBVIOUS
    <3>3. u \in Target /\ u[1] = 0 /\ u[2] = r /\ Posted(u)
          BY <1>0, <3>1, <3>2, TargetCases DEF RecordTarget, Posted
    <3>4. CASE u # t BY <2>2, <3>1, <3>3, <3>4 DEF KeepsTarget, TargetState
    <3>5. CASE u = t BY <2>1, <2>5, <3>1, <3>3, <3>5 DEF RecordTarget
    <3>6. QED BY <3>1, <3>4, <3>5
  <2>9. QED BY <1>0, <2>2, <2>6, <2>7, <2>8, VotesKept
<1>4. ASSUME NEW b, ConfirmsBatch(b) PROVE VerdictMatchesVotes'
  <2>1. /\ SamePosted
        /\ \A t \in Target : Posted(t) => TargetState(t)' = TargetState(t)
        /\ UNCHANGED <<disputes, now, records>>
        BY <1>4 DEF ConfirmsBatch
  <2>2. \A u \in Target : Posted(u) => TargetRelay(u)' = TargetRelay(u)
        BY <2>1, PostedKeeps
  <2>3. \A u \in Target : Posted(u)' <=> Posted(u) BY <2>1, PostedKeeps
  <2>4. QED BY <1>0, <2>1, <2>2, <2>3, VotesKept
<1>5. ASSUME NEW t \in Target, NEW a \in Address, NEW bond \in Nat, Opens(t, a, bond)
      PROVE  VerdictMatchesVotes'
      BY <1>5, VotesOpened
<1>6. ASSUME NEW i \in DOMAIN disputes, NEW d \in Dispute,
             Counts(i, d) \/ Convicts(i, d) \/ Acquits(i, d) \/ Lapses(i, d)
      PROVE  VerdictMatchesVotes'
      BY <1>0, <1>6, EachRulingSound, VotesRuled
<1>7. QED BY <1>0, <1>1, <1>2, <1>3, <1>4, <1>5, <1>6, StepShapes

-----------------------------------------------------------------------------
(* The theorems.                                                           *)

\* The inductive invariant of the adjudication.
AdjudicationInv ==
  TypeOK /\ LeafInvariant /\ DisputeInvariant /\ VerdictMatchesVotes

\* Nothing was posted or disputed at first.
LEMMA InitAdjudication == Init => AdjudicationInv
<1> SUFFICES ASSUME Init PROVE AdjudicationInv OBVIOUS
<1>1. TypeOK BY InitTypes
<1>2. /\ records = <<>> /\ batches = <<>> /\ disputes = <<>>
      /\ batchLeafState =
           [b \in 1 .. MaxBatches |-> [l \in 1 .. MaxLeaves |-> "Undisputed"]]
      /\ batchOpenLeafDisputes = [b \in 1 .. MaxBatches |-> 0]
      /\ relayActiveDisputes = [a \in Address |-> 0]
      BY DEF Init
<1>3. DOMAIN records = {} /\ DOMAIN batches = {} /\ DOMAIN disputes = {}
      BY <1>2
<1>4. \A b \in 1 .. MaxBatches : LeavesIn(batchLeafState, b, "Disputed") = {}
      BY <1>2 DEF LeavesIn
<1>5. OpenDisputes = {} /\ \A t : DisputesAbout(t) = {}
      BY <1>3 DEF OpenDisputes, DisputesAbout
<1>6. \A t \in Target : ~Posted(t) BY <1>3 DEF Posted
<1>7. Cardinality({}) = 0 BY FS_EmptySet
<1>8. LeafInvariant
      BY <1>2, <1>3, <1>4, <1>7
      DEF LeafInvariant, LeafCounters, BatchAudit, LeavesUntouched
<1>9. DisputeInvariant
  <2>1. \A a : RelayCases(a) = {} BY <1>5 DEF RelayCases
  <2>2. QED BY <1>2, <1>5, <1>6, <1>7, <2>1
        DEF DisputeInvariant, RelayCounters, OpenMeansDisputed, OneOpenEach,
            DisputedMeansOpen, OpenIsLast
<1>10. VerdictMatchesVotes BY <1>3, <1>6 DEF VerdictMatchesVotes
<1>11. QED BY <1>1, <1>8, <1>9, <1>10 DEF AdjudicationInv

\* Every step preserves it.
LEMMA NextAdjudication == AdjudicationInv /\ [Next]_vars => AdjudicationInv'
<1> SUFFICES ASSUME AdjudicationInv, [Next]_vars PROVE AdjudicationInv' OBVIOUS
<1>1. TypeOK /\ LeafInvariant /\ DisputeInvariant /\ VerdictMatchesVotes
      /\ OpenMeansDisputed
      BY DEF AdjudicationInv, DisputeInvariant
<1>2. TypeOK' BY <1>1, NextTypes
<1>3. LeafInvariant' BY <1>1, NextLeaves
<1>4. DisputeInvariant' BY <1>1, NextDisputes
<1>5. VerdictMatchesVotes' BY <1>1, <1>2, NextVotes
<1>6. QED BY <1>2, <1>3, <1>4, <1>5 DEF AdjudicationInv

\* It holds in every reachable state.
LEMMA Adjudicated == Spec => []AdjudicationInv
BY InitAdjudication, NextAdjudication, PTL DEF Spec

\* The counters that block exits and finalization count the open disputes, and
\* a target is under dispute exactly while one dispute about it is open.
THEOREM Counters == Spec => []DisputeCounters
<1>1. AdjudicationInv => DisputeCounters
      BY CounterParts DEF AdjudicationInv, LeafInvariant, DisputeInvariant
<1>2. QED BY <1>1, Adjudicated, PTL

\* The audit view of a batch is right, and no leaf of a confirmed batch is under
\* dispute.
THEOREM Audit == Spec => []BatchAudit
<1>1. AdjudicationInv => BatchAudit BY DEF AdjudicationInv, LeafInvariant
<1>2. QED BY <1>1, Adjudicated, PTL

\* Revocations, confirmations and votes tell the same story.
THEOREM Verdicts == Spec => []VerdictMatchesVotes
<1>1. AdjudicationInv => VerdictMatchesVotes BY DEF AdjudicationInv
<1>2. QED BY <1>1, Adjudicated, PTL

-----------------------------------------------------------------------------
(* Exposure.                                                               *)

\* The verifiers that have vouched for a target in a resolved dispute, and the
\* targets a verifier is listed for.
Vouched(t) ==
  UNION {disputes[i].validAttesters : i \in DisputesAbout(t) \ OpenDisputes}
ListedFor(v) == {t \in Target : v \in targetValidList[t]}

\* The target is posted and undecided.
Undecided(t) == Posted(t) /\ ~Settled(t)

\* The parts of ExposureLedger, and that nobody is listed before there is
\* anything to dispute.
ListingCounts ==
  \A v \in Address : verifierLiveExposures[v] = Cardinality(ListedFor(v))
ListsVouched ==
  \A t \in Target : targetValidList[t] = IF Undecided(t) THEN Vouched(t) ELSE {}
HasIsList == \A t \in Target : Undecided(t) => targetValidHas[t] = targetValidList[t]
ExposedRemembered ==
  \A b \in 1 .. MaxBatches, l \in 1 .. MaxLeaves :
    targetValidList[LeafTarget(b, l)] # {} => l \in exposedLeaves[b]
NobodyListedEarly == \A t \in Target : ~Posted(t) => targetValidHas[t] = {}
ExposureInvariant ==
  /\ ListingCounts /\ ListsVouched /\ HasIsList /\ ExposedRemembered
  /\ NobodyListedEarly

\* The first four are all of it.
LEMMA ExposureParts ==
  ExposureLedger <=> ListingCounts /\ ListsVouched /\ HasIsList /\ ExposedRemembered
BY DEF ExposureLedger, ListingCounts, ListedFor, ListsVouched, Vouched, Undecided,
       HasIsList, ExposedRemembered

\* There are finitely many targets.
LEMMA FiniteTargets == IsFiniteSet(Target)
<1> DEFINE R == {RecordTarget(i) : i \in 1 .. MaxRecords}
           L == {LeafTarget(b, l) : b \in 1 .. MaxBatches, l \in 1 .. MaxLeaves}
<1>1. /\ IsFiniteSet(1 .. MaxRecords) /\ IsFiniteSet(1 .. MaxBatches)
      /\ IsFiniteSet(1 .. MaxLeaves)
      BY InputAssumption, FS_Interval
<1>2. IsFiniteSet(R)
  <2> DEFINE f == [i \in 1 .. MaxRecords |-> RecordTarget(i)]
  <2>1. f \in Surjection(1 .. MaxRecords, R) BY DEF Surjection
  <2> HIDE DEF f, R
  <2>2. QED BY <1>1, <2>1, FS_Surjection
<1>3. IsFiniteSet(L)
  <2> DEFINE P == (1 .. MaxBatches) \X (1 .. MaxLeaves)
             f == [p \in P |-> LeafTarget(p[1], p[2])]
  <2>1. IsFiniteSet(P) BY <1>1, FS_Product
  <2>2. f \in Surjection(P, L)
    <3>1. ASSUME NEW t \in L PROVE \E p \in P : f[p] = t
      <4>1. PICK b \in 1 .. MaxBatches, l \in 1 .. MaxLeaves : t = LeafTarget(b, l)
            OBVIOUS
      <4>2. <<b, l>> \in P /\ f[<<b, l>>] = LeafTarget(b, l) OBVIOUS
      <4>3. QED BY <4>1, <4>2
    <3>2. f \in [P -> L] OBVIOUS
    <3>3. QED BY <3>1, <3>2 DEF Surjection
  <2> HIDE DEF f, L, P
  <2>3. QED BY <2>1, <2>2, FS_Surjection
<1>4. Target = R \cup L BY DEF Target
<1> HIDE DEF R, L
<1>5. QED BY <1>2, <1>3, <1>4, FS_Union

\* Whoever is listed for no target has no exposure, and the counters are sizes.
LEMMA ListedFinite ==
  \A v : IsFiniteSet(ListedFor(v)) /\ Cardinality(ListedFor(v)) \in Nat
<1>1. \A v : ListedFor(v) \subseteq Target BY DEF ListedFor
<1>2. QED BY <1>1, FiniteTargets, FS_Subset, FS_CardinalityType

\* The counters are right after the list of one target was replaced, if each
\* changes by what the replacement adds or takes away.
LEMMA ListReplaced ==
  ASSUME TypeOK, ListingCounts, NEW t \in Target, NEW L,
         targetValidList' = [targetValidList EXCEPT ![t] = L],
         \A v \in Address :
           verifierLiveExposures'[v] =
             IF v \in L /\ v \notin targetValidList[t]
             THEN verifierLiveExposures[v] + 1
             ELSE IF v \notin L /\ v \in targetValidList[t]
             THEN verifierLiveExposures[v] - 1
             ELSE verifierLiveExposures[v]
  PROVE  ListingCounts'
<1> SUFFICES ASSUME NEW v \in Address
             PROVE  verifierLiveExposures'[v] = Cardinality(ListedFor(v)')
    BY DEF ListingCounts
<1>1. /\ \A u \in Target :
           targetValidList'[u] = IF u = t THEN L ELSE targetValidList[u]
      BY DEF TypeOK, ExposureTypes
<1>2. /\ verifierLiveExposures[v] = Cardinality(ListedFor(v))
      /\ IsFiniteSet(ListedFor(v)) /\ Cardinality(ListedFor(v)) \in Nat
      BY ListedFinite DEF ListingCounts
<1>3. v \in L => ListedFor(v)' = ListedFor(v) \cup {t} BY <1>1 DEF ListedFor
<1>4. v \notin L => ListedFor(v)' = ListedFor(v) \ {t} BY <1>1 DEF ListedFor
<1>5. t \in ListedFor(v) <=> v \in targetValidList[t] BY DEF ListedFor
<1>6. /\ Cardinality(ListedFor(v) \cup {t}) =
           IF t \in ListedFor(v) THEN Cardinality(ListedFor(v))
           ELSE Cardinality(ListedFor(v)) + 1
      /\ Cardinality(ListedFor(v) \ {t}) =
           IF t \in ListedFor(v) THEN Cardinality(ListedFor(v)) - 1
           ELSE Cardinality(ListedFor(v))
      BY <1>2, FS_AddElement, FS_RemoveElement
<1>7. QED BY <1>2, <1>3, <1>4, <1>5, <1>6

\* What a step does to Vouched.
LEMMA VouchedSteps ==
  ASSUME TypeOK
  PROVE  /\ UNCHANGED disputes => \A u : Vouched(u)' = Vouched(u)
         /\ \A n : \A t \in Target :
              Lists(t, n) => \A u : Vouched(u)' = Vouched(u)
         /\ \A i \in DOMAIN disputes, d \in Dispute :
              Rules(i, d) =>
                \A u : Vouched(u)' = IF d.resolved /\ u = d.target
                                     THEN Vouched(u) \cup d.validAttesters
                                     ELSE Vouched(u)
<1>1. UNCHANGED disputes => \A u : Vouched(u)' = Vouched(u)
      BY DEF Vouched, DisputesAbout, OpenDisputes
<1>2. ASSUME NEW t \in Target, NEW n, Lists(t, n), NEW u
      PROVE  Vouched(u)' = Vouched(u)
  <2>1. (DisputesAbout(u) \ OpenDisputes)' = DisputesAbout(u) \ OpenDisputes
        BY <1>2 DEF Lists, DisputesAbout
  <2>2. \A j \in DisputesAbout(u) \ OpenDisputes : disputes'[j] = disputes[j]
        BY <1>2 DEF Lists, DisputesAbout
  <2>3. QED BY <2>1, <2>2 DEF Vouched
<1>3. ASSUME NEW i \in DOMAIN disputes, NEW d \in Dispute, Rules(i, d), NEW u
      PROVE  Vouched(u)' = IF d.resolved /\ u = d.target
                           THEN Vouched(u) \cup d.validAttesters ELSE Vouched(u)
  <2>1. /\ DOMAIN disputes' = DOMAIN disputes
        /\ disputes'[i] = d /\ d.target = disputes[i].target
        /\ \A j \in DOMAIN disputes : j # i => disputes'[j] = disputes[j]
        /\ OpenDisputes' = IF d.resolved THEN OpenDisputes \ {i} ELSE OpenDisputes
        /\ i \in OpenDisputes
        /\ DisputesAbout(u)' = DisputesAbout(u)
        BY <1>3, Ruled
  <2> DEFINE old == DisputesAbout(u) \ OpenDisputes
  <2>2. /\ i \notin old
        /\ old' = IF d.resolved /\ u = d.target THEN old \cup {i} ELSE old
        BY <2>1 DEF DisputesAbout
  <2>3. \A j \in old : disputes'[j] = disputes[j] BY <2>1 DEF DisputesAbout
  <2>4. Vouched(u)' = UNION {disputes'[j].validAttesters : j \in old'}
        BY DEF Vouched
  <2>5. Vouched(u) = UNION {disputes[j].validAttesters : j \in old}
        BY DEF Vouched
  <2> HIDE DEF old
  <2>6. UNION {disputes'[j].validAttesters : j \in old} =
          UNION {disputes[j].validAttesters : j \in old}
        BY <2>3
  <2>7. CASE d.resolved /\ u = d.target
    <3>1. old' = old \cup {i} BY <2>2, <2>7
    <3>2. UNION {disputes'[j].validAttesters : j \in old \cup {i}} =
            (UNION {disputes'[j].validAttesters : j \in old}) \cup d.validAttesters
          BY <2>1
    <3>3. QED BY <2>4, <2>5, <2>6, <2>7, <3>1, <3>2
  <2>8. CASE ~ (d.resolved /\ u = d.target)
        BY <2>2, <2>4, <2>5, <2>6, <2>8
  <2>9. QED BY <2>7, <2>8
<1>4. QED BY <1>1, <1>2, <1>3

\* A step that changes no list keeps the invariant, if no target is decided and
\* nobody has vouched for one that is new.
LEMMA ExposureKept ==
  ASSUME TypeOK, ExposureInvariant, UNCHANGED exposureVars,
         \A t \in Target : Posted(t) => Posted(t)' /\ (Settled(t)' <=> Settled(t)),
         \A t \in Target : Posted(t)' /\ ~Posted(t) => ~Settled(t)',
         \A u : Vouched(u)' = Vouched(u)
  PROVE  ExposureInvariant'
<1>1. UNCHANGED <<targetValidList, targetValidHas, verifierLiveExposures, exposedLeaves>>
      BY DEF exposureVars
<1>2. \A t \in Target : ~Posted(t) => Vouched(t) = {} /\ targetValidList[t] = {}
  <2> SUFFICES ASSUME NEW t \in Target, ~Posted(t)
               PROVE  Vouched(t) = {} /\ targetValidList[t] = {}
      OBVIOUS
  <2>1. DisputesAbout(t) = {} BY AboutPosted DEF DisputesAbout
  <2>2. Vouched(t) = {} BY <2>1 DEF Vouched
  <2>3. QED BY <2>2 DEF ExposureInvariant, ListsVouched, Undecided
<1>3. ListingCounts' BY <1>1 DEF ExposureInvariant, ListingCounts, ListedFor
<1>4. ListsVouched'
  <2> SUFFICES ASSUME NEW t \in Target
               PROVE  targetValidList[t] = IF Undecided(t)' THEN Vouched(t) ELSE {}
      BY <1>1 DEF ListsVouched
  <2>1. CASE Posted(t)
    <3>1. Undecided(t)' <=> Undecided(t) BY <2>1 DEF Undecided
    <3>2. QED BY <3>1 DEF ExposureInvariant, ListsVouched
  <2>2. CASE ~Posted(t) BY <1>2, <2>2
  <2>3. QED BY <2>1, <2>2
<1>5. HasIsList'
  <2> SUFFICES ASSUME NEW t \in Target, Undecided(t)'
               PROVE  targetValidHas[t] = targetValidList[t]
      BY <1>1 DEF HasIsList
  <2>1. CASE Posted(t)
    <3>1. Undecided(t) BY <2>1 DEF Undecided
    <3>2. QED BY <3>1 DEF ExposureInvariant, HasIsList
  <2>2. CASE ~Posted(t) BY <1>2, <2>2 DEF ExposureInvariant, NobodyListedEarly
  <2>3. QED BY <2>1, <2>2
<1>6. ExposedRemembered' BY <1>1 DEF ExposureInvariant, ExposedRemembered
<1>7. NobodyListedEarly'
      BY <1>1 DEF ExposureInvariant, NobodyListedEarly
<1>8. QED BY <1>3, <1>4, <1>5, <1>6, <1>7 DEF ExposureInvariant

\* A step that replaces the list of one target keeps it, if the new list is what
\* it should be and no other target changes.
LEMMA ExposureReplaced ==
  ASSUME TypeOK, ExposureInvariant, NEW t \in Target, Posted(t), SamePosted,
         \A u \in Target : u # t => KeepsTarget(u),
         \A u : u # t => Vouched(u)' = Vouched(u),
         NEW L, L = (IF Settled(t)' THEN {} ELSE Vouched(t)'),
         targetValidList' = [targetValidList EXCEPT ![t] = L],
         \A v \in Address :
           verifierLiveExposures'[v] =
             IF v \in L /\ v \notin targetValidList[t]
             THEN verifierLiveExposures[v] + 1
             ELSE IF v \notin L /\ v \in targetValidList[t]
             THEN verifierLiveExposures[v] - 1
             ELSE verifierLiveExposures[v],
         \A u \in Target : u # t => targetValidHas'[u] = targetValidHas[u],
         ~Settled(t)' => targetValidHas'[t] = L,
         \A b \in 1 .. MaxBatches : exposedLeaves[b] \subseteq exposedLeaves'[b],
         L # {} /\ t[1] # 0 => t[3] \in exposedLeaves'[t[2]]
  PROVE  ExposureInvariant'
<1>1. \A u \in Target :
        targetValidList'[u] = IF u = t THEN L ELSE targetValidList[u]
      BY DEF TypeOK, ExposureTypes
<1>2. Posted(t)' /\ \A u \in Target : Posted(u)' <=> Posted(u) BY PostedKeeps
<1>3. ListingCounts'
  <2>1. ListingCounts BY DEF ExposureInvariant
  <2>2. QED BY <2>1, ListReplaced
<1>4. ListsVouched'
  <2> SUFFICES ASSUME NEW u \in Target
               PROVE  targetValidList'[u] = IF Undecided(u)' THEN Vouched(u)' ELSE {}
      BY DEF ListsVouched
  <2>1. CASE u = t BY <1>1, <1>2, <2>1 DEF Undecided
  <2>2. CASE u # t
    <3>1. Undecided(u)' <=> Undecided(u) BY <2>2 DEF Undecided, KeepsTarget
    <3>2. QED BY <1>1, <2>2, <3>1 DEF ExposureInvariant, ListsVouched
  <2>3. QED BY <2>1, <2>2
<1>5. HasIsList'
  <2> SUFFICES ASSUME NEW u \in Target, Undecided(u)'
               PROVE  targetValidHas'[u] = targetValidList'[u]
      BY DEF HasIsList
  <2>1. CASE u = t BY <1>1, <2>1 DEF Undecided
  <2>2. CASE u # t
    <3>1. Undecided(u) BY <2>2 DEF Undecided, KeepsTarget
    <3>2. QED BY <1>1, <2>2, <3>1 DEF ExposureInvariant, HasIsList
  <2>3. QED BY <2>1, <2>2
<1>6. ExposedRemembered'
  <2> SUFFICES ASSUME NEW b \in 1 .. MaxBatches, NEW l \in 1 .. MaxLeaves,
                      NEW u, u = LeafTarget(b, l), targetValidList'[u] # {}
               PROVE  l \in exposedLeaves'[b]
      BY DEF ExposedRemembered, LeafTarget
  <2>1. u \in Target /\ u[1] # 0 /\ u[2] = b /\ u[3] = l
        BY TargetCases DEF LeafTarget
  <2>2. CASE u = t BY <1>1, <2>1, <2>2
  <2>3. CASE u # t BY <1>1, <2>1, <2>3 DEF ExposureInvariant, ExposedRemembered
  <2>4. QED BY <2>2, <2>3
<1>7. NobodyListedEarly'
      BY <1>2 DEF ExposureInvariant, NobodyListedEarly
<1>8. QED BY <1>3, <1>4, <1>5, <1>6, <1>7 DEF ExposureInvariant

\* Releasing the list of a target that is decided now.
LEMMA ExposureReleased ==
  ASSUME TypeOK, ExposureInvariant, NEW t \in Target, Posted(t), SamePosted,
         Settled(t)',
         \A u \in Target : u # t => KeepsTarget(u),
         \A u : u # t => Vouched(u)' = Vouched(u),
         ReleaseExposures(t), UNCHANGED <<targetValidHas, exposedLeaves>>
  PROVE  ExposureInvariant'
<1>1. PICK L : L = {} OBVIOUS
<1>2. /\ targetValidList' = [targetValidList EXCEPT ![t] = L]
      /\ \A v \in Address :
           verifierLiveExposures'[v] =
             IF v \in targetValidList[t] THEN verifierLiveExposures[v] - 1
             ELSE verifierLiveExposures[v]
      BY <1>1 DEF ReleaseExposures, Released
<1>3. L = (IF Settled(t)' THEN {} ELSE Vouched(t)') BY <1>1
<1>4. QED BY <1>1, <1>2, <1>3, ExposureReplaced

\* Remembering a leaf forgets none.
LEMMA Remembering ==
  ASSUME TypeOK, NEW t \in Target, exposedLeaves' = RememberExposedLeaf(t)
  PROVE  /\ \A b \in 1 .. MaxBatches : exposedLeaves[b] \subseteq exposedLeaves'[b]
         /\ t[1] # 0 => t[3] \in exposedLeaves'[t[2]]
<1>1. exposedLeaves \in [1 .. MaxBatches -> SUBSET (1 .. MaxLeaves)]
      BY DEF TypeOK, ExposureTypes
<1>2. CASE t[1] = 0
  <2>1. UNCHANGED exposedLeaves BY <1>2 DEF RememberExposedLeaf
  <2>2. QED BY <1>2, <2>1
<1>3. CASE t[1] # 0
  <2>1. PICK b, l : b = t[2] /\ l = t[3] OBVIOUS
  <2>2. b \in 1 .. MaxBatches BY <1>3, <2>1, TargetCases
  <2>3. exposedLeaves' = [exposedLeaves EXCEPT ![b] = @ \cup {l}]
        BY <1>3, <2>1 DEF RememberExposedLeaf
  <2>4. QED BY <1>1, <2>1, <2>2, <2>3
<1>4. QED BY <1>2, <1>3

\* A fraud verdict lists its voters and releases them at once, together with
\* those of the earlier disputes.
LEMMA ExposureConvicts ==
  ASSUME TypeOK, ExposureInvariant, OpenMeansDisputed, BatchAudit,
         NEW i \in DOMAIN disputes, NEW d \in Dispute, Convicts(i, d)
  PROVE  ExposureInvariant'
<1>1. PICK t, L : t = d.target /\ L = {} OBVIOUS
<1>2. /\ Rules(i, d) /\ SamePosted
      /\ \A u \in Target : u # t => KeepsTarget(u)
      /\ Settled(t)'
      /\ i \in OpenDisputes /\ t = disputes[i].target
      BY <1>1 DEF Convicts, Rules
<1>3. t \in Target /\ Posted(t) /\ ~Settled(t) BY <1>2, OpenUnsettled
<1>4. \A u : u # t => Vouched(u)' = Vouched(u) BY <1>1, <1>2, VouchedSteps
<1>5. targetValidHas[t] = targetValidList[t]
      BY <1>3 DEF ExposureInvariant, HasIsList, Undecided
<1>6. /\ targetValidList' = [targetValidList EXCEPT ![t] = L]
      /\ targetValidHas' = [targetValidHas EXCEPT ![t] = @ \cup d.validAttesters]
      /\ exposedLeaves' = RememberExposedLeaf(t)
      /\ verifierLiveExposures' =
           Released(Exposed(verifierLiveExposures,
                            NewlyExposed(t, d.validAttesters)),
                    WrongSide(d))
      BY <1>1 DEF Convicts
<1>7. \A u \in Target : u # t => targetValidHas'[u] = targetValidHas[u]
      BY <1>6 DEF TypeOK, ExposureTypes
<1>8. ASSUME NEW v \in Address
      PROVE  verifierLiveExposures'[v] =
               IF v \in L /\ v \notin targetValidList[t]
               THEN verifierLiveExposures[v] + 1
               ELSE IF v \notin L /\ v \in targetValidList[t]
               THEN verifierLiveExposures[v] - 1
               ELSE verifierLiveExposures[v]
  <2> DEFINE new == NewlyExposed(t, d.validAttesters)
             live == Exposed(verifierLiveExposures, new)
  <2>1. WrongSide(d) = targetValidList[t] \cup new BY <1>1 DEF WrongSide
  <2>2. v \in new => v \notin targetValidList[t] BY <1>5 DEF NewlyExposed
  <2>3. live[v] = IF v \in new THEN verifierLiveExposures[v] + 1
                  ELSE verifierLiveExposures[v]
        BY DEF Exposed
  <2> HIDE DEF new, live
  <2>4. verifierLiveExposures'[v] =
          IF v \in targetValidList[t] \cup new THEN live[v] - 1 ELSE live[v]
        BY <1>6, <2>1 DEF Released, new, live
  <2>5. verifierLiveExposures[v] \in Nat BY DEF TypeOK, ExposureTypes
  <2>6. QED BY <1>1, <2>2, <2>3, <2>4, <2>5
<1>9. \A b \in 1 .. MaxBatches : exposedLeaves[b] \subseteq exposedLeaves'[b]
      BY <1>3, <1>6, Remembering
<1>10. L = (IF Settled(t)' THEN {} ELSE Vouched(t)') BY <1>1, <1>2
<1>11. ~ (L # {} /\ t[1] # 0) /\ ~ (~Settled(t)') BY <1>1, <1>2
<1>12. QED
       BY <1>2, <1>3, <1>4, <1>6, <1>7, <1>8, <1>9, <1>10, <1>11, ExposureReplaced

\* A spurious verdict lists its voters once.
LEMMA ExposureAcquits ==
  ASSUME TypeOK, ExposureInvariant, OpenMeansDisputed, BatchAudit,
         NEW i \in DOMAIN disputes, NEW d \in Dispute, Acquits(i, d)
  PROVE  ExposureInvariant'
<1>1. PICK t, new, L : /\ t = d.target
                       /\ new = NewlyExposed(t, d.validAttesters)
                       /\ L = targetValidList[t] \cup new
      OBVIOUS
<1>2. /\ Rules(i, d) /\ SamePosted /\ d.resolved
      /\ \A u \in Target : u # t => KeepsTarget(u)
      /\ ~Settled(t)'
      /\ i \in OpenDisputes /\ t = disputes[i].target
      BY <1>1 DEF Acquits, Rules
<1>3. t \in Target /\ Posted(t) /\ ~Settled(t) BY <1>2, OpenUnsettled
<1>4. /\ \A u : u # t => Vouched(u)' = Vouched(u)
      /\ Vouched(t)' = Vouched(t) \cup d.validAttesters
      BY <1>1, <1>2, VouchedSteps
<1>5. targetValidHas[t] = targetValidList[t] /\ targetValidList[t] = Vouched(t)
      BY <1>3 DEF ExposureInvariant, HasIsList, ListsVouched, Undecided
<1>6. /\ targetValidList' = [targetValidList EXCEPT ![t] = L]
      /\ targetValidHas' = [targetValidHas EXCEPT ![t] = @ \cup new]
      /\ exposedLeaves' = RememberExposedLeaf(t)
      /\ verifierLiveExposures' = Exposed(verifierLiveExposures, new)
      BY <1>1 DEF Acquits
<1>7. L = (IF Settled(t)' THEN {} ELSE Vouched(t)')
      BY <1>1, <1>2, <1>4, <1>5 DEF NewlyExposed
<1>8. /\ \A u \in Target : u # t => targetValidHas'[u] = targetValidHas[u]
      /\ targetValidHas'[t] = L
      BY <1>1, <1>3, <1>5, <1>6 DEF TypeOK, ExposureTypes
<1>9. \A v \in Address :
        verifierLiveExposures'[v] =
          IF v \in L /\ v \notin targetValidList[t]
          THEN verifierLiveExposures[v] + 1
          ELSE IF v \notin L /\ v \in targetValidList[t]
          THEN verifierLiveExposures[v] - 1
          ELSE verifierLiveExposures[v]
      BY <1>1, <1>5, <1>6 DEF Exposed, NewlyExposed
<1>10. /\ \A b \in 1 .. MaxBatches : exposedLeaves[b] \subseteq exposedLeaves'[b]
       /\ t[1] # 0 => t[3] \in exposedLeaves'[t[2]]
       BY <1>3, <1>6, Remembering
<1>11. QED
       BY <1>2, <1>3, <1>4, <1>6, <1>7, <1>8, <1>9, <1>10, ExposureReplaced

\* Confirming a batch releases the lists of all its leaves: a leaf with a list
\* was remembered.
LEMMA ExposureConfirms ==
  ASSUME TypeOK, ExposureInvariant, NEW b \in 1 .. MaxBatches, ConfirmsBatch(b)
  PROVE  ExposureInvariant'
<1>1. /\ SamePosted
      /\ \A t \in Target :
           Posted(t) => (Settled(t)' <=> (Settled(t) \/ (t[1] # 0 /\ t[2] = b)))
      /\ UNCHANGED <<disputes, targetValidHas>>
      BY DEF ConfirmsBatch
<1>2. PICK R : R = {LeafTarget(b, l) : l \in exposedLeaves[b]} OBVIOUS
<1>3. \A t \in R : t \in Target /\ t[1] # 0 /\ t[2] = b
  <2>1. exposedLeaves[b] \subseteq 1 .. MaxLeaves BY DEF TypeOK, ExposureTypes
  <2>2. QED BY <1>2, <2>1, TargetCases DEF LeafTarget
<1>4. \A t \in Target :
        t[1] # 0 /\ t[2] = b /\ targetValidList[t] # {} => t \in R
      BY <1>2, TargetCases DEF ExposureInvariant, ExposedRemembered
<1>5. /\ \A t \in Target :
           targetValidList'[t] = IF t \in R THEN {} ELSE targetValidList[t]
      /\ \A v \in Address :
           verifierLiveExposures'[v] =
             verifierLiveExposures[v]
               - Cardinality({t \in R : v \in targetValidList[t]})
      /\ exposedLeaves' = [exposedLeaves EXCEPT ![b] = {}]
  <2>1. finalizeBatch(b) BY DEF ConfirmsBatch
  <2>2. verifierLiveExposures \in [Address -> Nat] BY DEF TypeOK, ExposureTypes
  <2>3. /\ targetValidList' = [t \in Target |-> IF t \in R THEN {}
                                                 ELSE targetValidList[t]]
        /\ verifierLiveExposures' =
             Minus(verifierLiveExposures,
                   [v \in Address |-> Cardinality({t \in R : v \in targetValidList[t]})])
        /\ exposedLeaves' = [exposedLeaves EXCEPT ![b] = {}]
        BY <1>2, <2>1 DEF finalizeBatch
  <2>4. QED BY <2>2, <2>3 DEF Minus
<1>6. ListingCounts'
  <2> SUFFICES ASSUME NEW v \in Address
               PROVE  verifierLiveExposures'[v] = Cardinality(ListedFor(v)')
      BY DEF ListingCounts
  <2>1. PICK H : H = {t \in R : v \in targetValidList[t]} OBVIOUS
  <2>2. ListedFor(v) \cap H = H BY <1>3, <2>1 DEF ListedFor
  <2>3. ListedFor(v)' = ListedFor(v) \ H BY <1>5, <2>1 DEF ListedFor
  <2>4. Cardinality(ListedFor(v) \ H)
          = Cardinality(ListedFor(v)) - Cardinality(ListedFor(v) \cap H)
        BY ListedFinite, FS_Difference
  <2>5. verifierLiveExposures[v] = Cardinality(ListedFor(v))
        BY DEF ExposureInvariant, ListingCounts
  <2>6. QED BY <1>5, <2>1, <2>2, <2>3, <2>4, <2>5
<1>7. \A t \in Target : Posted(t)' <=> Posted(t) BY <1>1, PostedKeeps
<1>8. \A u : Vouched(u)' = Vouched(u) BY <1>1, VouchedSteps
<1>9. ListsVouched'
  <2> SUFFICES ASSUME NEW t \in Target
               PROVE  targetValidList'[t] = IF Undecided(t)' THEN Vouched(t) ELSE {}
      BY <1>8 DEF ListsVouched
  <2>1. targetValidList[t] = IF Undecided(t) THEN Vouched(t) ELSE {}
        BY DEF ExposureInvariant, ListsVouched
  <2>2. CASE Posted(t) /\ t[1] # 0 /\ t[2] = b
    <3>1. ~Undecided(t)' BY <1>1, <2>2 DEF Undecided
    <3>2. targetValidList'[t] = {} BY <1>4, <1>5, <2>2
    <3>3. QED BY <3>1, <3>2
  <2>3. CASE ~Posted(t)
    <3>1. ~Undecided(t) /\ ~Undecided(t)' BY <1>7, <2>3 DEF Undecided
    <3>2. QED BY <1>5, <2>1, <3>1
  <2>4. CASE Posted(t) /\ ~ (t[1] # 0 /\ t[2] = b)
    <3>1. Undecided(t)' <=> Undecided(t) BY <1>1, <1>7, <2>4 DEF Undecided
    <3>2. t \notin R BY <1>3, <2>4
    <3>3. QED BY <1>5, <2>1, <3>1, <3>2
  <2>5. QED BY <2>2, <2>3, <2>4
<1>10. HasIsList'
  <2> SUFFICES ASSUME NEW t \in Target, Undecided(t)'
               PROVE  targetValidHas[t] = targetValidList'[t]
      BY <1>1 DEF HasIsList
  <2>1. Posted(t) /\ Undecided(t) /\ ~ (t[1] # 0 /\ t[2] = b)
        BY <1>1, <1>7 DEF Undecided
  <2>2. t \notin R BY <1>3, <2>1
  <2>3. QED BY <1>5, <2>1, <2>2 DEF ExposureInvariant, HasIsList
<1>11. ExposedRemembered'
  <2> SUFFICES ASSUME NEW c \in 1 .. MaxBatches, NEW l \in 1 .. MaxLeaves,
                      NEW t, t = LeafTarget(c, l), targetValidList'[t] # {}
               PROVE  l \in exposedLeaves'[c]
      BY DEF ExposedRemembered, LeafTarget
  <2>1. t \in Target /\ t[1] # 0 /\ t[2] = c BY TargetCases DEF LeafTarget
  <2>2. t \notin R /\ targetValidList[t] # {} BY <1>5, <2>1
  <2>3. c # b BY <1>4, <2>1, <2>2
  <2>4. exposedLeaves'[c] = exposedLeaves[c]
        BY <1>5, <2>3 DEF TypeOK, ExposureTypes
  <2>5. QED BY <2>2, <2>4 DEF ExposureInvariant, ExposedRemembered
<1>12. NobodyListedEarly'
       BY <1>1, <1>7 DEF ExposureInvariant, NobodyListedEarly
<1>13. QED BY <1>6, <1>9, <1>10, <1>11, <1>12 DEF ExposureInvariant

\* Every step keeps the invariant.
LEMMA NextExposure ==
  ASSUME AdjudicationInv, ExposureInvariant, [Next]_vars
  PROVE  ExposureInvariant'
<1>0. /\ TypeOK /\ LeafInvariant /\ DisputeInvariant /\ OpenMeansDisputed /\ BatchAudit
      BY DEF AdjudicationInv, LeafInvariant, DisputeInvariant
<1>1. CASE Idles
  <2>1. SamePosted BY <1>0, <1>1, SamePostedCases DEF Idles, targetVars, TypeOK
  <2>2. \A t \in Target : KeepsTarget(t)
        BY <1>1, <2>1, TargetKept DEF Idles, targetVars
  <2>3. UNCHANGED disputes /\ UNCHANGED exposureVars BY <1>1 DEF Idles
  <2>4. \A u : Vouched(u)' = Vouched(u) BY <1>0, <2>3, VouchedSteps
  <2>5. QED BY <1>0, <2>2, <2>3, <2>4, ExposureKept DEF KeepsTarget
<1>2. CASE Submits
  <2>1. UNCHANGED disputes /\ UNCHANGED exposureVars BY <1>2 DEF Submits
  <2>2. \A u : Vouched(u)' = Vouched(u) BY <1>0, <2>1, VouchedSteps
  <2>3. QED BY <1>0, <1>2, <2>1, <2>2, ExposureKept DEF Submits, KeepsTarget
<1>3. ASSUME NEW i \in 1 .. MaxRecords, Confirms(i) PROVE ExposureInvariant'
  <2>1. PICK t : t = RecordTarget(i) OBVIOUS
  <2>2. /\ t \in Target /\ TargetState(t)' = "Confirmed"
        /\ SamePosted /\ \A u \in Target : u # t => KeepsTarget(u)
        /\ i \in DOMAIN records /\ ReleaseExposures(t)
        /\ UNCHANGED <<targetValidHas, exposedLeaves>> /\ UNCHANGED disputes
        BY <1>3, <2>1 DEF Confirms
  <2>3. Posted(t) /\ t[1] = 0 BY <2>1, <2>2 DEF Posted, RecordTarget
  <2>4. Settled(t)' BY <2>2, <2>3 DEF Settled
  <2>5. \A u : Vouched(u)' = Vouched(u) BY <1>0, <2>2, VouchedSteps
  <2>6. QED BY <1>0, <2>2, <2>3, <2>4, <2>5, ExposureReleased
<1>4. ASSUME NEW t \in Target, NEW a \in Address, NEW bond \in Nat, Opens(t, a, bond)
      PROVE  ExposureInvariant'
  <2>1. /\ Posted(t) /\ ~Settled(t) /\ ~Settled(t)'
        /\ SamePosted /\ \A u \in Target : u # t => KeepsTarget(u)
        /\ OpenDispute(a, t, bond) /\ UNCHANGED exposureVars
        BY <1>4 DEF Opens
  <2>2. PICK n : n = Len(disputes) + 1 OBVIOUS
  <2>3. Lists(t, n) BY <1>0, <2>1, <2>2, Opened
  <2>4. \A u : Vouched(u)' = Vouched(u) BY <1>0, <2>3, VouchedSteps
  <2>5. \A u \in Target : Posted(u)' <=> Posted(u) BY <2>1, PostedKeeps
  <2>6. \A u \in Target : Posted(u) => Posted(u)' /\ (Settled(u)' <=> Settled(u))
        BY <2>1, <2>5 DEF KeepsTarget
  <2>7. QED BY <1>0, <2>1, <2>4, <2>5, <2>6, ExposureKept
<1>5. ASSUME NEW i \in DOMAIN disputes, NEW d \in Dispute, Counts(i, d)
      PROVE  ExposureInvariant'
  <2>1. Rules(i, d) /\ ~d.resolved /\ KeepsTarget(d.target) /\ UNCHANGED exposureVars
        BY <1>5 DEF Counts
  <2>2. \A u \in Target : KeepsTarget(u) BY <2>1 DEF Rules
  <2>3. \A u : Vouched(u)' = Vouched(u) BY <1>0, <2>1, VouchedSteps
  <2>4. QED BY <1>0, <2>1, <2>2, <2>3, ExposureKept DEF KeepsTarget
<1>6. ASSUME NEW i \in DOMAIN disputes, NEW d \in Dispute, Lapses(i, d)
      PROVE  ExposureInvariant'
  <2>1. PICK t : t = d.target OBVIOUS
  <2>2. /\ Rules(i, d) /\ SamePosted /\ \A u \in Target : u # t => KeepsTarget(u)
        /\ Settled(t)' /\ ReleaseExposures(t)
        /\ UNCHANGED <<targetValidHas, exposedLeaves>>
        /\ i \in OpenDisputes /\ t = disputes[i].target
        BY <1>6, <2>1 DEF Lapses, Rules
  <2>3. t \in Target /\ Posted(t) BY <1>0, <2>2, OpenUnsettled
  <2>4. \A u : u # t => Vouched(u)' = Vouched(u) BY <1>0, <2>1, <2>2, VouchedSteps
  <2>5. QED BY <1>0, <2>2, <2>3, <2>4, ExposureReleased
<1>7. QED
      BY <1>0, <1>1, <1>2, <1>3, <1>4, <1>5, <1>6, StepShapes, ExposureConfirms,
         ExposureConvicts, ExposureAcquits

\* Nobody is listed at first.
LEMMA InitExposure == Init => ExposureInvariant
<1> SUFFICES ASSUME Init PROVE ExposureInvariant OBVIOUS
<1>1. /\ records = <<>> /\ batches = <<>>
      /\ targetValidList = [t \in Target |-> {}]
      /\ targetValidHas = [t \in Target |-> {}]
      /\ verifierLiveExposures = [a \in Address |-> 0]
      BY DEF Init
<1>2. \A t \in Target : ~Undecided(t)
  <2>1. DOMAIN records = {} /\ DOMAIN batches = {} BY <1>1
  <2>2. QED BY <2>1 DEF Undecided, Posted
<1>3. \A v : ListedFor(v) = {} BY <1>1 DEF ListedFor
<1>4. ListingCounts BY <1>1, <1>3, FS_EmptySet DEF ListingCounts
<1>5. QED
      BY <1>1, <1>2, <1>4, TargetCases
      DEF ExposureInvariant, ListsVouched, HasIsList, ExposedRemembered,
          NobodyListedEarly

\* It holds in every reachable state.
LEMMA Exposures == Spec => [](AdjudicationInv /\ ExposureInvariant)
BY InitAdjudication, NextAdjudication, InitExposure, NextExposure, PTL DEF Spec

\* A verifier's exposure counter is the number of undecided targets it has
\* vouched for, and every list is released exactly when its target is decided.
THEOREM ExposureIsLedger == Spec => []ExposureLedger
<1>1. ExposureInvariant => ExposureLedger BY ExposureParts DEF ExposureInvariant
<1>2. QED BY <1>1, Exposures, PTL

-----------------------------------------------------------------------------
(* What is decided stays decided.                                          *)

\* A settled target is never the one that a step changes.
LEMMA SettledStays ==
  ASSUME AdjudicationInv, [Next]_vars, NEW t \in Target, Posted(t), Settled(t)
  PROVE  TargetState(t)' = TargetState(t)
<1>0. /\ TypeOK /\ LeafInvariant /\ DisputeInvariant /\ OpenMeansDisputed /\ BatchAudit
      BY DEF AdjudicationInv, LeafInvariant, DisputeInvariant
<1>1. CASE Idles BY <1>1 DEF Idles, targetVars, TargetState
<1>2. CASE Submits BY <1>2 DEF Submits, KeepsTarget
<1>3. ASSUME NEW i \in 1 .. MaxRecords, Confirms(i)
      PROVE  TargetState(t)' = TargetState(t)
  <2>1. PICK u : u = RecordTarget(i) OBVIOUS
  <2>2. /\ \A w \in Target : w # u => KeepsTarget(w)
        /\ TargetState(u) = "Provisional" /\ u[1] = 0
        BY <1>3, <2>1 DEF Confirms, RecordTarget
  <2>3. t # u BY <2>2 DEF Settled
  <2>4. QED BY <2>2, <2>3 DEF KeepsTarget
<1>4. ASSUME NEW b \in 1 .. MaxBatches, ConfirmsBatch(b)
      PROVE  TargetState(t)' = TargetState(t)
      BY <1>4 DEF ConfirmsBatch
<1>5. ASSUME NEW u \in Target, NEW a \in Address, NEW bond \in Nat, Opens(u, a, bond)
      PROVE  TargetState(t)' = TargetState(t)
  <2>1. ~Settled(u) /\ \A w \in Target : w # u => KeepsTarget(w) BY <1>5 DEF Opens
  <2>2. KeepsTarget(t) BY <2>1
  <2>3. QED BY <2>2 DEF KeepsTarget
<1>6. ASSUME NEW i \in DOMAIN disputes, NEW d \in Dispute, Rules(i, d)
      PROVE  TargetState(t)' = TargetState(t)
  <2>1. PICK u : u = disputes[i].target OBVIOUS
  <2>2. i \in OpenDisputes /\ \A w \in Target : w # u => KeepsTarget(w)
        BY <1>6, <2>1 DEF Rules
  <2>3. ~Settled(u) BY <1>0, <2>1, <2>2, OpenUnsettled
  <2>4. KeepsTarget(t) BY <2>2, <2>3
  <2>5. QED BY <2>4 DEF KeepsTarget
<1>7. QED
      BY <1>0, <1>1, <1>2, <1>3, <1>4, <1>5, <1>6, StepShapes
      DEF Counts, Convicts, Acquits, Lapses

\* And a ruling is about an open dispute.
LEMMA ResolvedStays ==
  ASSUME AdjudicationInv, [Next]_vars, NEW j \in DOMAIN disputes \ OpenDisputes
  PROVE  disputes'[j] = disputes[j]
<1>0. TypeOK /\ LeafInvariant /\ OpenMeansDisputed
      BY DEF AdjudicationInv, DisputeInvariant
<1>1. Idles \/ Submits => disputes'[j] = disputes[j] BY DEF Idles, Submits
<1>2. \A i : Confirms(i) => disputes'[j] = disputes[j] BY DEF Confirms
<1>3. \A b : ConfirmsBatch(b) => disputes'[j] = disputes[j] BY DEF ConfirmsBatch
<1>4. ASSUME NEW u \in Target, NEW a \in Address, NEW bond \in Nat, Opens(u, a, bond)
      PROVE  disputes'[j] = disputes[j]
  <2>1. PICK n : n = Len(disputes) + 1 OBVIOUS
  <2>2. OpenDispute(a, u, bond) BY <1>4 DEF Opens
  <2>3. Lists(u, n) BY <1>0, <2>1, <2>2, Opened
  <2>4. QED BY <2>3 DEF Lists
<1>5. ASSUME NEW i \in DOMAIN disputes, NEW d \in Dispute, Rules(i, d)
      PROVE  disputes'[j] = disputes[j]
      BY <1>0, <1>5, Ruled
<1>6. QED
      BY <1>0, <1>1, <1>2, <1>3, <1>4, <1>5, StepShapes
      DEF Counts, Convicts, Acquits, Lapses

\* Records and batches that differ only where SameRecord and SameBatch let them.
LEMMA SameButState ==
  /\ \A r, s \in Record : SameRecord(s, r) => [s EXCEPT !.state = r.state] = r
  /\ \A b, c \in Batch :
       SameBatch(c, b) =>
         [c EXCEPT !.state = b.state, !.revokedLeafCount = b.revokedLeafCount] = b
BY DEF Record, Batch, SameRecord, SameBatch

\* What was posted is not rewritten.
LEMMA PostedStaysSame ==
  ASSUME TypeOK, TypeOK', [Next]_vars
  PROVE  /\ \A i \in DOMAIN records :
              [records'[i] EXCEPT !.state = records[i].state] = records[i]
         /\ \A b \in DOMAIN batches :
              [batches'[b] EXCEPT !.state = batches[b].state,
                                  !.revokedLeafCount = batches[b].revokedLeafCount]
                = batches[b]
<1>1. /\ \A i \in DOMAIN records : records[i] \in Record
      /\ \A b \in DOMAIN batches : batches[b] \in Batch
      /\ \A i \in DOMAIN records' : records'[i] \in Record
      /\ \A b \in DOMAIN batches' : batches'[b] \in Batch
      BY DEF TypeOK, TargetTypes
<1>2. (\A r : SameRecord(r, r)) /\ (\A b : SameBatch(b, b))
      BY DEF SameRecord, SameBatch
<1>3. /\ \A i \in DOMAIN records :
           i \in DOMAIN records' /\ SameRecord(records'[i], records[i])
      /\ \A b \in DOMAIN batches :
           b \in DOMAIN batches' /\ SameBatch(batches'[b], batches[b])
  <2>1. ASSUME NEW a \in Address, NEW dataHash \in Payload, NEW did \in DID,
               NEW sig \in SigLength, submitAccountable(a, dataHash, did, sig)
        PROVE  /\ \A i \in DOMAIN records :
                    i \in DOMAIN records' /\ records'[i] = records[i]
               /\ UNCHANGED batches
    <3>1. PICK n, r : n = Len(records) /\ r = records'[n + 1] OBVIOUS
    <3>2. /\ n \in Nat /\ DOMAIN records = 1 .. n /\ DOMAIN records' = 1 .. n + 1
          /\ \A i \in 1 .. n : records'[i] = records[i]
          /\ UNCHANGED batches
          BY <2>1, <3>1, SubmitAppends
    <3>3. QED BY <3>2
  <2>2. ASSUME NEW a \in Address, NEW k \in 0 .. MaxLeaves,
               NEW didHashes \in [1 .. k -> DID],
               NEW dataHashes \in [1 .. k -> Payload],
               NEW length \in Nat, submitBatch(a, didHashes, dataHashes, length)
        PROVE  /\ \A b \in DOMAIN batches :
                    b \in DOMAIN batches' /\ batches'[b] = batches[b]
               /\ UNCHANGED records
    <3>1. PICK n, x : n = Len(batches) /\ x = batches'[n + 1] OBVIOUS
    <3>2. /\ n \in Nat /\ DOMAIN batches = 1 .. n /\ DOMAIN batches' = 1 .. n + 1
          /\ \A b \in 1 .. n : batches'[b] = batches[b]
          /\ UNCHANGED records
          BY <2>2, <3>1, BatchAppends, SMTT(40)
    <3>3. QED BY <3>2
  <2>3. QED BY <1>2, <2>1, <2>2, StepKeepsPosted DEF SamePosted
<1>4. ASSUME NEW i \in DOMAIN records
      PROVE  [records'[i] EXCEPT !.state = records[i].state] = records[i]
      BY <1>1, <1>3, SameButState
<1>5. ASSUME NEW b \in DOMAIN batches
      PROVE  [batches'[b] EXCEPT !.state = batches[b].state,
                                 !.revokedLeafCount = batches[b].revokedLeafCount]
               = batches[b]
      BY <1>1, <1>3, SameButState
<1>6. QED BY <1>4, <1>5

\* A settled target keeps its state, a resolved dispute its votes, and a posted
\* record or batch everything but its state and the count of its revoked leaves.
THEOREM Final == Spec => DecisionsAreFinal
<1>1. /\ AdjudicationInv /\ AdjudicationInv' /\ [Next]_vars
      => [/\ \A target \in Target :
               Posted(target) /\ Settled(target) =>
                 TargetState(target)' = TargetState(target)
          /\ \A i \in DOMAIN disputes \ OpenDisputes : disputes'[i] = disputes[i]
          /\ \A i \in DOMAIN records :
               [records'[i] EXCEPT !.state = records[i].state] = records[i]
          /\ \A b \in DOMAIN batches :
               [batches'[b] EXCEPT !.state = batches[b].state,
                                   !.revokedLeafCount = batches[b].revokedLeafCount]
                 = batches[b]]_vars
  <2> SUFFICES ASSUME AdjudicationInv, AdjudicationInv', [Next]_vars
               PROVE  /\ \A target \in Target :
                           Posted(target) /\ Settled(target) =>
                             TargetState(target)' = TargetState(target)
                      /\ \A i \in DOMAIN disputes \ OpenDisputes :
                           disputes'[i] = disputes[i]
                      /\ \A i \in DOMAIN records :
                           [records'[i] EXCEPT !.state = records[i].state] = records[i]
                      /\ \A b \in DOMAIN batches :
                           [batches'[b] EXCEPT
                              !.state = batches[b].state,
                              !.revokedLeafCount = batches[b].revokedLeafCount]
                             = batches[b]
      OBVIOUS
  <2>1. TypeOK /\ TypeOK' BY DEF AdjudicationInv
  <2>2. \A target \in Target :
          Posted(target) /\ Settled(target) =>
            TargetState(target)' = TargetState(target)
        BY SettledStays
  <2>3. \A i \in DOMAIN disputes \ OpenDisputes : disputes'[i] = disputes[i]
        BY ResolvedStays
  <2>4. QED BY <2>1, <2>2, <2>3, PostedStaysSame
<1>2. QED BY <1>1, Adjudicated, PTL DEF Spec, DecisionsAreFinal

-----------------------------------------------------------------------------
(* Who may lose a stake.                                                   *)

\* A vote lowers stakes only by proving fraud.
LEMMA VoteKeepsStakes ==
  ASSUME TypeOK, NEW i \in DOMAIN disputes, NEW v \in Address, NEW f \in BOOLEAN,
         submitAttestation(i, v, f)
  PROVE  FraudVerdict(i) \/ UNCHANGED <<relayStake, verifierStake>>
<1>1. PICK e : e = Voted(disputes[i], v, f) OBVIOUS
<1>2. \/ FraudQuorum(e) /\ ResolveFraud(i, e)
      \/ UNCHANGED <<relayStake, verifierStake>>
      BY <1>1 DEF submitAttestation, ResolveSpurious
<1>3. CASE FraudQuorum(e) /\ ResolveFraud(i, e)
  <2>1. e \in Dispute
    <3>1. disputes[i] \in Dispute BY AboutPosted
    <3>2. QED BY <1>1, <3>1, VotedType
  <2>2. PICK d : d = [e EXCEPT !.resolved = TRUE] OBVIOUS
  <2>3. d.resolved /\ d.fraudAttesters = e.fraudAttesters
        BY <2>1, <2>2 DEF Dispute
  <2>4. disputes'[i] = d BY <1>3, <2>2 DEF ResolveFraud
  <2>5. FraudQuorum(d) BY <1>3, <2>3 DEF FraudQuorum
  <2>6. i \in OpenDisputes BY DEF submitAttestation, OpenDisputes
  <2>7. FraudVerdict(i)
    <3>1. disputes'[i].resolved /\ FraudQuorum(disputes'[i]) BY <2>3, <2>4, <2>5
    <3>2. QED BY <2>6, <3>1 DEF FraudVerdict
  <2>8. QED BY <2>7
<1>4. QED BY <1>2, <1>3

\* So only three kinds of step take from a stake.
LEMMA StakesFall ==
  ASSUME TypeOK, [Next]_vars
  PROVE  \/ \E i \in DOMAIN disputes : FraudVerdict(i)
         \/ \E b \in Address : unstakeRelay(b) \/ unstakeVerifier(b)
         \/ \A a \in Address : /\ relayStake'[a] >= relayStake[a]
                               /\ verifierStake'[a] >= verifierStake[a]
<1>1. \A a \in Address : relayStake[a] \in Nat /\ verifierStake[a] \in Nat
      BY DEF TypeOK, MoneyTypes
<1>2. UNCHANGED <<relayStake, verifierStake>> =>
        \A a \in Address : /\ relayStake'[a] >= relayStake[a]
                           /\ verifierStake'[a] >= verifierStake[a]
      BY <1>1
<1>3. ASSUME NEW b \in Address, NEW value \in Nat, Housekeeping(b, value)
      PROVE  \/ unstakeRelay(b) \/ unstakeVerifier(b)
             \/ \A a \in Address : /\ relayStake'[a] >= relayStake[a]
                                   /\ verifierStake'[a] >= verifierStake[a]
  <2>1. CASE stakeRelay(b, value)
    <3>1. relayStake' = Deposited(relayStake, b, value) /\ UNCHANGED verifierStake
          BY <2>1 DEF stakeRelay, verifierVars
    <3>2. \A a \in Address :
            relayStake'[a] = IF a = b THEN relayStake[a] + value ELSE relayStake[a]
          BY <3>1 DEF Deposited, TypeOK, MoneyTypes
    <3>3. QED BY <1>1, <3>1, <3>2
  <2>2. CASE stakeVerifier(b, value)
    <3>1. verifierStake' = Deposited(verifierStake, b, value) /\ UNCHANGED relayStake
          BY <2>2 DEF stakeVerifier, relayVars
    <3>2. \A a \in Address :
            verifierStake'[a] =
              IF a = b THEN verifierStake[a] + value ELSE verifierStake[a]
          BY <3>1 DEF Deposited, TypeOK, MoneyTypes
    <3>3. QED BY <1>1, <3>1, <3>2
  <2>3. QED
        BY <1>2, <1>3, <2>1, <2>2
        DEF Housekeeping, announceUnstake, announceVerifierUnstake,
            deregisterVerifier, registryCall, withdraw, relayVars, verifierVars
<1>4. \A a, x, y, z : submitAccountable(a, x, y, z) => UNCHANGED <<relayStake, verifierStake>>
      BY DEF submitAccountable, relayVars, verifierVars
<1>5. \A a, x, y, z : submitBatch(a, x, y, z) => UNCHANGED <<relayStake, verifierStake>>
      BY DEF submitBatch, relayVars, verifierVars
<1>6. \A i : finalizeRecord(i) \/ expireDispute(i) => UNCHANGED <<relayStake, verifierStake>>
      BY DEF finalizeRecord, expireDispute, relayVars, verifierVars
<1>7. \A b : finalizeBatch(b) => UNCHANGED <<relayStake, verifierStake>>
      BY DEF finalizeBatch, relayVars, verifierVars
<1>8. \A a, i, bond : openDispute(a, i, bond) => UNCHANGED <<relayStake, verifierStake>>
      BY DEF openDispute, relayVars, verifierVars
<1>9. \A a, b, l, leaf, bond :
        openBatchLeafDispute(a, b, l, leaf, bond) => UNCHANGED <<relayStake, verifierStake>>
      BY DEF openBatchLeafDispute, relayVars, verifierVars
<1>10. withdrawReturns \/ Tick \/ UNCHANGED vars => UNCHANGED <<relayStake, verifierStake>>
       BY DEF withdrawReturns, Tick, vars, relayVars, verifierVars
<1>11. QED
       BY <1>2, <1>3, <1>4, <1>5, <1>6, <1>7, <1>8, <1>9, <1>10, StepKinds,
          VoteKeepsStakes

\* A relay that leaves has no record or leaf under dispute.
LEMMA LeavingRelay ==
  ASSUME TypeOK, RelayCounters, NEW b \in Address, unstakeRelay(b),
         NEW i \in OpenDisputes
  PROVE  TargetRelay(disputes[i].target) # b
<1>1. Cardinality(RelayCases(b)) = 0
      BY DEF unstakeRelay, RelayMayLeave, RelayCounters
<1>2. IsFiniteSet(RelayCases(b))
  <2>1. disputes \in Seq(Dispute) BY DEF TypeOK, DisputeTypes
  <2>2. IsFiniteSet(DOMAIN disputes) BY <2>1, BondsType
  <2>3. RelayCases(b) \subseteq DOMAIN disputes BY DEF RelayCases, OpenDisputes
  <2>4. QED BY <2>2, <2>3, FS_Subset
<1>3. RelayCases(b) = {} BY <1>1, <1>2, FS_EmptySet
<1>4. QED BY <1>3 DEF RelayCases

\* A verifier that leaves has not vouched for an undecided target.
LEMMA LeavingVerifier ==
  ASSUME TypeOK, ExposureInvariant, NEW b \in Address, unstakeVerifier(b),
         NEW i \in DOMAIN disputes, disputes[i].resolved,
         b \in disputes[i].validAttesters
  PROVE  Settled(disputes[i].target)
<1>1. Cardinality(ListedFor(b)) = 0
      BY DEF unstakeVerifier, VerifierMayLeave, ExposureInvariant, ListingCounts
<1>2. ListedFor(b) = {} BY <1>1, ListedFinite, FS_EmptySet
<1>3. PICK t : t = disputes[i].target OBVIOUS
<1>4. t \in Target /\ Posted(t) BY <1>3, AboutPosted
<1>5. b \in Vouched(t)
  <2>1. i \in DisputesAbout(t) \ OpenDisputes BY <1>3 DEF DisputesAbout, OpenDisputes
  <2>2. QED BY <2>1 DEF Vouched
<1>6. SUFFICES ASSUME ~Settled(t) PROVE FALSE BY <1>3
<1>7. b \in targetValidList[t]
      BY <1>4, <1>5, <1>6 DEF ExposureInvariant, ListsVouched, Undecided
<1>8. QED BY <1>2, <1>4, <1>7 DEF ListedFor

\* A relay with a target under dispute, and a verifier that has vouched for an
\* undecided one, lose stake by nothing but a fraud verdict.
THEOREM StakesLocked == Spec => LockedStakeStays
<1>1. AdjudicationInv /\ ExposureInvariant /\ [Next]_vars
      => [\A a \in Address :
            \/ \E i \in DOMAIN disputes : FraudVerdict(i)
            \/ /\ (\E i \in OpenDisputes : TargetRelay(disputes[i].target) = a)
                    => relayStake'[a] >= relayStake[a]
               /\ (\E i \in DOMAIN disputes :
                      /\ FoundSpurious(disputes[i])
                      /\ a \in disputes[i].validAttesters
                      /\ ~Settled(disputes[i].target))
                    => verifierStake'[a] >= verifierStake[a]]_vars
  <2> SUFFICES ASSUME AdjudicationInv, ExposureInvariant, [Next]_vars,
                      ~ \E i \in DOMAIN disputes : FraudVerdict(i),
                      NEW a \in Address
               PROVE  /\ (\E i \in OpenDisputes : TargetRelay(disputes[i].target) = a)
                           => relayStake'[a] >= relayStake[a]
                      /\ (\E i \in DOMAIN disputes :
                             /\ FoundSpurious(disputes[i])
                             /\ a \in disputes[i].validAttesters
                             /\ ~Settled(disputes[i].target))
                           => verifierStake'[a] >= verifierStake[a]
      OBVIOUS
  <2>1. /\ TypeOK /\ RelayCounters BY DEF AdjudicationInv, DisputeInvariant
  <2>2. /\ relayStake \in [Address -> Nat] /\ verifierStake \in [Address -> Nat]
        BY <2>1 DEF TypeOK, MoneyTypes
  <2>3. ASSUME NEW b \in Address, unstakeRelay(b)
        PROVE  /\ verifierStake'[a] >= verifierStake[a]
               /\ (\E i \in OpenDisputes : TargetRelay(disputes[i].target) = a)
                    => relayStake'[a] >= relayStake[a]
    <3>1. /\ relayStake' = [relayStake EXCEPT ![b] = 0]
          /\ UNCHANGED verifierStake
          BY <2>3 DEF unstakeRelay, verifierVars
    <3>2. a # b => relayStake'[a] = relayStake[a] BY <2>2, <3>1
    <3>3. \A i \in OpenDisputes : TargetRelay(disputes[i].target) # b
          BY <2>1, <2>3, LeavingRelay
    <3>4. QED BY <2>2, <3>1, <3>2, <3>3
  <2>4. ASSUME NEW b \in Address, unstakeVerifier(b)
        PROVE  /\ relayStake'[a] >= relayStake[a]
               /\ (\E i \in DOMAIN disputes :
                      /\ FoundSpurious(disputes[i])
                      /\ a \in disputes[i].validAttesters
                      /\ ~Settled(disputes[i].target))
                    => verifierStake'[a] >= verifierStake[a]
    <3>1. /\ verifierStake' = [verifierStake EXCEPT ![b] = 0]
          /\ UNCHANGED relayStake
          BY <2>4 DEF unstakeVerifier, relayVars
    <3>2. a # b => verifierStake'[a] = verifierStake[a] BY <2>2, <3>1
    <3>3. \A i \in DOMAIN disputes :
            disputes[i].resolved /\ b \in disputes[i].validAttesters =>
              Settled(disputes[i].target)
          BY <2>1, <2>4, LeavingVerifier
    <3>4. QED BY <2>2, <3>1, <3>2, <3>3 DEF FoundSpurious
  <2>5. QED BY <2>1, <2>3, <2>4, StakesFall
<1>2. QED BY <1>1, Exposures, PTL DEF Spec, LockedStakeStays

-----------------------------------------------------------------------------
(* Cross-dispute slashing.                                                 *)

\* Without a quorum to reach, the first vote decides: an open dispute has none.
VotesNeedQuorum ==
  quorum = 0 =>
    \A i \in OpenDisputes :
      disputes[i].fraudAttesters \cup disputes[i].validAttesters = {}

\* Every step keeps that.
LEMMA NextVotesNeedQuorum ==
  ASSUME AdjudicationInv, VotesNeedQuorum, [Next]_vars
  PROVE  VotesNeedQuorum'
<1>0. TypeOK /\ LeafInvariant /\ OpenMeansDisputed
      BY DEF AdjudicationInv, DisputeInvariant
<1>1. UNCHANGED disputes => VotesNeedQuorum' BY DEF VotesNeedQuorum, OpenDisputes
<1>2. ASSUME NEW u \in Target, NEW a \in Address, NEW bond \in Nat, Opens(u, a, bond)
      PROVE  VotesNeedQuorum'
  <2>1. PICK n : n = Len(disputes) + 1 OBVIOUS
  <2>2. OpenDispute(a, u, bond) BY <1>2 DEF Opens
  <2>3. Lists(u, n) BY <1>0, <2>1, <2>2, Opened
  <2>4. QED BY <2>3 DEF Lists, VotesNeedQuorum, OpenDisputes
<1>3. ASSUME NEW i \in DOMAIN disputes, NEW d \in Dispute, Rules(i, d),
             d.resolved \/ ~FraudQuorum(d)
      PROVE  VotesNeedQuorum'
  <2>1. /\ disputes'[i] = d
        /\ \A j \in DOMAIN disputes : j # i => disputes'[j] = disputes[j]
        /\ OpenDisputes' = IF d.resolved THEN OpenDisputes \ {i} ELSE OpenDisputes
        BY <1>0, <1>3, Ruled
  <2>2. quorum = 0 => d.resolved BY <1>3, AllowanceType
  <2>3. QED BY <2>1, <2>2 DEF VotesNeedQuorum, OpenDisputes
<1>4. Idles \/ Submits \/ (\E i : Confirms(i)) \/ (\E b : ConfirmsBatch(b)) =>
        UNCHANGED disputes
      BY DEF Idles, Submits, Confirms, ConfirmsBatch
<1>5. QED
      BY <1>0, <1>1, <1>2, <1>3, <1>4, StepShapes
      DEF Counts, Convicts, Acquits, Lapses

\* The three invariants together hold in every reachable state.
LEMMA QuorumVotes == Spec => [](AdjudicationInv /\ ExposureInvariant /\ VotesNeedQuorum)
<1>1. Init => VotesNeedQuorum BY DEF Init, VotesNeedQuorum, OpenDisputes
<1>2. QED BY <1>1, NextVotesNeedQuorum, Exposures, PTL DEF Spec

\* What is left to an account that is to pay an amount from two pools is what it
\* had less the amount, or nothing.
LEMMA TwoPools ==
  ASSUME NEW x \in Nat, NEW y \in Nat, NEW amount \in Nat
  PROVE  (x - AtMost(x, amount)) + (y - AtMost(y, amount - AtMost(x, amount)))
           = (x + y) - AtMost(x + y, amount)
BY DEF AtMost

\* What an account has left, if the members of W are slashed.
SlashedOnly(W, a) ==
  verifierStake'[a] + relayStake'[a] =
    IF a \in W
    THEN verifierStake[a] + relayStake[a]
           - AtMost(verifierStake[a] + relayStake[a], verifierSlashAmount)
    ELSE verifierStake[a] + relayStake[a]

\* A fraud verdict takes from everybody but the target's relay just that, if it
\* is on the wrong side, and nothing otherwise.
LEMMA FraudTakes ==
  ASSUME TypeOK, NEW e \in Dispute, NEW r, r = TargetRelay(e.target),
         verifierStake' = Minus(VerifierStakeLeft(e), RelaySlash(e).other),
         relayStake' = Minus(RelayStakeLeft(e), RelaySlash(e).first),
         NEW a \in Address, a # r
  PROVE  SlashedOnly(WrongSide(e), a)
<1>1. /\ verifierStake \in [Address -> Nat] /\ relayStake \in [Address -> Nat]
      /\ verifierSlashAmount \in Nat
      BY ParameterAssumption DEF TypeOK, MoneyTypes
<1>2. PICK w : w = WrongSideSlash(e) OBVIOUS
<1>3. /\ w.first = [b \in Address |->
                      IF b \in WrongSide(e)
                      THEN AtMost(verifierStake[b], verifierSlashAmount) ELSE 0]
      /\ w.other = [b \in Address |->
                      IF b \in WrongSide(e)
                      THEN AtMost(relayStake[b], verifierSlashAmount - w.first[b])
                      ELSE 0]
      BY <1>2 DEF WrongSideSlash, CollectFromPool
<1>4. PICK s : s = RelaySlash(e) OBVIOUS
<1>5. s.first[a] = 0 /\ s.other[a] = 0
      BY <1>4 DEF RelaySlash, CollectFromPool
<1>6. /\ VerifierStakeLeft(e)[a] = verifierStake[a] - w.first[a]
      /\ DOMAIN VerifierStakeLeft(e) = Address
      /\ RelayStakeLeft(e)[a] = relayStake[a] - w.other[a]
      /\ DOMAIN RelayStakeLeft(e) = Address
      BY <1>1, <1>2 DEF VerifierStakeLeft, RelayStakeLeft, Minus
<1>7. /\ verifierStake'[a] = VerifierStakeLeft(e)[a] - s.other[a]
      /\ relayStake'[a] = RelayStakeLeft(e)[a] - s.first[a]
      BY <1>4, <1>6 DEF Minus
<1>8. PICK x, y : x = verifierStake[a] /\ y = relayStake[a] /\ x \in Nat /\ y \in Nat
      BY <1>1
<1>9. CASE a \in WrongSide(e)
  <2>1. w.first[a] = AtMost(x, verifierSlashAmount) BY <1>3, <1>8, <1>9
  <2>2. w.other[a] = AtMost(y, verifierSlashAmount - AtMost(x, verifierSlashAmount))
        BY <1>3, <1>8, <1>9, <2>1
  <2>3. /\ AtMost(x, verifierSlashAmount) \in Int
        /\ AtMost(y, verifierSlashAmount - AtMost(x, verifierSlashAmount)) \in Int
        BY <1>1, <1>8 DEF AtMost
  <2>4. /\ verifierStake'[a] = x - AtMost(x, verifierSlashAmount)
        /\ relayStake'[a] =
             y - AtMost(y, verifierSlashAmount - AtMost(x, verifierSlashAmount))
        BY <1>5, <1>6, <1>7, <1>8, <2>1, <2>2, <2>3
  <2>5. (x - AtMost(x, verifierSlashAmount))
          + (y - AtMost(y, verifierSlashAmount - AtMost(x, verifierSlashAmount)))
          = (x + y) - AtMost(x + y, verifierSlashAmount)
        BY <1>1, <1>8, TwoPools
  <2>6. AtMost(x + y, verifierSlashAmount) \in Int BY <1>1, <1>8 DEF AtMost
  <2>7. verifierStake'[a] + relayStake'[a] = x + y - AtMost(x + y, verifierSlashAmount)
        BY <1>8, <2>3, <2>4, <2>5, <2>6
  <2>8. QED BY <1>8, <1>9, <2>7 DEF SlashedOnly
<1>10. CASE a \notin WrongSide(e)
  <2>1. w.first[a] = 0 /\ w.other[a] = 0 BY <1>3, <1>10
  <2>2. QED BY <1>5, <1>6, <1>7, <1>8, <1>10, <2>1 DEF SlashedOnly
<1>11. QED BY <1>9, <1>10

\* Everybody that has voted "valid" about the target of dispute i, counting the
\* vote this step casts.
Wrong(i) == UNION {disputes'[j].validAttesters : j \in DisputesAbout(disputes[i].target)}

\* The contract's lists name all of them.
LEMMA WrongSideIsWrong ==
  ASSUME AdjudicationInv, ExposureInvariant, NEW i \in OpenDisputes,
         NEW e \in Dispute, e.target = disputes[i].target,
         \A j \in DOMAIN disputes : j # i => disputes'[j] = disputes[j],
         disputes'[i].validAttesters = e.validAttesters
  PROVE  WrongSide(e) = Wrong(i)
<1>0. TypeOK /\ OpenMeansDisputed /\ OneOpenEach /\ BatchAudit
      BY DEF AdjudicationInv, DisputeInvariant, LeafInvariant
<1>1. PICK t : t = disputes[i].target OBVIOUS
<1>2. /\ t \in Target /\ Posted(t) /\ ~Settled(t) /\ i \in DOMAIN disputes
      BY <1>0, <1>1, OpenUnsettled
<1>3. targetValidList[t] = Vouched(t) /\ targetValidHas[t] = Vouched(t)
      BY <1>2 DEF ExposureInvariant, ListsVouched, HasIsList, Undecided
<1>4. WrongSide(e) = Vouched(t) \cup e.validAttesters
      BY <1>1, <1>3 DEF WrongSide, NewlyExposed
<1>5. DisputesAbout(t) = (DisputesAbout(t) \ OpenDisputes) \cup {i}
      BY <1>0, <1>1, <1>2 DEF OneOpenEach, DisputesAbout, OpenDisputes
<1>6. \A j \in DisputesAbout(t) \ OpenDisputes : disputes'[j] = disputes[j]
      BY DEF DisputesAbout, OpenDisputes
<1>7. Wrong(i) = UNION {disputes'[j].validAttesters : j \in DisputesAbout(t)}
      BY <1>1 DEF Wrong
<1> DEFINE R == DisputesAbout(t) \ OpenDisputes
<1>8. Vouched(t) = UNION {disputes[j].validAttesters : j \in R} BY DEF Vouched
<1>9. DisputesAbout(t) = R \cup {i} /\ \A j \in R : disputes'[j] = disputes[j]
      BY <1>5, <1>6
<1> HIDE DEF R
<1>10. UNION {disputes'[j].validAttesters : j \in R \cup {i}}
         = (UNION {disputes[j].validAttesters : j \in R}) \cup e.validAttesters
       BY <1>9
<1>11. QED BY <1>4, <1>7, <1>8, <1>9, <1>10

\* With no quorum to reach, nobody has voted "valid" about a target whose
\* dispute expires.
LEMMA NobodyWrong ==
  ASSUME AdjudicationInv, VotesNeedQuorum, NEW i \in OpenDisputes, quorum = 0,
         \A j \in DOMAIN disputes : j # i => disputes'[j] = disputes[j],
         disputes'[i].validAttesters = disputes[i].validAttesters
  PROVE  Wrong(i) = {}
<1>0. TypeOK /\ OpenIsLast /\ VerdictMatchesVotes
      BY DEF AdjudicationInv, DisputeInvariant
<1>1. PICK t : t = disputes[i].target OBVIOUS
<1>2. i \in DOMAIN disputes /\ disputes[i].validAttesters = {}
      BY DEF VotesNeedQuorum, OpenDisputes
<1>3. ASSUME NEW j \in DisputesAbout(t) PROVE disputes'[j].validAttesters = {}
  <2>1. j \in DOMAIN disputes /\ disputes[j].target = t BY DEF DisputesAbout
  <2>2. CASE j \in OpenDisputes
        BY <1>2, <2>1, <2>2 DEF VotesNeedQuorum
  <2>3. CASE j \notin OpenDisputes
    <3>1. disputes[j].resolved BY <2>1, <2>3 DEF OpenDisputes
    <3>2. FraudQuorum(disputes[j]) BY <1>0, <2>1, AboutPosted, AllowanceType
    <3>3. \A k \in DisputesAbout(t) : k <= j
          BY <1>0, <2>1, <3>1, <3>2 DEF VerdictMatchesVotes, FoundFraud
    <3>4. i <= j /\ j <= i
          BY <1>0, <1>1, <1>2, <3>3 DEF OpenIsLast, DisputesAbout
    <3>5. i \in Nat /\ j \in Nat BY <1>0, <1>2, <2>1, AboutPosted
    <3>6. QED BY <2>3, <3>4, <3>5
  <2>4. QED BY <2>2, <2>3
<1>4. QED BY <1>1, <1>3 DEF Wrong

\* What a fraud verdict in dispute i does to the stakes.
SlashesWrong(i) ==
  \A a \in Address \ {TargetRelay(disputes[i].target)} : SlashedOnly(Wrong(i), a)

\* A vote that proves fraud does that.
LEMMA VoteSlashes ==
  ASSUME AdjudicationInv, ExposureInvariant, NEW i \in DOMAIN disputes,
         NEW v \in Address, NEW f \in BOOLEAN, submitAttestation(i, v, f),
         NEW k \in DOMAIN disputes, FraudVerdict(k)
  PROVE  SlashesWrong(k)
<1>0. TypeOK BY DEF AdjudicationInv
<1>1. PICK old : old = disputes[i] OBVIOUS
<1>2. PICK e : e = Voted(old, v, f) OBVIOUS
<1>3. old \in Dispute /\ ~old.resolved /\ i \in OpenDisputes
      BY <1>0, <1>1, AboutPosted DEF submitAttestation, OpenDisputes
<1>4. e \in Dispute /\ e.target = old.target /\ ~e.resolved
      BY <1>2, <1>3 DEF Voted, Dispute
<1>5. PICK d : d = [e EXCEPT !.resolved = TRUE] OBVIOUS
<1>6. /\ d.validAttesters = e.validAttesters /\ d.fraudAttesters = e.fraudAttesters
      /\ d.resolved
      BY <1>4, <1>5 DEF Dispute
<1>7. \/ FraudQuorum(e) /\ ResolveFraud(i, e)
      \/ ~FraudQuorum(e) /\ ResolveSpurious(i, e)
      \/ disputes' = [disputes EXCEPT ![i] = e]
      BY <1>1, <1>2 DEF submitAttestation
<1>8. /\ \A j \in DOMAIN disputes : j # i => disputes'[j] = disputes[j]
      /\ disputes'[i] = d \/ disputes'[i] = e
      BY <1>5, <1>7 DEF ResolveFraud, ResolveSpurious
<1>9. k = i
      BY <1>8 DEF FraudVerdict, OpenDisputes
<1>10. disputes'[i].resolved /\ FraudQuorum(disputes'[i])
       BY <1>9 DEF FraudVerdict
<1>11. disputes'[i] = d BY <1>4, <1>8, <1>10
<1>12. FraudQuorum(d) BY <1>10, <1>11
<1>13. FraudQuorum(e) BY <1>6, <1>12 DEF FraudQuorum
<1>14. disputes' # [disputes EXCEPT ![i] = e]
  <2>1. disputes' = [disputes EXCEPT ![i] = e] => disputes'[i] = e OBVIOUS
  <2>2. QED BY <1>4, <1>6, <1>11, <2>1
<1>15. ResolveFraud(i, e) BY <1>7, <1>13, <1>14
<1>16. PICK r : r = TargetRelay(disputes[i].target) OBVIOUS
<1>17. r = TargetRelay(e.target) BY <1>1, <1>4, <1>16
<1>18. /\ verifierStake' = Minus(VerifierStakeLeft(e), RelaySlash(e).other)
       /\ relayStake' = Minus(RelayStakeLeft(e), RelaySlash(e).first)
       BY <1>15 DEF ResolveFraud
<1>19. WrongSide(e) = Wrong(i)
       BY <1>1, <1>3, <1>4, <1>6, <1>8, <1>11, WrongSideIsWrong
<1>20. ASSUME NEW a \in Address \ {r} PROVE SlashedOnly(Wrong(i), a)
  <2>1. SlashedOnly(WrongSide(e), a) BY <1>0, <1>4, <1>17, <1>18, FraudTakes
  <2>2. QED BY <1>19, <2>1
<1>21. QED BY <1>9, <1>16, <1>20 DEF SlashesWrong

\* An expiry counts as a fraud verdict only if there is no quorum to reach, and
\* then nobody is on the wrong side.
LEMMA ExpirySlashesNobody ==
  ASSUME AdjudicationInv, ExposureInvariant, VotesNeedQuorum,
         NEW i \in DOMAIN disputes, expireDispute(i),
         NEW k \in DOMAIN disputes, FraudVerdict(k)
  PROVE  SlashesWrong(k)
<1>0. TypeOK /\ VerdictMatchesVotes BY DEF AdjudicationInv
<1>1. PICK old : old = disputes[i] OBVIOUS
<1>2. old \in Dispute /\ ~old.resolved /\ i \in OpenDisputes
      BY <1>0, <1>1, AboutPosted DEF expireDispute, OpenDisputes
<1>3. PICK d : d = [old EXCEPT !.resolved = TRUE] OBVIOUS
<1>4. d.validAttesters = old.validAttesters /\ d.fraudAttesters = old.fraudAttesters
      BY <1>2, <1>3 DEF Dispute
<1>5. /\ disputes'[i] = d
      /\ \A j \in DOMAIN disputes : j # i => disputes'[j] = disputes[j]
      /\ UNCHANGED <<verifierStake, relayStake>>
      BY <1>1, <1>3 DEF expireDispute, relayVars, verifierVars
<1>6. k = i BY <1>5 DEF FraudVerdict, OpenDisputes
<1>7. FraudQuorum(d) BY <1>5, <1>6 DEF FraudVerdict
<1>8. FraudQuorum(old) BY <1>4, <1>7 DEF FraudQuorum
<1>9. ~ (quorum > 0) BY <1>0, <1>1, <1>2, <1>8 DEF VerdictMatchesVotes
<1>10. quorum = 0 BY <1>9, ParameterAssumption
<1>11. Wrong(i) = {}
       BY <1>1, <1>2, <1>4, <1>5, <1>10, NobodyWrong
<1>12. QED BY <1>5, <1>6, <1>11 DEF SlashesWrong, SlashedOnly

\* No other step reaches a verdict.
LEMMA StepSlashes ==
  ASSUME AdjudicationInv, ExposureInvariant, VotesNeedQuorum, [Next]_vars,
         NEW k \in DOMAIN disputes, FraudVerdict(k)
  PROVE  SlashesWrong(k)
<1>0. TypeOK BY DEF AdjudicationInv
<1>1. UNCHANGED disputes => FALSE BY DEF FraudVerdict, OpenDisputes
<1>2. ASSUME NEW b \in Address, NEW value \in Nat, Housekeeping(b, value)
      PROVE  UNCHANGED disputes
      BY <1>2
      DEF Housekeeping, stakeRelay, announceUnstake, unstakeRelay, stakeVerifier,
          announceVerifierUnstake, unstakeVerifier, deregisterVerifier,
          registryCall, withdraw
<1>3. \A a, x, y, z : submitAccountable(a, x, y, z) => UNCHANGED disputes
      BY DEF submitAccountable
<1>4. \A a, x, y, z : submitBatch(a, x, y, z) => UNCHANGED disputes
      BY DEF submitBatch
<1>5. \A i : finalizeRecord(i) => UNCHANGED disputes BY DEF finalizeRecord
<1>6. \A b : finalizeBatch(b) => UNCHANGED disputes BY DEF finalizeBatch
<1>7. ASSUME NEW a, NEW t, NEW bond, OpenDispute(a, t, bond) PROVE FALSE
  <2>1. PICK d : disputes' = Append(disputes, d) BY <1>7 DEF OpenDispute
  <2>2. disputes \in Seq(Dispute) BY <1>0 DEF TypeOK, DisputeTypes
  <2>3. disputes'[k] = disputes[k] BY <2>1, <2>2
  <2>4. QED BY <2>3 DEF FraudVerdict, OpenDisputes
<1>8. \A a, i, bond : openDispute(a, i, bond) => FALSE BY <1>7 DEF openDispute
<1>9. \A a, b, l, leaf, bond : openBatchLeafDispute(a, b, l, leaf, bond) => FALSE
      BY <1>7 DEF openBatchLeafDispute
<1>10. withdrawReturns \/ Tick \/ UNCHANGED vars => UNCHANGED disputes
       BY DEF withdrawReturns, Tick, vars
<1>11. QED
       BY <1>0, <1>1, <1>2, <1>3, <1>4, <1>5, <1>6, <1>8, <1>9, <1>10, StepKinds,
          VoteSlashes, ExpirySlashesNobody

\* The verdict that proves fraud slashes every verifier that has voted "valid"
\* about the target in this or any earlier dispute, each by the same amount or
\* by all it has, and nobody else but the target's relay.
THEOREM WrongVotesSlashed == Spec => FraudSlashesEveryWrongVote
<1>1. AdjudicationInv /\ ExposureInvariant /\ VotesNeedQuorum /\ [Next]_vars
      => [\A i \in DOMAIN disputes :
            FraudVerdict(i) =>
              LET target == disputes[i].target
                  wrong  == UNION {disputes'[j].validAttesters : j \in DisputesAbout(target)}
                  Funds(a) == verifierStake[a] + relayStake[a]
              IN  \A a \in Address \ {TargetRelay(target)} :
                    verifierStake'[a] + relayStake'[a] =
                      IF a \in wrong
                      THEN Funds(a) - AtMost(Funds(a), verifierSlashAmount)
                      ELSE Funds(a)]_vars
  <2> SUFFICES ASSUME AdjudicationInv, ExposureInvariant, VotesNeedQuorum, [Next]_vars,
                      NEW i \in DOMAIN disputes, FraudVerdict(i)
               PROVE  LET target == disputes[i].target
                          wrong  == UNION {disputes'[j].validAttesters :
                                             j \in DisputesAbout(target)}
                          Funds(a) == verifierStake[a] + relayStake[a]
                      IN  \A a \in Address \ {TargetRelay(target)} :
                            verifierStake'[a] + relayStake'[a] =
                              IF a \in wrong
                              THEN Funds(a) - AtMost(Funds(a), verifierSlashAmount)
                              ELSE Funds(a)
      OBVIOUS
  <2> DEFINE target == disputes[i].target
             wrong  == UNION {disputes'[j].validAttesters : j \in DisputesAbout(target)}
             Funds(a) == verifierStake[a] + relayStake[a]
  <2> SUFFICES ASSUME NEW a \in Address \ {TargetRelay(target)}
               PROVE  verifierStake'[a] + relayStake'[a] =
                        IF a \in wrong
                        THEN Funds(a) - AtMost(Funds(a), verifierSlashAmount)
                        ELSE Funds(a)
      OBVIOUS
  <2>1. wrong = Wrong(i) BY DEF Wrong
  <2>2. SlashedOnly(Wrong(i), a) BY StepSlashes DEF SlashesWrong
  <2> HIDE DEF wrong
  <2>3. CASE a \in wrong
    <3>1. /\ verifierStake[a] \in Nat /\ relayStake[a] \in Nat
          /\ verifierSlashAmount \in Nat
          BY ParameterAssumption DEF AdjudicationInv, TypeOK, MoneyTypes
    <3>2. AtMost(verifierStake[a] + relayStake[a], verifierSlashAmount) \in Nat
          BY <3>1 DEF AtMost
    <3>3. QED BY <2>1, <2>2, <2>3, <3>1, <3>2 DEF SlashedOnly
  <2>4. CASE a \notin wrong BY <2>1, <2>2, <2>4 DEF SlashedOnly
  <2>5. QED BY <2>3, <2>4
<1>2. QED BY <1>1, QuorumVotes, PTL DEF Spec, FraudSlashesEveryWrongVote

-----------------------------------------------------------------------------
(* Where the money goes.                                                   *)

\* What the contract may keep of each dispute in a list.
Allowances(ds) == [i \in DOMAIN ds |-> Allowance(ds[i])]

\* It is a ledger over the disputes.
LEMMA AllowancesType ==
  ASSUME NEW ds \in Seq(Dispute)
  PROVE  /\ DOMAIN ds = 1 .. Len(ds) /\ IsFiniteSet(DOMAIN ds)
         /\ Allowances(ds) \in [DOMAIN ds -> Nat]
         /\ Total(Allowances(ds)) \in Nat
<1>1. DOMAIN ds = 1 .. Len(ds) /\ Len(ds) \in Nat OBVIOUS
<1>2. IsFiniteSet(DOMAIN ds) BY <1>1, FS_Interval
<1>3. \A i \in DOMAIN ds : ds[i] \in Dispute OBVIOUS
<1>4. \A i \in DOMAIN ds : Allowance(ds[i]) \in Nat BY <1>3, AllowanceType
<1>5. Allowances(ds) \in [DOMAIN ds -> Nat] BY <1>4 DEF Allowances
<1>6. QED BY <1>1, <1>2, <1>5, TotalType

\* A new dispute allows nothing.
LEMMA NothingAllowed ==
  ASSUME NEW ds \in Seq(Dispute), NEW d \in Dispute, ~d.resolved,
         NEW es, es = Append(ds, d)
  PROVE  Total(Allowances(es)) = Total(Allowances(ds))
<1> DEFINE n == Len(ds) + 1
           f == Allowances(ds)
           g == Allowances(es)
<1>1. /\ es \in Seq(Dispute) /\ DOMAIN ds = 1 .. Len(ds) /\ Len(ds) \in Nat
      /\ DOMAIN es = 1 .. Len(ds) + 1 /\ es[n] = d
      /\ \A i \in DOMAIN ds : es[i] = ds[i]
      BY SeqAppend
<1>2. n \notin DOMAIN ds /\ n \in DOMAIN es BY <1>1
<1>3. Allowance(d) = 0 BY AllowanceType
<1>4. g[n] = 0 /\ \A i \in DOMAIN ds : g[i] = f[i]
      BY <1>1, <1>2, <1>3 DEF Allowances
<1>5. /\ IsFiniteSet(DOMAIN ds) /\ f \in [DOMAIN ds -> Nat] /\ Total(f) \in Nat
      BY AllowancesType
<1>6. g \in [DOMAIN es -> Nat] BY <1>1, AllowancesType
<1> DEFINE S == DOMAIN ds
           U == DOMAIN es
<1>7. Total(g) = Total(f) + g[n]
  <2>1. /\ n \notin S /\ n \in U /\ IsFiniteSet(S) /\ f \in [S -> Nat]
        /\ g \in [U -> Nat] /\ \A i \in S : g[i] = f[i]
        BY <1>2, <1>4, <1>5, <1>6
  <2>2. S \subseteq U /\ \A i \in U : i # n => i \in S BY <1>1
  <2> HIDE DEF n, f, g, S, U
  <2>3. QED BY <2>1, <2>2, TotalNewKey, SMTT(60)
<1> HIDE DEF n, f, g
<1>8. Total(g) = Total(f) BY <1>4, <1>5, <1>7
<1>9. QED BY <1>8 DEF f, g

\* A ruling allows what its outcome loses.
LEMMA RulingAllows ==
  ASSUME NEW ds \in Seq(Dispute), NEW i \in DOMAIN ds, ~ds[i].resolved,
         NEW es \in Seq(Dispute), DOMAIN es = DOMAIN ds,
         \A j \in DOMAIN ds : j # i => es[j] = ds[j],
         NEW d \in Dispute, es[i] = d
  PROVE  Total(Allowances(es)) = Total(Allowances(ds)) + Allowance(d)
<1> DEFINE f == Allowances(ds)
           g == Allowances(es)
<1>1. /\ IsFiniteSet(DOMAIN ds) /\ f \in [DOMAIN ds -> Nat]
      /\ g \in [DOMAIN ds -> Nat]
      BY AllowancesType
<1>2. ds[i] \in Dispute OBVIOUS
<1>3. Allowance(ds[i]) = 0 /\ Allowance(d) \in Nat BY <1>2, AllowanceType
<1>4. /\ \A j \in DOMAIN ds : j # i => g[j] = f[j]
      /\ f[i] = 0 /\ g[i] = Allowance(d)
      BY <1>3 DEF Allowances
<1> HIDE DEF f, g
<1>5. Total(g) = Total(f) + g[i] - f[i] /\ Total(f) \in Nat
      BY <1>1, <1>4, TotalChange, SMTT(60)
<1>6. QED BY <1>3, <1>4, <1>5 DEF f, g

\* Burned halves and dust are the two kinds of allowance.
LEMMA TwoLosses ==
  ASSUME TypeOK
  PROVE  Total(Burned) + Total(Dust) = Total(Allowances(disputes))
<1>1. PICK ds \in Seq(Dispute) : ds = disputes
      BY DEF TypeOK, DisputeTypes
<1>2. PICK S, f, g, h : S = DOMAIN ds /\ f = Burned /\ g = Dust /\ h = Allowances(ds)
      OBVIOUS
<1>3. IsFiniteSet(S) /\ h \in [S -> Nat] BY <1>2, AllowancesType
<1>4. ASSUME NEW i \in S
      PROVE  /\ f[i] \in Nat /\ g[i] \in Nat /\ h[i] = f[i] + g[i]
  <2>1. PICK d \in Dispute : d = ds[i] BY <1>2
  <2>2. /\ d.bond - d.bond \div 2 \in Nat
        /\ Cardinality(d.fraudAttesters) \in Nat /\ Cardinality(d.validAttesters) \in Nat
        /\ quorum = 0 => FraudQuorum(d)
        /\ Allowance(d) \in Nat
    <3>1. d.bond \in Nat BY AllowanceType
    <3>2. d.bond - d.bond \div 2 \in Nat BY <3>1
    <3>3. QED BY <3>2, AllowanceType
  <2>3. /\ f[i] = IF Expired(d) THEN d.bond - d.bond \div 2 ELSE 0
        /\ g[i] = IF FoundFraud(d) THEN Cardinality(d.fraudAttesters)
                  ELSE IF FoundSpurious(d) THEN Cardinality(d.validAttesters) - 1 ELSE 0
        /\ h[i] = Allowance(d)
        BY <1>1, <1>2, <2>1 DEF Burned, Dust, Allowances
  <2>4. CASE Expired(d)
    <3>1. ~FoundFraud(d) /\ ~FoundSpurious(d) BY <2>4 DEF Expired, FoundFraud, FoundSpurious
    <3>2. QED BY <2>2, <2>3, <2>4, <3>1 DEF Allowance
  <2>5. CASE ~Expired(d)
    <3>1. f[i] = 0 /\ g[i] = Allowance(d) BY <2>3, <2>5 DEF Allowance
    <3>2. QED BY <2>2, <2>3, <3>1
  <2>6. QED BY <2>4, <2>5
<1>5. DOMAIN f = S /\ DOMAIN g = S BY <1>1, <1>2 DEF Burned, Dust
<1>6. f \in [S -> Nat] /\ g \in [S -> Nat]
  <2>1. f = [i \in S |-> f[i]] /\ g = [i \in S |-> g[i]]
        BY <1>1, <1>2 DEF Burned, Dust
  <2>2. QED BY <1>4, <2>1
<1>7. Total(h) = Total(f) + Total(g)
  <2>1. \A i \in S : h[i] = f[i] + g[i] BY <1>4
  <2>2. QED BY <1>3, <1>6, <2>1, TotalSum, SMTT(60)
<1>8. QED BY <1>1, <1>2, <1>3, <1>6, <1>7, TotalType

\* The balance is what is owed and no more than that is allowed on top.
RetainsAllowed ==
  quorum > 0 =>
    balance <= Held + Total(Bonds(disputes)) + Total(Allowances(disputes))

\* No step keeps more: an open dispute has no quorum, so one that runs past its
\* deadline is allowed the burned half.
LEMMA NextRetains ==
  ASSUME TypeOK, VerdictMatchesVotes, RetainsAllowed, [Next]_vars
  PROVE  RetainsAllowed'
<1> SUFFICES ASSUME quorum > 0
             PROVE  balance' <= Held' + Total(Bonds(disputes'))
                                  + Total(Allowances(disputes'))
    BY DEF RetainsAllowed
<1>0. TypeOK' BY NextTypes
<1>1. /\ Held \in Nat /\ balance \in Nat /\ Total(Bonds(disputes)) \in Nat
      /\ disputes \in Seq(Dispute) /\ Total(Allowances(disputes)) \in Nat
      /\ balance <= Held + Total(Bonds(disputes)) + Total(Allowances(disputes))
      BY HeldType, AllowancesType DEF RetainsAllowed
<1>2. /\ Held' \in Nat /\ balance' \in Nat /\ disputes' \in Seq(Dispute)
  <2>1. /\ relayStake' \in [Address -> Nat] /\ verifierStake' \in [Address -> Nat]
        /\ pendingWithdrawals' \in [Address -> Nat] /\ balance' \in Nat
        /\ disputes' \in Seq(Dispute)
        BY <1>0 DEF TypeOK, MoneyTypes, DisputeTypes
  <2>2. /\ Total(relayStake') \in Nat /\ Total(verifierStake') \in Nat
        /\ Total(pendingWithdrawals') \in Nat
        BY <2>1, TotalType, ParameterAssumption
  <2>3. QED BY <2>1, <2>2 DEF Held
<1>3. CASE Balanced
  <2>1. disputes' = disputes /\ balance' + Held = balance + Held'
        BY <1>3 DEF Balanced
  <2>2. /\ Total(Bonds(disputes')) = Total(Bonds(disputes))
        /\ Total(Allowances(disputes')) = Total(Allowances(disputes))
        BY <2>1
  <2>3. QED BY <1>1, <1>2, <2>1, <2>2
<1>4. ASSUME NEW d \in Dispute, Locks(d)
      PROVE  balance' <= Held' + Total(Bonds(disputes')) + Total(Allowances(disputes'))
  <2>1. /\ disputes' = Append(disputes, d) /\ ~d.resolved
        /\ balance' = balance + d.bond /\ Held' = Held /\ d.bond \in Nat
        BY <1>4 DEF Locks, Dispute
  <2>2. Total(Bonds(disputes')) = Total(Bonds(disputes)) + d.bond
        BY <1>1, <2>1, BondLocked
  <2>3. Total(Allowances(disputes')) = Total(Allowances(disputes))
        BY <1>1, <2>1, NothingAllowed
  <2>4. QED BY <1>1, <1>2, <2>1, <2>2, <2>3
<1>5. ASSUME NEW i \in DOMAIN disputes, NEW d \in Dispute, Settles(i, d)
      PROVE  balance' <= Held' + Total(Bonds(disputes')) + Total(Allowances(disputes'))
  <2>1. /\ disputes' = [disputes EXCEPT ![i] = d] /\ ~disputes[i].resolved
        /\ d.bond = disputes[i].bond /\ balance' = balance
        BY <1>5 DEF Settles
  <2>2. ~FraudQuorum(disputes[i]) /\ ~ValidQuorum(disputes[i])
        BY <2>1 DEF VerdictMatchesVotes
  <2>3. \/ d.resolved /\ Held + d.bond <= Held' + Allowance(d)
        \/ ~d.resolved /\ Held' = Held
        BY <1>5, <2>2 DEF Settles
  <2>4. /\ d.resolved => Total(Bonds(disputes')) = Total(Bonds(disputes)) - d.bond
        /\ ~d.resolved => Total(Bonds(disputes')) = Total(Bonds(disputes))
        /\ d.bond \in Nat
        /\ Total(Allowances(disputes')) = Total(Allowances(disputes)) + Allowance(d)
    <3> DEFINE ds == disputes
               es == disputes'
    <3>1. /\ ds \in Seq(Dispute) /\ i \in DOMAIN ds /\ ~ds[i].resolved
          /\ d.bond = ds[i].bond
          /\ es \in Seq(Dispute) /\ DOMAIN es = DOMAIN ds /\ es[i] = d
          /\ \A j \in DOMAIN ds : j # i => es[j] = ds[j]
          BY <1>1, <2>1, SeqUpdate
    <3> HIDE DEF ds, es
    <3>2. /\ d.resolved => Total(Bonds(es)) = Total(Bonds(ds)) - d.bond
          /\ ~d.resolved => Total(Bonds(es)) = Total(Bonds(ds))
          /\ d.bond \in Nat
          BY <3>1, BondReleased
    <3>3. Total(Allowances(es)) = Total(Allowances(ds)) + Allowance(d)
          BY <3>1, RulingAllows
    <3>4. QED BY <3>2, <3>3 DEF ds, es
  <2>5. Allowance(d) \in Nat /\ (~d.resolved => Allowance(d) = 0) BY AllowanceType
  <2>6. Total(Bonds(disputes')) \in Nat /\ Total(Allowances(disputes')) \in Nat
        BY <1>2, BondsType, AllowancesType
  <2>7. CASE d.resolved
    <3>1. /\ Held + d.bond <= Held' + Allowance(d)
          /\ Total(Bonds(disputes')) = Total(Bonds(disputes)) - d.bond
          BY <2>3, <2>4, <2>7
    <3>2. Total(Allowances(disputes')) = Total(Allowances(disputes)) + Allowance(d)
          BY <2>4
    <3>3. balance' = balance /\ d.bond \in Nat /\ Allowance(d) \in Nat
          BY <2>1, <2>4, <2>5
    <3> DEFINE debt == Held + Total(Bonds(disputes))
               debtAfter == Held' + Total(Bonds(disputes'))
    <3>4. debt \in Nat /\ debtAfter \in Nat /\ debt <= debtAfter + Allowance(d)
      <4>1. PICK h, m, b, c, x, n :
               /\ h = Held /\ m = Held' /\ b = Total(Bonds(disputes))
               /\ c = Total(Bonds(disputes')) /\ x = d.bond /\ n = Allowance(d)
            OBVIOUS
      <4>2. /\ h \in Nat /\ m \in Nat /\ b \in Nat /\ c \in Nat /\ x \in Nat /\ n \in Nat
            BY <1>1, <1>2, <2>6, <3>3, <4>1
      <4>3. h + x <= m + n /\ c = b - x BY <3>1, <4>1
      <4>4. h + b <= m + c + n BY <4>2, <4>3
      <4>5. h + b \in Nat /\ m + c \in Nat BY <4>2
      <4>6. QED BY <4>1, <4>4, <4>5
    <3>5. balance <= debt + Total(Allowances(disputes)) BY <1>1
    <3> HIDE DEF debt, debtAfter
    <3>6. balance' <= debtAfter + Total(Allowances(disputes'))
          BY <1>1, <2>6, <3>2, <3>3, <3>4, <3>5
    <3>7. QED BY <3>6 DEF debtAfter
  <2>8. CASE ~d.resolved
    <3>1. Held' = Held BY <2>3, <2>8
    <3>2. Total(Bonds(disputes')) = Total(Bonds(disputes)) BY <2>4, <2>8
    <3>3. Allowance(d) = 0 BY <2>5, <2>8
    <3>4. Total(Allowances(disputes')) = Total(Allowances(disputes))
          BY <1>1, <2>4, <3>3
    <3>5. QED BY <1>1, <2>1, <3>1, <3>2, <3>4
  <2>9. QED BY <2>7, <2>8
<1>6. QED BY <1>3, <1>4, <1>5, MoneyMoves

\* Every wei that a dispute redistributes arrives: what the contract keeps
\* beyond its debts is the burned halves of expired bonds and, for each verdict,
\* less than one unit per attester.
THEOREM OnlyDust == Spec => []KeepsOnlyDust
<1>1. Init => RetainsAllowed
  <2> SUFFICES ASSUME Init PROVE RetainsAllowed OBVIOUS
  <2>1. Held = 0 /\ Total(Bonds(disputes)) = 0 /\ balance = 0 BY InitSolvent
  <2>2. Total(Allowances(disputes)) \in Nat BY InitTypes, HeldType, AllowancesType
  <2>3. QED BY <2>1, <2>2 DEF RetainsAllowed
<1>2. TypeOK /\ VerdictMatchesVotes /\ RetainsAllowed /\ [Next]_vars => RetainsAllowed'
      BY NextRetains
<1>3. TypeOK /\ RetainsAllowed => KeepsOnlyDust
  <2> SUFFICES ASSUME TypeOK, RetainsAllowed, quorum > 0
               PROVE  balance - Liabilities <= Total(Burned) + Total(Dust)
      BY DEF KeepsOnlyDust
  <2>1. /\ Held \in Nat /\ balance \in Nat /\ Total(Bonds(disputes)) \in Nat
        /\ Total(Allowances(disputes)) \in Nat
        BY HeldType, AllowancesType
  <2>2. balance <= Held + Total(Bonds(disputes)) + Total(Allowances(disputes))
        BY DEF RetainsAllowed
  <2>3. QED BY <2>1, <2>2, Owed, TwoLosses
<1>4. QED BY <1>1, <1>2, <1>3, TypeCorrect, Verdicts, PTL DEF Spec

-----------------------------------------------------------------------------
(* AccountableRelay implements Adjudication: the case of a target, CaseOf,  *)
(* moves as the abstract specification says or not at all. Cases are        *)
(* compared by their parts; the shapes of steps say which parts change.     *)

\* A case by its parts.
MakeCase(phase, accused, window, deadline, fraud, valid, liable) ==
  [phase |-> phase, accused |-> accused, window |-> window,
   deadline |-> deadline, fraud |-> fraud, valid |-> valid, liable |-> liable]

\* What the abstract operators make of it: it is closed, disputed, voted on.
LEMMA CaseParts ==
  ASSUME NEW p, NEW a, NEW w, NEW dl, NEW f, NEW v, NEW l,
         NEW c, c = MakeCase(p, a, w, dl, f, v, l)
  PROVE  /\ c.phase = p /\ c.accused = a /\ c.window = w /\ c.deadline = dl
         /\ c.fraud = f /\ c.valid = v /\ c.liable = l
BY DEF MakeCase

\* Closing a case keeps who is accused and until when, and no vote.
LEMMA CaseClosed ==
  ASSUME NEW p, NEW a, NEW w, NEW dl, NEW f, NEW v, NEW l,
         NEW c, c = MakeCase(p, a, w, dl, f, v, l), NEW q, NEW m
  PROVE  court!Closed(c, q, m) = MakeCase(q, a, w, 0, {}, {}, m)
BY DEF MakeCase, court!Closed, court!Quiet

\* Disputing a case starts its clock and keeps whom it lists.
LEMMA CaseDisputed ==
  ASSUME NEW p, NEW a, NEW w, NEW dl, NEW f, NEW v, NEW l,
         NEW c, c = MakeCase(p, a, w, dl, f, v, l)
  PROVE  court!Disputed(c)
           = MakeCase("disputed", a, w, now + challengePeriod, f, v, l)
<1>1. c = [phase |-> p, accused |-> a, window |-> w, deadline |-> dl, fraud |-> f,
           valid |-> v, liable |-> l]
      BY DEF MakeCase
<1>2. PICK e : e = [c EXCEPT !.phase = "disputed"] OBVIOUS
<1>3. e = [phase |-> "disputed", accused |-> a, window |-> w, deadline |-> dl,
           fraud |-> f, valid |-> v, liable |-> l]
      BY <1>1, <1>2
<1>4. court!Disputed(c) = [e EXCEPT !.deadline = now + challengePeriod]
      BY <1>2 DEF court!Disputed
<1>5. QED BY <1>3, <1>4 DEF MakeCase

\* A vote joins its side.
LEMMA CaseVoted ==
  ASSUME NEW p, NEW a, NEW w, NEW dl, NEW f, NEW v, NEW l,
         NEW c, c = MakeCase(p, a, w, dl, f, v, l), NEW x
  PROVE  /\ court!FraudVote(c, x) = MakeCase(p, a, w, dl, f \cup {x}, v, l)
         /\ court!ValidVote(c, x) = MakeCase(p, a, w, dl, f, v \cup {x}, l)
BY DEF MakeCase, court!FraudVote, court!ValidVote

\* The abstract specification counts votes as the contract does.
LEMMA SameCount == ASSUME NEW S PROVE court!Cardinality(S) = Cardinality(S)
BY DEF court!Cardinality, Cardinality

\* A case is judged by the side that has the quorum, fraud first.
LEMMA CaseJudged ==
  ASSUME NEW p, NEW a, NEW w, NEW dl, NEW f, NEW v, NEW l,
         NEW c, c = MakeCase(p, a, w, dl, f, v, l)
  PROVE  court!Judged(c) =
           IF Cardinality(f) >= quorum THEN MakeCase("revoked", a, w, 0, {}, {}, {})
           ELSE IF Cardinality(v) >= quorum
           THEN MakeCase("undecided", a, w, 0, {}, {}, l \cup v) ELSE c
<1>1. c.fraud = f /\ c.valid = v /\ c.liable = l BY CaseParts
<1>2. /\ court!Closed(c, "revoked", {}) = MakeCase("revoked", a, w, 0, {}, {}, {})
      /\ court!Closed(c, "undecided", l \cup v)
           = MakeCase("undecided", a, w, 0, {}, {}, l \cup v)
      BY CaseClosed
<1>3. court!Cardinality(f) = Cardinality(f) /\ court!Cardinality(v) = Cardinality(v)
      BY SameCount
<1>4. QED BY <1>1, <1>2, <1>3 DEF court!Judged

\* The case of what is not posted, and of what has just been.
LEMMA NewCases ==
  /\ court!Absent = MakeCase("absent", ZeroAddress, 0, 0, {}, {}, {})
  /\ \A a : court!Posted(a) = MakeCase("undecided", a, now + challengePeriod, 0, {}, {}, {})
<1>1. court!Absent = MakeCase("absent", ZeroAddress, 0, 0, {}, {}, {})
      BY DEF MakeCase, court!Absent, court!Quiet
<1>2. ASSUME NEW a
      PROVE  court!Posted(a)
               = MakeCase("undecided", a, now + challengePeriod, 0, {}, {}, {})
      BY DEF MakeCase, court!Quiet, court!Posted
<1>3. QED BY <1>1, <1>2

\* The dispute that is chosen is the open one, if there is one.
LEMMA TheOnlyOne ==
  ASSUME NEW ds, NEW O, NEW i \in O, NEW t, ds[i].target = t,
         \A j \in O : ds[j].target = t => j = i
  PROVE  (CHOOSE d \in {ds[j] : j \in O} : d.target = t) = ds[i]
<1>1. \A d \in {ds[j] : j \in O} : d.target = t <=> d = ds[i] OBVIOUS
<1>2. ds[i] \in {ds[j] : j \in O} OBVIOUS
<1>3. QED BY <1>1, <1>2

\* The case of a target whose open dispute is dispute i, now and next.
LEMMA DisputedCase ==
  ASSUME OneOpenEach, NEW i \in OpenDisputes, NEW t \in Target,
         disputes[i].target = t, Phase(t) = "disputed"
  PROVE  CaseOf(t) = MakeCase("disputed", TargetRelay(t), SubmittedAt(t) + challengePeriod,
                              disputes[i].deadline, disputes[i].fraudAttesters,
                              disputes[i].validAttesters, targetValidList[t])
<1>1. OpenDisputeAbout(t) = disputes[i]
      BY TheOnlyOne DEF OneOpenEach, OpenDisputeAbout
<1>2. Posted(t) BY DEF Phase
<1>3. QED BY <1>1, <1>2 DEF CaseOf, MakeCase

\* The same after a step.
LEMMA DisputedCaseNext ==
  ASSUME OneOpenEach', NEW i \in OpenDisputes', NEW t \in Target,
         disputes'[i].target = t, Phase(t)' = "disputed"
  PROVE  CaseOf(t)' = MakeCase("disputed", TargetRelay(t)',
                               SubmittedAt(t)' + challengePeriod,
                               disputes'[i].deadline, disputes'[i].fraudAttesters,
                               disputes'[i].validAttesters, targetValidList'[t])
<1>1. OpenDisputeAbout(t)' = disputes'[i]
      BY TheOnlyOne DEF OneOpenEach, OpenDisputeAbout
<1>2. Posted(t)' BY DEF Phase
<1>3. QED BY <1>1, <1>2 DEF CaseOf, MakeCase

\* The case of any other target.
LEMMA QuietCase ==
  ASSUME NEW t \in Target
  PROVE  /\ Posted(t) /\ Phase(t) # "disputed" =>
              CaseOf(t) = MakeCase(Phase(t), TargetRelay(t),
                                   SubmittedAt(t) + challengePeriod, 0, {}, {},
                                   targetValidList[t])
         /\ ~Posted(t) =>
              CaseOf(t) = MakeCase("absent", ZeroAddress, 0, 0, {}, {},
                                   targetValidList[t])
BY DEF CaseOf, MakeCase, Phase

\* The same after a step.
LEMMA QuietCaseNext ==
  ASSUME NEW t \in Target
  PROVE  /\ Posted(t)' /\ Phase(t)' # "disputed" =>
              CaseOf(t)' = MakeCase(Phase(t)', TargetRelay(t)',
                                    SubmittedAt(t)' + challengePeriod, 0, {}, {},
                                    targetValidList'[t])
         /\ ~Posted(t)' =>
              CaseOf(t)' = MakeCase("absent", ZeroAddress, 0, 0, {}, {},
                                    targetValidList'[t])
BY DEF CaseOf, MakeCase, Phase

\* A target that is kept, with its open dispute and its list, keeps its case.
LEMMA CaseKept ==
  ASSUME DisputeInvariant, DisputeInvariant', NEW t \in Target, KeepsTarget(t),
         Posted(t) => SubmittedAt(t)' = SubmittedAt(t),
         targetValidList'[t] = targetValidList[t],
         \A i \in OpenDisputes :
           disputes[i].target = t =>
             i \in OpenDisputes' /\ disputes'[i] = disputes[i]
  PROVE  CaseOf(t)' = CaseOf(t)
<1>1. Phase(t)' = Phase(t) BY DEF KeepsTarget, Phase
<1>2. Posted(t) => TargetRelay(t)' = TargetRelay(t) BY DEF KeepsTarget
<1>3. Posted(t)' <=> Posted(t) BY DEF KeepsTarget
<1>4. CASE Phase(t) = "disputed"
  <2>1. Posted(t) /\ TargetState(t) = "Disputed" BY <1>4 DEF Phase
  <2>2. PICK i \in OpenDisputes : disputes[i].target = t
        BY <2>1 DEF DisputeInvariant, DisputedMeansOpen, DisputesAbout
  <2>3. i \in OpenDisputes' /\ disputes'[i] = disputes[i] BY <2>2
  <2>4. OneOpenEach /\ OneOpenEach' BY DEF DisputeInvariant
  <2>5. QED BY <1>1, <1>2, <1>4, <2>1, <2>2, <2>3, <2>4, DisputedCase, DisputedCaseNext
<1>5. CASE Phase(t) # "disputed"
      BY <1>1, <1>2, <1>3, <1>5, QuietCase, QuietCaseNext
<1>6. QED BY <1>4, <1>5

\* What was posted keeps its time.
LEMMA TimesKept ==
  ASSUME SamePosted, NEW t \in Target, Posted(t)
  PROVE  SubmittedAt(t)' = SubmittedAt(t)
BY DEF SamePosted, SameRecord, SameBatch, Posted, SubmittedAt

\* The cases of a set change and the others keep.
LEMMA CasesBecome ==
  ASSUME NEW new, DOMAIN new \subseteq Target, UNCHANGED now,
         \A t \in Target : t \in DOMAIN new => CaseOf(t)' = new[t],
         \A t \in Target : t \notin DOMAIN new => CaseOf(t)' = CaseOf(t)
  PROVE  court!Become(new)
BY DEF court!Become

\* One case changes and the others keep.
LEMMA OneCaseBecomes ==
  ASSUME NEW t \in Target, NEW c, UNCHANGED now, CaseOf(t)' = c,
         \A u \in Target : u # t => CaseOf(u)' = CaseOf(u)
  PROVE  court!Become([u \in {t} |-> c])
<1>1. PICK new : new = [u \in {t} |-> c] OBVIOUS
<1>2. DOMAIN new = {t} /\ new[t] = c BY <1>1
<1>3. court!Become(new) BY <1>2, CasesBecome
<1>4. QED BY <1>1, <1>3

\* If each case keeps, so does the function of all.
LEMMA NoCaseChanges ==
  ASSUME \A t \in Target : CaseOf(t)' = CaseOf(t)
  PROVE  [t \in Target |-> CaseOf(t)]' = [t \in Target |-> CaseOf(t)]
OBVIOUS

\* No case changes when nothing happens; time may pass.
LEMMA IdleRefines ==
  ASSUME AdjudicationInv, AdjudicationInv', Idles
  PROVE  court!Pass \/ UNCHANGED court!vars
<1>1. /\ UNCHANGED <<records, batches, batchLeafState, disputes, targetValidList>>
      /\ now' >= now
      BY DEF Idles, targetVars, exposureVars
<1>2. TypeOK /\ TypeOK' BY DEF AdjudicationInv
<1>3. now \in Nat /\ now' \in Nat BY <1>2 DEF TypeOK, ChainTypes
<1>4. SamePosted BY <1>1, <1>2, SamePostedCases DEF TypeOK
<1>5. ASSUME NEW t \in Target PROVE CaseOf(t)' = CaseOf(t)
  <2>1. KeepsTarget(t) BY <1>1, <1>4, TargetKept
  <2>2. Posted(t) => SubmittedAt(t)' = SubmittedAt(t) BY <1>4, TimesKept
  <2>3. \A i \in OpenDisputes : i \in OpenDisputes' /\ disputes'[i] = disputes[i]
        BY <1>1 DEF OpenDisputes
  <2>4. QED BY <1>1, <2>1, <2>2, <2>3, CaseKept DEF AdjudicationInv
<1>6. [t \in Target |-> CaseOf(t)]' = [t \in Target |-> CaseOf(t)]
      BY <1>5, NoCaseChanges
<1>7. CASE now' = now BY <1>6, <1>7 DEF court!vars
<1>8. CASE now' # now BY <1>1, <1>3, <1>6, <1>8 DEF court!Pass
<1>9. QED BY <1>7, <1>8

\* A target that is kept keeps its case when no dispute and no list changes.
LEMMA OthersKeepCase ==
  ASSUME AdjudicationInv, AdjudicationInv', NEW t \in Target, KeepsTarget(t),
         Posted(t) => SubmittedAt(t)' = SubmittedAt(t),
         UNCHANGED disputes, targetValidList'[t] = targetValidList[t]
  PROVE  CaseOf(t)' = CaseOf(t)
<1>1. \A i \in OpenDisputes : i \in OpenDisputes' /\ disputes'[i] = disputes[i]
      BY DEF OpenDisputes
<1>2. QED BY <1>1, CaseKept DEF AdjudicationInv

\* Submission opens the cases of what is posted.
LEMMA SubmitRefines ==
  ASSUME AdjudicationInv, AdjudicationInv', ExposureInvariant, Submits
  PROVE  (\E S \in (SUBSET Target) \ {{}} : court!Post(S)) \/ UNCHANGED court!vars
<1> DEFINE S == {t \in Target : ~Posted(t) /\ Posted(t)'}
<1>1. PICK a \in Address : \A t \in S : PostedBy(a, t) BY DEF Submits
<1>2. UNCHANGED <<now, disputes, targetValidList>> BY DEF Submits, exposureVars
<1>3. \A t \in Target : ~Posted(t) => targetValidList[t] = {}
      BY DEF ExposureInvariant, ListsVouched, Undecided
<1>4. ASSUME NEW t \in Target, ~Posted(t) PROVE CaseOf(t) = court!Absent
      BY <1>3, <1>4, QuietCase, NewCases
<1>5. ASSUME NEW t \in S PROVE CaseOf(t)' = court!Posted(a)
  <2>1. /\ TargetState(t)' \notin {"Disputed", "Revoked"} /\ ~Settled(t)'
        /\ Posted(t)'
        BY DEF Submits
  <2>2. Phase(t)' = "undecided" BY <2>1 DEF Phase
  <2>3. TargetRelay(t)' = a /\ SubmittedAt(t)' = now BY <1>1 DEF PostedBy
  <2>4. targetValidList'[t] = {} BY <1>2, <1>3
  <2>5. CaseOf(t)' = MakeCase("undecided", a, now + challengePeriod, 0, {}, {}, {})
        BY <2>1, <2>2, <2>3, <2>4, QuietCaseNext
  <2>6. QED BY <2>5, NewCases
<1>6. ASSUME NEW t \in Target \ S PROVE CaseOf(t)' = CaseOf(t)
  <2>1. CASE Posted(t)
    <3>1. KeepsTarget(t) /\ SubmittedAt(t)' = SubmittedAt(t) BY <2>1 DEF Submits
    <3>2. QED BY <1>2, <3>1, OthersKeepCase
  <2>2. CASE ~Posted(t) /\ ~Posted(t)'
        BY <1>2, <2>2, QuietCase, QuietCaseNext
  <2>3. QED BY <2>1, <2>2
<1>7. CASE S = {}
      BY <1>2, <1>6, <1>7, NoCaseChanges DEF court!vars
<1>8. CASE S # {}
  <2>1. PICK new : new = [t \in S |-> court!Posted(a)] OBVIOUS
  <2>2. DOMAIN new = S /\ \A t \in S : new[t] = court!Posted(a) BY <2>1
  <2> HIDE DEF S
  <2>3. S \subseteq Target BY DEF S
  <2>4. court!Become(new) BY <1>2, <1>5, <1>6, <2>2, <2>3, CasesBecome
  <2>5. \A t \in S : [u \in Target |-> CaseOf(u)][t] = court!Absent
        BY <1>4, <2>3 DEF S
  <2>6. court!Post(S) BY <2>1, <2>4, <2>5 DEF court!Post
  <2>7. QED BY <1>8, <2>3, <2>6
<1>9. QED BY <1>7, <1>8

\* A posted target, undecided or confirmed or revoked, is in that phase.
LEMMA PhaseOf ==
  ASSUME NEW t \in Target, Posted(t)
  PROVE  /\ TargetState(t) \notin {"Disputed", "Revoked"} /\ ~Settled(t)
              => Phase(t) = "undecided"
         /\ TargetState(t) # "Revoked" /\ Settled(t) => Phase(t) = "confirmed"
         /\ TargetState(t) = "Revoked" => Phase(t) = "revoked"
         /\ TargetState(t) = "Disputed" /\ ~Settled(t) => Phase(t) = "disputed"
BY DEF Phase

\* The same after a step.
LEMMA PhaseOfNext ==
  ASSUME NEW t \in Target, Posted(t)'
  PROVE  /\ TargetState(t)' \notin {"Disputed", "Revoked"} /\ ~Settled(t)'
              => Phase(t)' = "undecided"
         /\ TargetState(t)' # "Revoked" /\ Settled(t)' => Phase(t)' = "confirmed"
         /\ TargetState(t)' = "Revoked" => Phase(t)' = "revoked"
         /\ TargetState(t)' = "Disputed" /\ ~Settled(t)' => Phase(t)' = "disputed"
BY DEF Phase

\* A revoked target is settled.
LEMMA RevokedSettled ==
  ASSUME NEW t, TargetState(t) = "Revoked"
  PROVE  Settled(t)
BY DEF Settled

\* Opening a dispute opens one about the case.
LEMMA OpenRefines ==
  ASSUME AdjudicationInv, AdjudicationInv', NEW t \in Target, NEW a \in Address,
         NEW bond \in Nat, Opens(t, a, bond)
  PROVE  court!Dispute(t)
<1>1. PICK n : n = Len(disputes) + 1 OBVIOUS
<1>2. TypeOK /\ OneOpenEach' BY DEF AdjudicationInv, DisputeInvariant
<1>3. /\ Posted(t) /\ TargetState(t) # "Disputed" /\ ~Settled(t)
      /\ TargetState(t)' = "Disputed" /\ ~Settled(t)'
      /\ SamePosted /\ OpenDispute(a, t, bond)
      /\ \A u \in Target : u # t => KeepsTarget(u)
      /\ UNCHANGED <<now, targetValidList>>
      BY DEF Opens, exposureVars
<1>4. Lists(t, n) BY <1>1, <1>2, <1>3, Opened
<1>5. /\ n \in OpenDisputes' /\ disputes'[n].target = t
      /\ disputes'[n].deadline = now + challengePeriod
      /\ disputes'[n].fraudAttesters = {} /\ disputes'[n].validAttesters = {}
      /\ \A i \in OpenDisputes : i \in OpenDisputes' /\ disputes'[i] = disputes[i]
      BY <1>4 DEF Lists, OpenDisputes
<1>6. Phase(t) = "undecided" BY <1>3, PhaseOf, RevokedSettled
<1>7. Posted(t)' /\ TargetRelay(t)' = TargetRelay(t) BY <1>3, PostedKeeps
<1>8. Phase(t)' = "disputed" BY <1>3, <1>7, PhaseOfNext
<1>9. SubmittedAt(t)' = SubmittedAt(t) BY <1>3, TimesKept
<1>10. PICK r, w, l : /\ r = TargetRelay(t) /\ w = SubmittedAt(t) + challengePeriod
                      /\ l = targetValidList[t]
       OBVIOUS
<1>11. CaseOf(t) = MakeCase("undecided", r, w, 0, {}, {}, l)
       BY <1>3, <1>6, <1>10, QuietCase
<1>12. CaseOf(t)' = MakeCase("disputed", r, w, now + challengePeriod, {}, {}, l)
       BY <1>2, <1>3, <1>5, <1>7, <1>8, <1>9, <1>10, DisputedCaseNext
<1>13. CaseOf(t).phase = "undecided" /\ CaseOf(t)' = court!Disputed(CaseOf(t))
       BY <1>11, <1>12, CaseDisputed, CaseParts
<1>14. ASSUME NEW u \in Target, u # t PROVE CaseOf(u)' = CaseOf(u)
  <2>1. KeepsTarget(u) BY <1>3, <1>14
  <2>2. Posted(u) => SubmittedAt(u)' = SubmittedAt(u) BY <1>3, TimesKept
  <2>3. QED BY <1>3, <1>5, <2>1, <2>2, CaseKept DEF AdjudicationInv
<1>15. court!Become([u \in {t} |-> court!Disputed(CaseOf(t))])
       BY <1>3, <1>13, <1>14, OneCaseBecomes
<1>16. QED BY <1>13, <1>15 DEF court!Dispute

\* A ruling in dispute i is about the case of its target and no other.
LEMMA RulingCase ==
  ASSUME AdjudicationInv, AdjudicationInv', NEW i \in DOMAIN disputes,
         NEW d \in Dispute, Rules(i, d), NEW t, t = disputes[i].target,
         \A u \in Target : u # t => targetValidList'[u] = targetValidList[u]
  PROVE  /\ t \in Target /\ Posted(t)' /\ UNCHANGED now
         /\ TargetRelay(t)' = TargetRelay(t) /\ SubmittedAt(t)' = SubmittedAt(t)
         /\ CaseOf(t) = MakeCase("disputed", TargetRelay(t),
                                 SubmittedAt(t) + challengePeriod,
                                 disputes[i].deadline, disputes[i].fraudAttesters,
                                 disputes[i].validAttesters, targetValidList[t])
         /\ \A u \in Target : u # t => CaseOf(u)' = CaseOf(u)
<1>1. /\ TypeOK /\ OpenMeansDisputed /\ OneOpenEach /\ BatchAudit
      /\ DisputeInvariant /\ DisputeInvariant'
      BY DEF AdjudicationInv, DisputeInvariant, LeafInvariant
<1>2. /\ i \in OpenDisputes /\ SamePosted /\ UNCHANGED now
      /\ \A u \in Target : u # t => KeepsTarget(u)
      BY DEF Rules
<1>3. t \in Target /\ Posted(t) /\ TargetState(t) = "Disputed" /\ ~Settled(t)
      BY <1>1, <1>2, OpenUnsettled
<1>4. Posted(t)' /\ TargetRelay(t)' = TargetRelay(t) BY <1>2, <1>3, PostedKeeps
<1>5. SubmittedAt(t)' = SubmittedAt(t) BY <1>2, <1>3, TimesKept
<1>6. Phase(t) = "disputed" BY <1>3, PhaseOf
<1>7. CaseOf(t) = MakeCase("disputed", TargetRelay(t),
                           SubmittedAt(t) + challengePeriod,
                           disputes[i].deadline, disputes[i].fraudAttesters,
                           disputes[i].validAttesters, targetValidList[t])
      BY <1>1, <1>2, <1>3, <1>6, DisputedCase
<1>8. ASSUME NEW u \in Target, u # t PROVE CaseOf(u)' = CaseOf(u)
  <2>1. KeepsTarget(u) BY <1>2, <1>8
  <2>2. Posted(u) => SubmittedAt(u)' = SubmittedAt(u) BY <1>2, TimesKept
  <2>3. ASSUME NEW j \in OpenDisputes, disputes[j].target = u
        PROVE  j \in OpenDisputes' /\ disputes'[j] = disputes[j]
    <3>1. j # i /\ j \in DOMAIN disputes BY <1>8, <2>3 DEF OpenDisputes
    <3>2. QED BY <1>1, <3>1, Ruled
  <2>4. targetValidList'[u] = targetValidList[u] BY <1>8
  <2>5. QED BY <1>1, <2>1, <2>2, <2>3, <2>4, CaseKept
<1>9. QED BY <1>2, <1>3, <1>4, <1>5, <1>7, <1>8

\* A vote in dispute i is one in the case, and is judged as the case says.
LEMMA VoteRefines ==
  ASSUME AdjudicationInv, AdjudicationInv', ExposureInvariant,
         NEW i \in DOMAIN disputes, NEW d \in Dispute,
         Counts(i, d) \/ Convicts(i, d) \/ Acquits(i, d)
  PROVE  \E t \in Target, v \in Address : court!Vote(t, v)
<1>1. PICK old, t : old = disputes[i] /\ t = disputes[i].target OBVIOUS
<1>2. Rules(i, d) /\ Ballot(i, d) /\ d.target = t
      BY <1>1 DEF Counts, Convicts, Acquits, Rules
<1>3. TypeOK /\ OneOpenEach' /\ OpenMeansDisputed /\ BatchAudit
      BY DEF AdjudicationInv, DisputeInvariant, LeafInvariant
<1>4. targetValidList \in [Target -> SUBSET Address]
      BY <1>3 DEF TypeOK, ExposureTypes
<1>5. /\ i \in OpenDisputes /\ t \in Target /\ Posted(t) /\ ~Settled(t)
      /\ old \in Dispute
      BY <1>1, <1>2, <1>3, OpenUnsettled DEF Rules
<1>6. targetValidHas[t] = targetValidList[t]
      BY <1>5 DEF ExposureInvariant, HasIsList, Undecided
<1>7. PICK r, w, l : /\ r = TargetRelay(t) /\ w = SubmittedAt(t) + challengePeriod
                     /\ l = targetValidList[t]
      OBVIOUS
<1>8. \A u \in Target : u # t => targetValidList'[u] = targetValidList[u]
      BY <1>2, <1>4 DEF Counts, Convicts, Acquits, exposureVars
<1>9. /\ Posted(t)' /\ UNCHANGED now
      /\ TargetRelay(t)' = r /\ SubmittedAt(t)' + challengePeriod = w
      /\ CaseOf(t) = MakeCase("disputed", r, w, old.deadline, old.fraudAttesters,
                              old.validAttesters, l)
      /\ \A u \in Target : u # t => CaseOf(u)' = CaseOf(u)
      BY <1>1, <1>2, <1>7, <1>8, RulingCase
<1>10. PICK v \in Address :
         /\ v # r /\ v \notin old.fraudAttesters \cup old.validAttesters
         /\ now <= old.deadline
         /\ \/ /\ d.fraudAttesters = old.fraudAttesters \cup {v}
               /\ d.validAttesters = old.validAttesters
            \/ /\ d.fraudAttesters = old.fraudAttesters
               /\ d.validAttesters = old.validAttesters \cup {v}
       BY <1>1, <1>2, <1>7 DEF Ballot
<1>11. PICK c : c = MakeCase("disputed", r, w, old.deadline, d.fraudAttesters,
                             d.validAttesters, l)
       OBVIOUS
<1>12. c = court!FraudVote(CaseOf(t), v) \/ c = court!ValidVote(CaseOf(t), v)
  <2>1. /\ court!FraudVote(CaseOf(t), v)
             = MakeCase("disputed", r, w, old.deadline, old.fraudAttesters \cup {v},
                        old.validAttesters, l)
        /\ court!ValidVote(CaseOf(t), v)
             = MakeCase("disputed", r, w, old.deadline, old.fraudAttesters,
                        old.validAttesters \cup {v}, l)
        BY <1>9, CaseVoted
  <2>2. QED BY <1>10, <1>11, <2>1
<1>13. CaseOf(t)' = court!Judged(c)
  <2>1. court!Judged(c) =
          IF FraudQuorum(d) THEN MakeCase("revoked", r, w, 0, {}, {}, {})
          ELSE IF ValidQuorum(d)
          THEN MakeCase("undecided", r, w, 0, {}, {}, l \cup d.validAttesters) ELSE c
        BY <1>11, CaseJudged DEF FraudQuorum, ValidQuorum
  <2>2. CASE Counts(i, d)
    <3>1. /\ ~d.resolved /\ ~FraudQuorum(d) /\ ~ValidQuorum(d)
          /\ KeepsTarget(t) /\ UNCHANGED targetValidList
          BY <1>2, <2>2 DEF Counts, exposureVars
    <3>2. i \in OpenDisputes' /\ disputes'[i] = d
          BY <1>2, <1>3, <3>1, Ruled
    <3>3. Phase(t) = "disputed"
          BY <1>1, <1>3, <1>5, OpenUnsettled, PhaseOf
    <3>4. Phase(t)' = "disputed" BY <1>5, <3>1, <3>3 DEF KeepsTarget, Phase
    <3>5. d.deadline = old.deadline BY <1>1, <1>2 DEF Rules
    <3>6. CaseOf(t)' = c
          BY <1>2, <1>3, <1>5, <1>7, <1>9, <1>11, <3>1, <3>2, <3>4, <3>5, DisputedCaseNext
    <3>7. QED BY <2>1, <3>1, <3>6
  <2>3. CASE Convicts(i, d)
    <3>1. /\ FraudQuorum(d) /\ TargetState(t)' = "Revoked"
          /\ targetValidList' = [targetValidList EXCEPT ![t] = {}]
          BY <1>2, <2>3 DEF Convicts
    <3>2. Phase(t)' = "revoked" BY <1>5, <1>9, <3>1, PhaseOfNext
    <3>3. targetValidList'[t] = {} BY <1>4, <1>5, <3>1
    <3>4. CaseOf(t)' = MakeCase("revoked", r, w, 0, {}, {}, {})
          BY <1>5, <1>9, <3>2, <3>3, QuietCaseNext
    <3>5. QED BY <2>1, <3>1, <3>4
  <2>4. CASE Acquits(i, d)
    <3>1. /\ ~FraudQuorum(d) /\ ValidQuorum(d)
          /\ TargetState(t)' \notin {"Disputed", "Revoked"} /\ ~Settled(t)'
          /\ targetValidList' =
               [targetValidList EXCEPT ![t] = @ \cup NewlyExposed(t, d.validAttesters)]
          BY <1>2, <2>4 DEF Acquits
    <3>2. Phase(t)' = "undecided" BY <1>5, <1>9, <3>1, PhaseOfNext
    <3>3. targetValidList'[t] = l \cup d.validAttesters
          BY <1>4, <1>5, <1>6, <1>7, <3>1 DEF NewlyExposed
    <3>4. CaseOf(t)' = MakeCase("undecided", r, w, 0, {}, {}, l \cup d.validAttesters)
          BY <1>5, <1>9, <3>2, <3>3, QuietCaseNext
    <3>5. QED BY <2>1, <3>1, <3>4
  <2>5. QED BY <2>2, <2>3, <2>4
<1>14. court!Become([u \in {t} |-> court!Judged(c)])
       BY <1>5, <1>9, <1>13, OneCaseBecomes
<1>15. /\ CaseOf(t).phase = "disputed" /\ now <= CaseOf(t).deadline
       /\ v \notin CaseOf(t).fraud \cup CaseOf(t).valid \cup {CaseOf(t).accused}
       BY <1>9, <1>10, CaseParts
<1>16. court!Vote(t, v)
  <2>1. [u \in Target |-> CaseOf(u)][t] = CaseOf(t) BY <1>5
  <2>2. QED BY <1>12, <1>14, <1>15, <2>1 DEF court!Vote
<1>17. QED BY <1>5, <1>16

\* The deadline decides the case.
LEMMA ExpireRefines ==
  ASSUME AdjudicationInv, AdjudicationInv', NEW i \in DOMAIN disputes,
         NEW d \in Dispute, Lapses(i, d)
  PROVE  \E t \in Target : court!Expire(t)
<1>1. PICK old, t : old = disputes[i] /\ t = disputes[i].target OBVIOUS
<1>2. /\ Rules(i, d) /\ d.target = t /\ now > old.deadline
      /\ TargetState(t)' = "Revoked"
      /\ targetValidList' = [targetValidList EXCEPT ![t] = {}]
      BY <1>1 DEF Lapses, Rules, ReleaseExposures
<1>3. targetValidList \in [Target -> SUBSET Address]
      BY DEF AdjudicationInv, TypeOK, ExposureTypes
<1>4. \A u \in Target : u # t => targetValidList'[u] = targetValidList[u]
      BY <1>2, <1>3
<1>5. PICK r, w, l : /\ r = TargetRelay(t) /\ w = SubmittedAt(t) + challengePeriod
                     /\ l = targetValidList[t]
      OBVIOUS
<1>6. /\ t \in Target /\ Posted(t)' /\ UNCHANGED now
      /\ TargetRelay(t)' = r /\ SubmittedAt(t)' + challengePeriod = w
      /\ CaseOf(t) = MakeCase("disputed", r, w, old.deadline, old.fraudAttesters,
                              old.validAttesters, l)
      /\ \A u \in Target : u # t => CaseOf(u)' = CaseOf(u)
      BY <1>1, <1>2, <1>4, <1>5, RulingCase
<1>7. Phase(t)' = "revoked" /\ targetValidList'[t] = {}
      BY <1>2, <1>3, <1>6, PhaseOfNext
<1>8. CaseOf(t)' = MakeCase("revoked", r, w, 0, {}, {}, {})
      BY <1>6, <1>7, QuietCaseNext
<1>9. CaseOf(t)' = court!Closed(CaseOf(t), "revoked", {})
      BY <1>6, <1>8, CaseClosed
<1>10. court!Become([u \in {t} |-> court!Closed(CaseOf(t), "revoked", {})])
       BY <1>6, <1>9, OneCaseBecomes
<1>11. CaseOf(t).phase = "disputed" /\ now > CaseOf(t).deadline
       BY <1>2, <1>6, CaseParts
<1>12. [u \in Target |-> CaseOf(u)][t] = CaseOf(t) BY <1>6
<1>13. QED BY <1>6, <1>10, <1>11, <1>12 DEF court!Expire

\* A record is confirmed: its case alone.
LEMMA ConfirmRefines ==
  ASSUME AdjudicationInv, AdjudicationInv', NEW i \in 1 .. MaxRecords, Confirms(i)
  PROVE  \E S \in (SUBSET Target) \ {{}} : court!Confirm(S)
<1>1. PICK t : t = RecordTarget(i) OBVIOUS
<1>2. /\ t \in Target /\ i \in DOMAIN records
      /\ TargetState(t) = "Provisional" /\ TargetState(t)' = "Confirmed"
      /\ now >= records[i].submittedAt + challengePeriod
      /\ SamePosted /\ \A u \in Target : u # t => KeepsTarget(u)
      /\ targetValidList' = [targetValidList EXCEPT ![t] = {}]
      /\ UNCHANGED <<now, disputes>>
      BY <1>1 DEF Confirms, ReleaseExposures
<1>3. t[1] = 0 /\ t[2] = i BY <1>1 DEF RecordTarget
<1>4. Posted(t) /\ ~Settled(t) /\ SubmittedAt(t) = records[i].submittedAt
      BY <1>2, <1>3 DEF Posted, Settled, SubmittedAt
<1>5. Posted(t)' /\ Settled(t)'
      BY <1>2, <1>3, <1>4, PostedKeeps DEF Settled
<1>6. /\ TargetRelay(t)' = TargetRelay(t) /\ SubmittedAt(t)' = SubmittedAt(t)
      BY <1>2, <1>4, PostedKeeps, TimesKept
<1>7. Phase(t) = "undecided" /\ Phase(t)' = "confirmed"
      BY <1>2, <1>4, <1>5, PhaseOf, PhaseOfNext
<1>8. targetValidList \in [Target -> SUBSET Address]
      BY DEF AdjudicationInv, TypeOK, ExposureTypes
<1>9. PICK r, w, l : /\ r = TargetRelay(t) /\ w = SubmittedAt(t) + challengePeriod
                     /\ l = targetValidList[t]
      OBVIOUS
<1>10. CaseOf(t) = MakeCase("undecided", r, w, 0, {}, {}, l)
       BY <1>2, <1>4, <1>7, <1>9, QuietCase
<1>11. CaseOf(t)' = MakeCase("confirmed", r, w, 0, {}, {}, {})
  <2>1. targetValidList'[t] = {} BY <1>2, <1>8
  <2>2. QED BY <1>2, <1>5, <1>6, <1>7, <1>9, <2>1, QuietCaseNext
<1>12. CaseOf(t)' = court!Closed(CaseOf(t), "confirmed", {})
       BY <1>10, <1>11, CaseClosed
<1>13. CaseOf(t).phase = "undecided" /\ now >= CaseOf(t).window
       BY <1>2, <1>4, <1>9, <1>10, CaseParts
<1>14. ASSUME NEW u \in Target, u # t PROVE CaseOf(u)' = CaseOf(u)
  <2>1. targetValidList'[u] = targetValidList[u] BY <1>2, <1>8, <1>14
  <2>2. Posted(u) => SubmittedAt(u)' = SubmittedAt(u) BY <1>2, TimesKept
  <2>3. KeepsTarget(u) BY <1>2, <1>14
  <2>4. QED BY <1>2, <2>1, <2>2, <2>3, OthersKeepCase
<1>15. PICK c : c = CaseOf(t) OBVIOUS
<1>16. PICK S : S = {t} OBVIOUS
<1>17. [u \in S |-> court!Closed([x \in Target |-> CaseOf(x)][u], "confirmed", {})]
         = [u \in {t} |-> court!Closed(c, "confirmed", {})]
  <2>1. \A u \in S : [x \in Target |-> CaseOf(x)][u] = c BY <1>2, <1>15, <1>16
  <2>2. QED BY <1>16, <2>1
<1>18. court!Become([u \in {t} |-> court!Closed(c, "confirmed", {})])
       BY <1>2, <1>12, <1>14, <1>15, OneCaseBecomes
<1>19. \A u \in S : /\ [x \in Target |-> CaseOf(x)][u].phase = "undecided"
                    /\ now >= [x \in Target |-> CaseOf(x)][u].window
       BY <1>2, <1>13, <1>16
<1>20. court!Confirm(S) BY <1>17, <1>18, <1>19 DEF court!Confirm
<1>21. QED BY <1>2, <1>16, <1>20

\* A batch is confirmed: the cases of its leaves that are undecided.
LEMMA ConfirmBatchRefines ==
  ASSUME AdjudicationInv, AdjudicationInv', ExposureInvariant, ExposureInvariant',
         NEW b \in 1 .. MaxBatches, ConfirmsBatch(b)
  PROVE  (\E S \in (SUBSET Target) \ {{}} : court!Confirm(S)) \/ UNCHANGED court!vars
<1> DEFINE S == {t \in Target : Undecided(t) /\ t[1] # 0 /\ t[2] = b}
           C == [t \in Target |-> CaseOf(t)]
<1>1. /\ SamePosted /\ UNCHANGED <<now, disputes>>
      /\ \A t \in Target :
           Posted(t) =>
             /\ TargetState(t)' = TargetState(t)
             /\ Settled(t)' <=> (Settled(t) \/ (t[1] # 0 /\ t[2] = b))
             /\ t[1] # 0 /\ t[2] = b => TargetState(t) # "Disputed"
      /\ now >= batches[b].submittedAt + challengePeriod
      BY DEF ConfirmsBatch, finalizeBatch, WindowClosed
<1>2. /\ \A t \in Target : ~Undecided(t) => targetValidList[t] = {}
      /\ \A t \in Target : ~Undecided(t)' => targetValidList'[t] = {}
      /\ \A t \in Target : Undecided(t) => targetValidList[t] = Vouched(t)
      /\ \A t \in Target : Undecided(t)' => targetValidList'[t] = Vouched(t)'
      BY DEF ExposureInvariant, ListsVouched
<1>3. \A t : Vouched(t)' = Vouched(t)
      BY <1>1 DEF Vouched, DisputesAbout, OpenDisputes
<1>4. ASSUME NEW t \in S
      PROVE  /\ CaseOf(t).phase = "undecided" /\ now >= CaseOf(t).window
             /\ CaseOf(t)' = court!Closed(CaseOf(t), "confirmed", {})
  <2>1. t \in Target /\ Posted(t) /\ ~Settled(t) /\ t[1] # 0 /\ t[2] = b
        BY DEF Undecided
  <2>2. Posted(t)' /\ TargetRelay(t)' = TargetRelay(t) BY <1>1, <2>1, PostedKeeps
  <2>3. SubmittedAt(t)' = SubmittedAt(t) BY <1>1, <2>1, TimesKept
  <2>4. /\ TargetState(t) \notin {"Disputed", "Revoked"}
        /\ TargetState(t)' # "Revoked" /\ Settled(t)'
        BY <1>1, <2>1, RevokedSettled
  <2>5. Phase(t) = "undecided" /\ Phase(t)' = "confirmed"
        BY <2>1, <2>2, <2>4, PhaseOf, PhaseOfNext
  <2>6. targetValidList'[t] = {} BY <1>2, <2>1, <2>4 DEF Undecided
  <2>7. PICK r, w, l : /\ r = TargetRelay(t) /\ w = SubmittedAt(t) + challengePeriod
                       /\ l = targetValidList[t]
        OBVIOUS
  <2>8. CaseOf(t) = MakeCase("undecided", r, w, 0, {}, {}, l)
        BY <2>1, <2>5, <2>7, QuietCase
  <2>9. CaseOf(t)' = MakeCase("confirmed", r, w, 0, {}, {}, {})
        BY <2>1, <2>2, <2>3, <2>5, <2>6, <2>7, QuietCaseNext
  <2>10. CaseOf(t)' = court!Closed(CaseOf(t), "confirmed", {})
         BY <2>8, <2>9, CaseClosed
  <2>11. now >= w BY <1>1, <2>1, <2>7 DEF SubmittedAt
  <2>12. CaseOf(t).phase = "undecided" /\ CaseOf(t).window = w BY <2>8, CaseParts
  <2>13. QED BY <2>10, <2>11, <2>12
<1>5. ASSUME NEW t \in Target, t \notin S PROVE CaseOf(t)' = CaseOf(t)
  <2>1. Posted(t)' <=> Posted(t) BY <1>1, PostedKeeps
  <2>2. Posted(t) => SubmittedAt(t)' = SubmittedAt(t) BY <1>1, TimesKept
  <2>3. Posted(t) => (Settled(t)' <=> Settled(t)) BY <1>1, <1>5 DEF Undecided
  <2>4. KeepsTarget(t) BY <1>1, <2>1, <2>3, PostedKeeps DEF KeepsTarget
  <2>5. targetValidList'[t] = targetValidList[t]
        BY <1>2, <1>3, <2>1, <2>3 DEF Undecided
  <2>6. QED BY <1>1, <2>2, <2>4, <2>5, OthersKeepCase
<1>6. S \subseteq Target OBVIOUS
<1> HIDE DEF S
<1>7. CASE S = {}
  <2>1. C' = C BY <1>5, <1>7, NoCaseChanges
  <2>2. QED BY <1>1, <2>1 DEF court!vars
<1>8. CASE S # {}
  <2>1. PICK new : new = [t \in S |-> court!Closed(C[t], "confirmed", {})] OBVIOUS
  <2>2. \A t \in S : C[t] = CaseOf(t) BY <1>6
  <2>3. DOMAIN new = S /\ \A t \in S : new[t] = court!Closed(CaseOf(t), "confirmed", {})
        BY <2>1, <2>2
  <2>4. court!Become(new) BY <1>1, <1>4, <1>5, <1>6, <2>3, CasesBecome
  <2>5. \A t \in S : C[t].phase = "undecided" /\ now >= C[t].window
        BY <1>4, <2>2
  <2>6. court!Confirm(S) BY <2>1, <2>4, <2>5 DEF court!Confirm
  <2>7. QED BY <1>6, <1>8, <2>6
<1>9. QED BY <1>7, <1>8

\* At first there are no cases.
LEMMA CourtInit == Init => court!Init
<1> SUFFICES ASSUME Init PROVE court!Init OBVIOUS
<1>1. /\ records = <<>> /\ batches = <<>> /\ now = 1
      /\ targetValidList = [t \in Target |-> {}]
      BY DEF Init
<1>2. ASSUME NEW t \in Target PROVE CaseOf(t) = court!Absent
  <2>1. ~Posted(t) BY <1>1 DEF Posted
  <2>2. targetValidList[t] = {} BY <1>1
  <2>3. QED BY <2>1, <2>2, QuietCase, NewCases
<1>3. QED BY <1>1, <1>2 DEF court!Init

\* Every step is one of a case, or of those of a batch, or none.
LEMMA CourtStep ==
  AdjudicationInv /\ AdjudicationInv' /\ ExposureInvariant /\ ExposureInvariant'
    /\ [Next]_vars => [court!Next]_(court!vars)
<1> SUFFICES ASSUME AdjudicationInv, AdjudicationInv', ExposureInvariant,
                    ExposureInvariant', [Next]_vars
             PROVE  court!Next \/ UNCHANGED court!vars
    OBVIOUS
<1>1. TypeOK /\ LeafInvariant /\ OpenMeansDisputed
      BY DEF AdjudicationInv, DisputeInvariant
<1>2. CASE Idles BY <1>2, IdleRefines DEF court!Next
<1>3. CASE Submits BY <1>3, SubmitRefines DEF court!Next
<1>4. CASE \E i \in 1 .. MaxRecords : Confirms(i)
      BY <1>4, ConfirmRefines DEF court!Next
<1>5. CASE \E b \in 1 .. MaxBatches : ConfirmsBatch(b)
      BY <1>5, ConfirmBatchRefines DEF court!Next
<1>6. CASE \E t \in Target, a \in Address, bond \in Nat : Opens(t, a, bond)
      BY <1>6, OpenRefines DEF court!Next
<1>7. CASE \E i \in DOMAIN disputes, d \in Dispute :
             Counts(i, d) \/ Convicts(i, d) \/ Acquits(i, d) \/ Lapses(i, d)
      BY <1>7, VoteRefines, ExpireRefines DEF court!Next
<1>8. QED BY <1>1, <1>2, <1>3, <1>4, <1>5, <1>6, <1>7, StepShapes

\* Each record and each batch leaf is adjudicated as Adjudication says, whatever
\* the disputes about the others.
THEOREM Adjudicates == Spec => ImplementsAdjudication
<1>1. court!Init /\ [][court!Next]_(court!vars) => ImplementsAdjudication
      BY DEF ImplementsAdjudication, court!Spec
<1>2. QED BY CourtInit, CourtStep, Exposures, <1>1, PTL DEF Spec
=============================================================================
