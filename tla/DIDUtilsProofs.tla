--------------------------- MODULE DIDUtilsProofs ---------------------------
(***************************************************************************)
(* The registry of DIDUtils implements the atomic map of DIDMap, for any   *)
(* set of threads, any set of DIDs and any number of calls.                *)
(*                                                                         *)
(* A call takes effect when it acts, or when its check fails; the other    *)
(* steps are stutters.  That needs three facts besides the types: at most  *)
(* one thread is in a block (Exclusion), a call has its answer exactly     *)
(* while it leaves its block (Progress), and what was checked is still so  *)
(* (CheckedStaysTrue).                                                     *)
(***************************************************************************)
EXTENDS DIDUtils, TLAPS

Answer ==
  {map!NoAnswer, map!Raised, map!None} \cup {map!Returned(v) : v \in DID \cup map!Key}

InBlock == {"check", "act", "release"}

Checked == {"bytes32_to_did", "unregister_did"}

Exclusion ==
  /\ \A t \in Thread : pc[t] \in InBlock <=> t \in registry_lock
  /\ \A t, u \in registry_lock : t = u

Progress ==
  \A t \in Thread :
    /\ pc[t] = "idle" <=> call[t] = map!NoCall
    /\ pc[t] = "release" <=> answer[t] # map!NoAnswer
    /\ pc[t] = "check" => call[t].kind \in Checked

IInv ==
  /\ TypeOK
  /\ answer \in [Thread -> Answer]
  /\ did_registry \in [DOMAIN did_registry -> DID]
  /\ Exclusion
  /\ Progress
  /\ CheckedStaysTrue

-----------------------------------------------------------------------------

\* Calls and answers are told apart from their absence.
LEMMA Distinct ==
  /\ \A c \in map!Call : c # map!NoCall /\ c.did \in DID /\ c.kind \in map!Kind
  /\ map!Raised # map!NoAnswer /\ map!None # map!NoAnswer
  /\ \A v : map!Returned(v) # map!NoAnswer
  /\ KeyError # map!NoAnswer
  /\ \A d, e : map!Hash(d) = map!Hash(e) => d = e
  /\ \A d \in DID : map!Hash(d) \in map!Key
<1>1. \A c \in map!Call : c # map!NoCall /\ c.did \in DID /\ c.kind \in map!Kind
  BY DEF map!Call, map!NoCall, map!Kind
<1>2. map!Raised # map!NoAnswer /\ map!None # map!NoAnswer /\ KeyError # map!NoAnswer
  BY DEF map!Raised, map!None, map!NoAnswer, KeyError
<1>3. \A v : map!Returned(v) # map!NoAnswer
  BY DEF map!Returned, map!NoAnswer
<1>4. \A d, e : map!Hash(d) = map!Hash(e) => d = e
  BY DEF map!Hash
<1>5. \A d \in DID : map!Hash(d) \in map!Key
  BY DEF map!Key
<1> QED BY <1>1, <1>2, <1>3, <1>4, <1>5

\* IInv holds at first.
LEMMA InitInv == Init => IInv
<1> SUFFICES ASSUME Init PROVE IInv
  OBVIOUS
<1>1. TypeOK
  BY ParameterAssumption DEF Init, TypeOK
<1>2. answer \in [Thread -> Answer]
  BY DEF Init, Answer
<1>3. did_registry \in [DOMAIN did_registry -> DID]
  BY DEF Init
<1>4. Exclusion
  BY DEF Init, Exclusion, InBlock
<1>5. Progress
  BY DEF Init, Progress
<1>6. CheckedStaysTrue
  BY DEF Init, CheckedStaysTrue
<1> QED BY <1>1, <1>2, <1>3, <1>4, <1>5, <1>6 DEF IInv

\* Beginning a call disturbs nobody.
LEMMA BeginInv ==
  ASSUME IInv, NEW t \in Thread, NEW c \in map!Call, begin(t, c)
  PROVE  IInv'
<1> USE Distinct DEF IInv, begin
<1>1. TypeOK'
  BY ParameterAssumption DEF TypeOK
<1>2. Exclusion'
  BY DEF Exclusion, InBlock, TypeOK
<1>3. Progress'
  BY DEF Progress, TypeOK
<1>4. CheckedStaysTrue'
  BY DEF CheckedStaysTrue, b32, TypeOK
<1> QED BY <1>1, <1>2, <1>3, <1>4

\* Who enters finds the lock free, so that nobody else is in a block.
LEMMA EnterInv ==
  ASSUME IInv, NEW t \in Thread, enter(t)
  PROVE  IInv'
<1> USE Distinct DEF IInv, enter, Acquire
<1>1. TypeOK'
  BY DEF TypeOK
<1>2. Exclusion'
  BY DEF Exclusion, InBlock, TypeOK
<1>3. Progress'
  BY DEF Progress, TypeOK, Checked
<1>4. CheckedStaysTrue'
  BY DEF CheckedStaysTrue, b32, TypeOK
<1> QED BY <1>1, <1>2, <1>3, <1>4

\* A check under the lock keeps it.
LEMMA CheckInv ==
  ASSUME IInv, NEW t \in Thread, check(t)
  PROVE  IInv'
<1> USE Distinct DEF IInv, check
<1>1. TypeOK'
  BY DEF TypeOK
<1>2. answer' \in [Thread -> Answer]
  BY DEF Answer
<1>3. Exclusion'
  BY DEF Exclusion, InBlock, TypeOK
<1>4. Progress'
  BY DEF Progress, TypeOK
<1>5. CheckedStaysTrue'
  BY DEF CheckedStaysTrue, b32, TypeOK
<1> QED BY <1>1, <1>2, <1>3, <1>4, <1>5

-----------------------------------------------------------------------------

\* The argument of a call in its block.
LEMMA ArgumentType ==
  ASSUME IInv, NEW t \in Thread, pc[t] \in {"check", "act"}
  PROVE  /\ call[t] \in map!Call
         /\ call[t].did \in DID
         /\ b32(t) \in map!Key
         /\ b32(t) \in DOMAIN did_registry => did_registry[b32(t)] = call[t].did
<1>1. call[t] \in map!Call
  BY DEF IInv, TypeOK, Progress
<1>2. call[t].did \in DID
  BY <1>1, Distinct
<1> QED BY <1>1, <1>2, Distinct DEF IInv, CheckedStaysTrue, b32, hash_did

\* The registry maps hashes to their DIDs after every way to act.
LEMMA ActRegistry ==
  ASSUME IInv, NEW t \in Thread, act(t)
  PROVE  /\ did_registry' \in [DOMAIN did_registry' -> DID]
         /\ DOMAIN did_registry' \subseteq map!Key
         /\ \A did \in DID : hash_did(did) \in DOMAIN did_registry'
              => did_registry'[hash_did(did)] = did
         /\ answer' \in [Thread -> Answer]
         /\ answer'[t] # map!NoAnswer
         /\ \A u \in Thread \ {t} : answer'[u] = answer[u]
<1> DEFINE Goal ==
         /\ did_registry' \in [DOMAIN did_registry' -> DID]
         /\ DOMAIN did_registry' \subseteq map!Key
         /\ \A did \in DID : hash_did(did) \in DOMAIN did_registry'
              => did_registry'[hash_did(did)] = did
         /\ answer' \in [Thread -> Answer]
         /\ answer'[t] # map!NoAnswer
         /\ \A u \in Thread \ {t} : answer'[u] = answer[u]
<1>0. /\ call[t].did \in DID /\ b32(t) \in map!Key /\ pc[t] = "act"
      /\ b32(t) \in DOMAIN did_registry => did_registry[b32(t)] = call[t].did
  BY ArgumentType DEF act
<1>a. /\ answer \in [Thread -> Answer]
      /\ did_registry \in [DOMAIN did_registry -> DID]
      /\ DOMAIN did_registry \subseteq map!Key
      /\ \A did \in DID : hash_did(did) \in DOMAIN did_registry
              => did_registry[hash_did(did)] = did
  BY DEF IInv, TypeOK, CheckedStaysTrue
<1>1. CASE did_to_bytes32(t)
  <2>1. map!Returned(b32(t)) \in Answer /\ map!Returned(b32(t)) # map!NoAnswer
    BY <1>0, Distinct DEF Answer
  <2>2. \A did \in DID : hash_did(did) = b32(t) => did = call[t].did
    BY <1>0, Distinct DEF hash_did, b32
  <2> QED BY <1>0, <1>a, <1>1, <2>1, <2>2 DEF did_to_bytes32
<1>2. CASE bytes32_to_did(t)
  <2>1. b32(t) \in DOMAIN did_registry
    BY <1>0, <1>2 DEF IInv, CheckedStaysTrue, bytes32_to_did
  <2>2. map!Returned(call[t].did) \in Answer /\ map!Returned(call[t].did) # map!NoAnswer
    BY <1>0, Distinct DEF Answer
  <2> QED BY <1>0, <1>a, <1>2, <2>1, <2>2 DEF bytes32_to_did
<1>3. CASE unregister_did(t)
  <2>1. b32(t) \in DOMAIN did_registry
    BY <1>0, <1>3 DEF IInv, CheckedStaysTrue, unregister_did
  <2>2. map!None \in Answer /\ map!None # map!NoAnswer
    BY Distinct DEF Answer
  <2> QED BY <1>0, <1>a, <1>3, <2>1, <2>2 DEF unregister_did
<1>4. CASE clear_registry(t)
  <2>1. map!None \in Answer /\ map!None # map!NoAnswer
    BY Distinct DEF Answer
  <2> QED BY <1>a, <1>4, <2>1 DEF clear_registry
<1> QED BY <1>1, <1>2, <1>3, <1>4 DEF act

\* Nobody else has checked anything while a thread acts.
LEMMA ActInv ==
  ASSUME IInv, NEW t \in Thread, act(t)
  PROVE  IInv'
<1>1. TypeOK'
  BY ActRegistry DEF IInv, TypeOK, act
<1>2. Exclusion'
  BY DEF IInv, Exclusion, InBlock, TypeOK, act
<1>3. Progress'
  BY ActRegistry DEF IInv, Progress, TypeOK, act
<1>4. \A u \in Thread : pc'[u] # "act"
  BY DEF IInv, Exclusion, InBlock, TypeOK, act
<1>5. CheckedStaysTrue'
  BY ActRegistry, <1>4 DEF CheckedStaysTrue, hash_did
<1> QED BY ActRegistry, <1>1, <1>2, <1>3, <1>5 DEF IInv

\* Leaving the block, with an answer, keeps it.
LEMMA LeaveInv ==
  ASSUME IInv, NEW t \in Thread, leave(t)
  PROVE  IInv'
<1> USE Distinct DEF IInv, leave, Release
<1>1. TypeOK'
  BY DEF TypeOK
<1>2. answer' \in [Thread -> Answer]
  BY DEF Answer
<1>3. Exclusion'
  BY DEF Exclusion, InBlock, TypeOK
<1>4. Progress'
  BY DEF Progress, TypeOK
<1>5. CheckedStaysTrue'
  BY DEF CheckedStaysTrue, b32, TypeOK
<1> QED BY <1>1, <1>2, <1>3, <1>4, <1>5

\* Every step keeps it.
LEMMA NextInv == IInv /\ [Next]_vars => IInv'
<1> SUFFICES ASSUME IInv, [Next]_vars PROVE IInv'
  OBVIOUS
<1>1. CASE Next
  <2>1. PICK t \in Thread : step(t) \/ \E c \in map!Call : begin(t, c)
    BY <1>1 DEF Next
  <2> QED BY <2>1, BeginInv, EnterInv, CheckInv, ActInv, LeaveInv DEF step
<1>2. CASE UNCHANGED vars
  BY <1>2 DEF vars, IInv, TypeOK, Exclusion, Progress, CheckedStaysTrue, b32
<1> QED BY <1>1, <1>2

\* It holds always.
LEMMA Invariance == Spec => []IInv
BY InitInv, NextInv, PTL DEF Spec

\* The lock and the calls have their types.
THEOREM TypeCorrect == Spec => []TypeOK
<1>1. IInv => TypeOK
  BY DEF IInv
<1> QED BY Invariance, <1>1, PTL

\* What a thread has checked under the lock is still so when it acts.
THEOREM CheckedStays == Spec => []CheckedStaysTrue
<1>1. IInv => CheckedStaysTrue
  BY DEF IInv
<1> QED BY Invariance, <1>1, PTL

-----------------------------------------------------------------------------

\* At first the abstract dict is empty and nobody calls.
LEMMA InitRefines == Init => map!Init
BY DEF Init, map!Init

\* The failing check of a call is the moment it takes effect.
LEMMA CheckRefines ==
  ASSUME IInv, NEW t \in Thread, check(t)
  PROVE  map!TakeEffect(t) \/ UNCHANGED map!vars
<1>1. CASE b32(t) \in DOMAIN did_registry
  BY <1>1 DEF check, map!vars
<1>2. CASE b32(t) \notin DOMAIN did_registry
  <2>1. /\ call[t] # map!NoCall /\ answer[t] = map!NoAnswer
        /\ call[t].kind \in Checked
    BY DEF IInv, Progress, check
  <2>2. UNCHANGED <<did_registry, call>>
    BY DEF check
  <2>3. answer' = [answer EXCEPT ![t] = map!Raised]
    BY <1>2 DEF check
  <2>4. map!AnswerOf(call[t], did_registry) = map!Raised
    BY <1>2, <2>1 DEF map!AnswerOf, Checked, b32, hash_did
  <2>5. map!MapAfter(call[t], did_registry) = did_registry
    <3>1. CASE call[t].kind = "bytes32_to_did"
      BY <3>1 DEF map!MapAfter
    <3>2. CASE call[t].kind = "unregister_did"
      <4>1. DOMAIN did_registry \ {map!Hash(call[t].did)} = DOMAIN did_registry
        BY <1>2 DEF b32, hash_did
      <4>2. did_registry = [k \in DOMAIN did_registry |-> did_registry[k]]
        BY DEF IInv
      <4>3. map!MapAfter(call[t], did_registry)
              = [k \in DOMAIN did_registry \ {map!Hash(call[t].did)} |-> did_registry[k]]
        BY <3>2 DEF map!MapAfter
      <4> QED BY <4>1, <4>2, <4>3
    <3> QED BY <2>1, <3>1, <3>2 DEF Checked
  <2> QED BY <2>1, <2>2, <2>3, <2>4, <2>5 DEF map!TakeEffect
<1> QED BY <1>1, <1>2

\* Acting is the effect of the call on the map as it is.
LEMMA ActRefines ==
  ASSUME IInv, NEW t \in Thread, act(t)
  PROVE  map!TakeEffect(t)
<1>1. call[t] # map!NoCall /\ answer[t] = map!NoAnswer /\ UNCHANGED call /\ pc[t] = "act"
  BY DEF IInv, Progress, act
<1>2. b32(t) = map!Hash(call[t].did)
  BY DEF b32, hash_did
<1>3. CASE did_to_bytes32(t)
  BY <1>1, <1>2, <1>3 DEF did_to_bytes32, map!TakeEffect, map!AnswerOf, map!MapAfter
<1>4. CASE bytes32_to_did(t)
  <2>1. b32(t) \in DOMAIN did_registry
    BY <1>1, <1>4 DEF IInv, CheckedStaysTrue, bytes32_to_did
  <2> QED BY <1>1, <1>2, <1>4, <2>1
        DEF bytes32_to_did, map!TakeEffect, map!AnswerOf, map!MapAfter
<1>5. CASE unregister_did(t)
  <2>1. b32(t) \in DOMAIN did_registry
    BY <1>1, <1>5 DEF IInv, CheckedStaysTrue, unregister_did
  <2> QED BY <1>1, <1>2, <1>5, <2>1
        DEF unregister_did, map!TakeEffect, map!AnswerOf, map!MapAfter
<1>6. CASE clear_registry(t)
  BY <1>1, <1>6 DEF clear_registry, map!TakeEffect, map!AnswerOf, map!MapAfter
<1> QED BY <1>3, <1>4, <1>5, <1>6 DEF act

\* Every step is an abstract one or none.
LEMMA NextRefines == IInv /\ [Next]_vars => [map!Next]_map!vars
<1> SUFFICES ASSUME IInv, [Next]_vars PROVE map!Next \/ UNCHANGED map!vars
  OBVIOUS
<1>1. CASE Next
  <2>1. PICK t \in Thread : step(t) \/ \E c \in map!Call : begin(t, c)
    BY <1>1 DEF Next
  <2>2. ASSUME NEW c \in map!Call, begin(t, c) PROVE map!Begin(t)
    BY <2>2 DEF IInv, Progress, begin, map!Begin
  <2>3. CASE enter(t)
    BY <2>3 DEF enter, map!vars
  <2>4. ASSUME leave(t) PROVE map!Return(t)
    BY <2>4 DEF IInv, Progress, leave, map!Return
  <2> QED BY <2>1, <2>2, <2>3, <2>4, CheckRefines, ActRefines DEF step, map!Next
<1>2. CASE UNCHANGED vars
  BY <1>2 DEF vars, map!vars
<1> QED BY <1>1, <1>2

\* Every call takes effect at once, whatever the interleaving.
THEOREM Linearization == Spec => Linearizable
<1>1. map!Init /\ [][map!Next]_map!vars => Linearizable
  BY DEF Linearizable, map!Spec
<1> QED BY InitRefines, NextRefines, Invariance, <1>1, PTL DEF Spec
=============================================================================
