------------------------------ MODULE DIDUtils ------------------------------
(***************************************************************************)
(* shared/did_utils.py: the registry of the process, called by threads.    *)
(* A call computes the hash, waits for _registry_lock, looks whether the   *)
(* hash is known, acts, and releases the lock when the `with' block ends,  *)
(* by a return or by an exception.  Threads interleave between any two of  *)
(* these steps; an operation on the dict itself is one step of the         *)
(* interpreter.                                                            *)
(***************************************************************************)
EXTENDS Naturals

CONSTANTS
  Thread, DID,
  MaxCalls     \* bound on the calls of each thread

ASSUME ParameterAssumption == MaxCalls \in Nat

VARIABLES
  did_registry,
  registry_lock,  \* the set of its holders: none or one
  pc,             \* where each thread is
  call, answer,   \* its call, and what it will return
  calls           \* calls it has begun

vars == <<did_registry, registry_lock, pc, call, answer, calls>>

\* The atomic map this module implements.
map == INSTANCE DIDMap WITH registry <- did_registry

Init ==
  /\ did_registry = [k \in {} |-> {}]
  /\ registry_lock = {}
  /\ pc = [t \in Thread |-> "idle"]
  /\ call = [t \in Thread |-> map!NoCall]
  /\ answer = [t \in Thread |-> map!NoAnswer]
  /\ calls = [t \in Thread |-> 0]

hash_did(did) == map!Hash(did)
b32(t) == hash_did(call[t].did)

\* register_did is did_to_bytes32 under another name.
begin(t, c) ==
  /\ pc[t] = "idle" /\ calls[t] < MaxCalls
  /\ call' = [call EXCEPT ![t] = c]
  /\ calls' = [calls EXCEPT ![t] = @ + 1]
  /\ pc' = [pc EXCEPT ![t] = "acquire"]
  /\ UNCHANGED <<did_registry, registry_lock, answer>>

\* A mutated form of Acquire: the lock is forgotten.
EnterAnyhow(t) == registry_lock' = registry_lock \cup {t}

Acquire(t) == registry_lock = {} /\ registry_lock' = {t}

enter(t) ==
  /\ pc[t] = "acquire"
  /\ Acquire(t)
  /\ pc' = [pc EXCEPT ![t] =
       IF call[t].kind \in {"bytes32_to_did", "unregister_did"} THEN "check" ELSE "act"]
  /\ UNCHANGED <<did_registry, call, answer, calls>>

\* `b32 not in _did_registry': the exception ends the block.
check(t) ==
  /\ pc[t] = "check"
  /\ IF b32(t) \in DOMAIN did_registry
     THEN /\ pc' = [pc EXCEPT ![t] = "act"]
          /\ UNCHANGED answer
     ELSE /\ pc' = [pc EXCEPT ![t] = "release"]
          /\ answer' = [answer EXCEPT ![t] = map!Raised]
  /\ UNCHANGED <<did_registry, registry_lock, call, calls>>

did_to_bytes32(t) ==
  /\ call[t].kind = "did_to_bytes32"
  /\ did_registry' =
       [k \in DOMAIN did_registry \cup {b32(t)} |->
          IF k = b32(t) THEN call[t].did ELSE did_registry[k]]
  /\ answer' = [answer EXCEPT ![t] = map!Returned(b32(t))]

\* An access to a key that is gone raises KeyError, which no caller expects.
KeyError == <<"KeyError">>

bytes32_to_did(t) ==
  /\ call[t].kind = "bytes32_to_did"
  /\ answer' = [answer EXCEPT ![t] =
       IF b32(t) \in DOMAIN did_registry
       THEN map!Returned(did_registry[b32(t)]) ELSE KeyError]
  /\ UNCHANGED did_registry

unregister_did(t) ==
  /\ call[t].kind = "unregister_did"
  /\ did_registry' = [k \in DOMAIN did_registry \ {b32(t)} |-> did_registry[k]]
  /\ answer' = [answer EXCEPT ![t] =
       IF b32(t) \in DOMAIN did_registry THEN map!None ELSE KeyError]

clear_registry(t) ==
  /\ call[t].kind = "clear_registry"
  /\ did_registry' = [k \in {} |-> {}]
  /\ answer' = [answer EXCEPT ![t] = map!None]

act(t) ==
  /\ pc[t] = "act"
  /\ \/ did_to_bytes32(t) \/ bytes32_to_did(t)
     \/ unregister_did(t) \/ clear_registry(t)
  /\ pc' = [pc EXCEPT ![t] = "release"]
  /\ UNCHANGED <<registry_lock, call, calls>>

\* A mutated form of Release: an exception leaves the lock held.
ReleaseOnReturn(t) ==
  registry_lock' = IF answer[t] = map!Raised THEN registry_lock ELSE registry_lock \ {t}

Release(t) == registry_lock' = registry_lock \ {t}

leave(t) ==
  /\ pc[t] = "release"
  /\ Release(t)
  /\ pc' = [pc EXCEPT ![t] = "idle"]
  /\ call' = [call EXCEPT ![t] = map!NoCall]
  /\ answer' = [answer EXCEPT ![t] = map!NoAnswer]
  /\ UNCHANGED <<did_registry, calls>>

step(t) == enter(t) \/ check(t) \/ act(t) \/ leave(t)

Next == \E t \in Thread : step(t) \/ \E c \in map!Call : begin(t, c)

Spec == Init /\ [][Next]_vars

\* The interpreter runs every thread that is not blocked.
FairSpec == Spec /\ \A t \in Thread : WF_vars(step(t))

-----------------------------------------------------------------------------

TypeOK ==
  /\ registry_lock \subseteq Thread
  /\ pc \in [Thread -> {"idle", "acquire", "check", "act", "release"}]
  /\ call \in [Thread -> map!Call \cup {map!NoCall}]
  /\ calls \in [Thread -> 0 .. MaxCalls]
  /\ DOMAIN did_registry \subseteq map!Key

\* Every call takes effect at once: whatever the interleaving, its answer and
\* its effect are those of an uninterrupted call, so no KeyError escapes and
\* no registration is lost (the lock of did_utils.py:131-208).
Linearizable == map!Spec

\* Why that is so: the hash is looked up and used by the same thread without
\* another one in between. Who has found its hash still finds it, and each hash
\* maps to the DID it is the hash of.
CheckedStaysTrue ==
  /\ \A t \in Thread : pc[t] = "act" /\ call[t].kind \in {"bytes32_to_did", "unregister_did"}
       => b32(t) \in DOMAIN did_registry
  /\ \A did \in DID : hash_did(did) \in DOMAIN did_registry
       => did_registry[hash_did(did)] = did

\* Every call returns, also those that wait while another one raises.
EveryCallReturns == \A t \in Thread : pc[t] = "acquire" ~> pc[t] = "idle"
=============================================================================
