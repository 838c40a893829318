------------------------------- MODULE DIDMap -------------------------------
(***************************************************************************)
(* What shared/did_utils.py promises with "Thread-safe via a lock"         *)
(* (did_utils.py:128): every call takes effect in one step between its     *)
(* beginning and its return, on a map from hashes to DIDs, and is answered *)
(* by what the map is at that step.                                        *)
(***************************************************************************)
CONSTANTS Thread, DID

VARIABLES
  registry,  \* the map, from hashes to DIDs
  call,      \* what each thread calls, NoCall between calls
  answer     \* what its call will return, NoAnswer before it took effect

vars == <<registry, call, answer>>

\* SHA-256, taken to be free of collisions.
Hash(did) == <<"sha256", did>>
Key == {Hash(did) : did \in DID}

Kind == {"did_to_bytes32", "bytes32_to_did", "unregister_did", "clear_registry"}
Call == [kind : Kind, did : DID]
NoCall == [kind |-> "none"]

NoAnswer == <<"none">>
Raised == <<"DIDNotFoundError">>
Returned(value) == <<"returned", value>>
None == <<"returned nothing">>

\* The answer of call c on a map m, and the map it leaves.
AnswerOf(c, m) ==
  CASE c.kind = "did_to_bytes32" -> Returned(Hash(c.did))
    [] c.kind = "bytes32_to_did" ->
         IF Hash(c.did) \in DOMAIN m THEN Returned(m[Hash(c.did)]) ELSE Raised
    [] c.kind = "unregister_did" -> IF Hash(c.did) \in DOMAIN m THEN None ELSE Raised
    [] c.kind = "clear_registry" -> None

MapAfter(c, m) ==
  CASE c.kind = "did_to_bytes32" ->
         [k \in DOMAIN m \cup {Hash(c.did)} |-> IF k = Hash(c.did) THEN c.did ELSE m[k]]
    [] c.kind = "bytes32_to_did" -> m
    [] c.kind = "unregister_did" -> [k \in DOMAIN m \ {Hash(c.did)} |-> m[k]]
    [] c.kind = "clear_registry" -> [k \in {} |-> {}]

Init ==
  /\ registry = [k \in {} |-> {}]
  /\ call = [t \in Thread |-> NoCall]
  /\ answer = [t \in Thread |-> NoAnswer]

Begin(t) ==
  /\ call[t] = NoCall
  /\ \E c \in Call : call' = [call EXCEPT ![t] = c]
  /\ UNCHANGED <<registry, answer>>

TakeEffect(t) ==
  /\ call[t] # NoCall /\ answer[t] = NoAnswer
  /\ registry' = MapAfter(call[t], registry)
  /\ answer' = [answer EXCEPT ![t] = AnswerOf(call[t], registry)]
  /\ UNCHANGED call

Return(t) ==
  /\ answer[t] # NoAnswer
  /\ call' = [call EXCEPT ![t] = NoCall]
  /\ answer' = [answer EXCEPT ![t] = NoAnswer]
  /\ UNCHANGED registry

Next == \E t \in Thread : Begin(t) \/ TakeEffect(t) \/ Return(t)

Spec == Init /\ [][Next]_vars
=============================================================================
