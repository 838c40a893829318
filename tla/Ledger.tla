------------------------------ MODULE Ledger -------------------------------
(***************************************************************************)
(* Amounts held under keys, as the mapping(address => uint256) ledgers of  *)
(* the contracts hold money and the threads of a pool hold counts.  A      *)
(* ledger is a function from keys to natural numbers.                      *)
(*                                                                         *)
(* The total of a ledger is the number of its coins: coin k of key a is    *)
(* the pair <<a, k>> with k \in 1..f[a].  Defined this way (and not by a   *)
(* recursion over the keys) the laws of totals are laws of cardinalities,  *)
(* which the modules of proofs prove.                                      *)
(***************************************************************************)
EXTENDS Naturals, FiniteSets

Coins(f) == UNION {{<<a, k>> : k \in 1 .. f[a]} : a \in DOMAIN f}

Total(f) == Cardinality(Coins(f))

\* Addition and subtraction key by key, of ledgers over the same keys.
Plus(f, g) == [a \in DOMAIN f |-> f[a] + g[a]]

Minus(f, g) == [a \in DOMAIN f |-> f[a] - g[a]]

\* The ledger that holds n under each key of S and nothing elsewhere.
Each(Keys, S, n) == [a \in Keys |-> IF a \in S THEN n ELSE 0]

AtMost(m, n) == IF m < n THEN m ELSE n
=============================================================================
