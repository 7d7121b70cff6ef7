----------------------------- MODULE MCMemoryWrites -----------------------------
EXTENDS MemoryWrites, TLC

CONSTANTS t, u

MCCalls == [w \in Writer |-> IF w = t THEN 1 ELSE 3]
MCManyCalls == [w \in Writer |-> 5]

(* The client with one call tries again, the other one gives up at once.   *)
MCRetries == [w \in Writer |-> IF w = t THEN 1 ELSE 0]

Symmetric == Permutations(Text)
=============================================================================
