---------------------------- MODULE MCJobThread ----------------------------
EXTENDS JobThread, TLC

CONSTANTS A, B

\* One list of medium and one of high priority, neither of them chained.
MixedPriority == (A :> 2) @@ (B :> 3)
EqualPriority == [l \in Lists |-> 2]
NoChain == [l \in Lists |-> None]
============================================================================
