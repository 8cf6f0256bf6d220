------------------------------ MODULE MCFrobDoor ------------------------------
EXTENDS FrobDoor

\* A double door as AutoSetupDoubleDoor makes it; only one leaf has a handle.
CONSTANTS Left, Right

Others == [d \in Leaves |-> Leaves \ {d}]
=============================================================================
