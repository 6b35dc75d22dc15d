----------------------------- MODULE MCGateCore ------------------------------
(***************************************************************************)
(* TLC instances of GateCore.  Callers are interchangeable, and so are     *)
(* executions: both are declared symmetric in the safety runs.             *)
(***************************************************************************)
EXTENDS GateProperties, TLC

Symmetry == Permutations(Callers) \cup Permutations(Execs)

Unlimited == [t \in Tasks |-> 0]
TwoAttempts == [t \in Tasks |-> 2]

==============================================================================
