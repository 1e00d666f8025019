------------------------------ MODULE MCRestart ------------------------------
(***************************************************************************)
(* A small instance of Restart for TLC, with the documents of MCFabric.    *)
(***************************************************************************)
EXTENDS MCFabric, Restart

\* A policy that is not strict, and a later one that remaps a phase class.
RestartPolicies ==
  LET lenient == LenientPolicy({"Unknown", "DataIngest"})
  IN  <<lenient, [lenient EXCEPT !.classOf.DataIngest = "GradientSync"]>>

\* A contract and a reader whose limits the instance reaches.
RestartContract == [MCContract EXCEPT !.maxPhases = 1]
SmallReader == [phases |-> RestartContract.maxPhases, retired |-> 1]
=============================================================================
