------------------------------- MODULE MCClient -------------------------------
(***************************************************************************)
(* Small instances of Client for TLC, with the documents of MCFabric.      *)
(***************************************************************************)
EXTENDS MCFabric, Client, TLC

Permuted == Permutations(Clients) \cup Permutations(Sessions)

\* Evidence that names no link is evidence too: a new generation is all that counts here.
NoLinks == {<<>>}

\* A reader that takes whatever these instances write.
AmpleReader == [phases |-> MCContract.maxPhases, retired |-> 9]
=============================================================================
