--------------------------- MODULE MQFileServerMC ---------------------------
(* Small instances of MQFileServer for TLC. *)
EXTENDS MQFileServer, TLC

CONSTANTS missing, empty, small, large

\* One file that cannot be opened, one empty, one of a single message and one
\* of three, the last of them short.
MCPaths == {missing, empty, small, large}
MCTwoPaths == {missing, large}
MCOpenable == {empty, small, large}
MCSize == (missing :> 0) @@ (empty :> 0) @@ (small :> 2) @@ (large :> 5)
MCTwoOpenable == {large}
MCTwoSize == (missing :> 0) @@ (large :> 3)

Symmetry == Permutations(Servers) \cup Permutations(Clients) \cup Permutations(Pids)
=============================================================================
