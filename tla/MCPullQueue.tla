----------------------------- MODULE MCPullQueue -----------------------------
(* Small instances of PullQueue for TLC. *)
EXTENDS PullQueue, TLC

\* Calls and URLs are interchangeable when every call may time out.
Symmetry == Permutations(Calls) \cup Permutations(Urls)
=============================================================================
