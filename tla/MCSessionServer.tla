-------------------------- MODULE MCSessionServer --------------------------
(***************************************************************************)
(* Small instances of SessionServer.  Requests and connections are model   *)
(* values; every one of them is used at most once.                         *)
(***************************************************************************)
EXTENDS SessionServer, TLC

\* Posts, deletes and connections are interchangeable; used by safety runs only.
Symmetry == Permutations(Posts) \cup Permutations(Conns) \cup Permutations(Deletes)
=============================================================================
