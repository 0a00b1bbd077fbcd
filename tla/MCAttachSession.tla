--------------------------- MODULE MCAttachSession ---------------------------
(***************************************************************************)
(* TLC instances of AttachSession.  Connections are interchangeable, and   *)
(* the symmetry is used by the invariant runs only.                        *)
(***************************************************************************)
EXTENDS AttachSession, TLC

Symmetry == Permutations(Conns)
=============================================================================
