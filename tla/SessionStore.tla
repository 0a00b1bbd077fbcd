---------------------------- MODULE SessionStore ----------------------------
(***************************************************************************)
(* session.Store: the mutex-protected map of live sessions                 *)
(* (src/internal/session/store.go).  Every method holds the mutex from its *)
(* first line to its last, so each is one atomic step.  Only the key set   *)
(* of the map is kept: the *Session a key maps to never changes.           *)
(***************************************************************************)
EXTENDS Integers, FiniteSets

CONSTANT
  MaxSessions   \* the cap given to NewStore; 0 means unlimited

VARIABLE
  store         \* the keys of Store.sessions

NewStore == store = {}

\* Mutant: the comparison is off by one.
AtCapacityLate == MaxSessions > 0 /\ Cardinality(store) > MaxSessions

\* Create's only failure, ErrMaxSessions.
AtCapacity == MaxSessions > 0 /\ Cardinality(store) >= MaxSessions

\* Create when it succeeds.
Create(s) == ~AtCapacity /\ store' = store \cup {s}

\* Get when it does not return ErrSessionNotFound.
Has(s) == s \in store

Delete(s) == store' = store \ {s}
=============================================================================
