--------------------------- MODULE MCSessionStore ---------------------------
(* Small instances of the session store for TLC. *)
EXTENDS SessionStore, TLC

\* Identifiers and handlers are interchangeable in the safety runs.
IdSymmetry ==
    Permutations(Handlers) \cup Permutations(RequestIds) \cup Permutations(SessionIds)
=============================================================================
