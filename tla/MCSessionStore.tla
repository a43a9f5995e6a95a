--------------------------- MODULE MCSessionStore ---------------------------
(* Small instances of SessionStore. *)
EXTENDS SessionStore, TLC

Symmetric == Permutations(Handles) \cup Permutations(Sessions) \cup Permutations(Snapshots)
=============================================================================
