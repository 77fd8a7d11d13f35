---------------------------- MODULE MCStatusFeed ----------------------------
(* Small instances of StatusFeed for TLC. *)
EXTENDS StatusFeed, TLC

\* Requests under way are interchangeable.
Interchangeable == Permutations(Slots) \cup Permutations(Subs)

=============================================================================
