----------------------------- MODULE MCContest -----------------------------
(* Small instances of Contest for TLC. *)
EXTENDS ContestInvariant, TLC

CONSTANTS q1, q2

\* Every problem has cases of both kinds ...
CasesForAll == [c \in Questions \X Kinds |-> 1]

\* ... or q2 has only hidden ones, so that a run of it is refused (main.py:346).
HiddenCasesOnly == [c \in Questions \X Kinds |-> IF c = <<q2, "run">> THEN 0 ELSE 1]

\* Ids, slots and processes are interchangeable.
Interchangeable == Permutations(SubIds) \cup Permutations(Handlers) \cup Permutations(Workers)

=============================================================================
