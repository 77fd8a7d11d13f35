--------------------------- MODULE MCContestPage ---------------------------
(* Small instances of ContestPage for TLC. *)
EXTENDS ContestPage, TLC

\* A browser that is ahead of the server.
SomeSkews == {1}
=============================================================================
