--------------------------- MODULE MCJudgeSandbox ---------------------------
(* Small instances of JudgeSandbox for TLC. *)
EXTENDS JudgeSandbox

=============================================================================
