----------------------------- MODULE MCAccessLog -----------------------------
(* Small instances of AccessLog for TLC. *)
EXTENDS AccessLog, TLC

CONSTANTS c1, c2, f1, owner

TwoCallers  == {c1, c2}
OneFlusher  == {f1}
=============================================================================
