--------------------------- MODULE MCTaskLimiter ---------------------------
(* Instances of TaskLimiter for TLC. *)
EXTENDS TaskLimiter
=============================================================================
