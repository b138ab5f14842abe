---------------------------- MODULE MCCompaction ----------------------------
(***************************************************************************)
(* Sessions of a few messages, seeded before and between runs.             *)
(***************************************************************************)
EXTENDS Compaction

MCOverheads == {-3, 0, 2}

=============================================================================
