---------------------------- MODULE MCFileBackups ----------------------------
(* Two files and three paths: c is another spelling of b's file whose      *)
(* encoded name is longer than the store's limit.                          *)
EXTENDS FileBackups

CONSTANTS a, b, c, f, g, empty, c1, p1

TwoFiles == [p \in {a, b, c} |-> IF p = a THEN f ELSE g]
OneTooLong == [p \in {a, b, c} |-> IF p = c THEN IndexNameMax + 1 ELSE 20]
=============================================================================
