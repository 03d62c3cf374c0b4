--------------------------- MODULE MCExecApprovals ---------------------------
(* Callers change the rules of the document that get shows.  The file      *)
(* starts absent, unusable, or with a socket whose path has blanks around  *)
(* it.                                                                     *)
EXTENDS ExecApprovals

CONSTANTS w1, w2, deny, full, p, t

Padded == [name |-> p, padded |-> TRUE]
Plain == [name |-> p, padded |-> FALSE]
Edits == {[policy |-> full, path |-> Plain, token |-> None]}
OnDisk == {Missing, Malformed, [policy |-> deny, path |-> Padded, token |-> t]}
=============================================================================
