----------------------------- MODULE MCSystemRun -----------------------------
(* Two argument vectors that read the same, one of them an inline shell.   *)
EXTENDS SystemRun

CONSTANTS list, shell, text, inner

SameText == [a \in Argvs |-> text]
InlinePayload == [a \in Argvs |-> IF a = shell THEN inner ELSE Null]
=============================================================================
