---------------------------- MODULE MCHaCommands ----------------------------
(* Every command twice, which is how an approval could be spent twice, and *)
(* the lifecycle commands next to one that stops the same add-on.           *)
EXTENDS HaCommands

CONSTANTS c1, c2, p, q, m1

Pairs ==
    {[c \in Calls |-> k] : k \in Commands}
        \cup {[c \in Calls |-> IF c = d THEN <<k, "">> ELSE <<"addon_stop", "">>] :
                d \in Calls, k \in Lifecycle}

SomeCallers ==
    {None, [role |-> "user", named |-> TRUE], [role |-> "admin", named |-> TRUE],
     [role |-> "super_admin", named |-> TRUE], [role |-> "super_admin", named |-> FALSE]}

(* The attrs of p say nothing about the frame; those of q name a removal. *)
OneNamesRemoval == [x \in Params |-> IF x = q THEN <<"entity_registry", "remove">> ELSE None]

Symmetry == Permutations(Calls)
=============================================================================
