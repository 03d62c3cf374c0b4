--------------------------- MODULE PolicyRegister ---------------------------
(***************************************************************************)
(* What system.execApprovals.set promises a gateway: the policy document   *)
(* is one register that a request replaces only when its baseHash names    *)
(* the document that is there, and a request that is answered with an      *)
(* error has replaced nothing.  The words are those of the docstrings of   *)
(* handle_system_exec_approvals_set and _approvals_write_lock; the         *)
(* docstring excepts a lock file that is replaced while a writer holds it, *)
(* which is `exposed' here.                                                *)
(***************************************************************************)
CONSTANTS Clients, Bases, Sent, Stored, Missing, None,
          Carry(_, _)   \* Carry(f, d): what storing f over d leaves

VARIABLES reg, req, exposed

vars == <<reg, req, exposed>>

Requests == [base : Bases, file : Sent]

Init == /\ reg \in Stored
        /\ req = [c \in Clients |-> None]
        /\ exposed = FALSE

Matches(base) == base = reg \/ (reg = Missing /\ base = None)

Ask(c) == /\ req[c] = None
          /\ \E r \in Requests : req' = [req EXCEPT ![c] = r]
          /\ UNCHANGED reg

Commit(c) == /\ req[c] # None
             /\ exposed \/ Matches(req[c].base)
             /\ \E d \in Stored :
                    /\ exposed \/ d = reg
                    /\ reg' = Carry(req[c].file, d)
             /\ req' = [req EXCEPT ![c] = None]

(* Refused, failed, or cut short by a crash.                               *)
GiveUp(c) == /\ req[c] # None
             /\ req' = [req EXCEPT ![c] = None]
             /\ UNCHANGED reg

Swap == UNCHANGED <<reg, req>>

Next == Swap \/ \E c \in Clients : Ask(c) \/ Commit(c) \/ GiveUp(c)

Spec == Init /\ [][Next]_vars
=============================================================================
