---------------------------- MODULE RelayService ----------------------------
(***************************************************************************)
(* What stream_turn and relay_turn promise the HTTP handler that calls     *)
(* them, in the words of their docstrings: "the final reply text is        *)
(* yielded once" by stream_turn, and relay_turn returns the reply or       *)
(* raises.  A call ends once.  It ends as done only if its caller has the  *)
(* reply, a second reply is never handed over, the same one again neither, *)
(* and nothing is before the call or after its end.                        *)
(*                                                                         *)
(* A reply is named by the turn whose run wrote it.  Once the gateway has  *)
(* told which run is a turn's own, a protected stream turn yields the      *)
(* reply of that run or none.                                              *)
(***************************************************************************)
CONSTANTS Turns, Streaming,
          Protected     \* the turns in whose session the turn lock excludes

VARIABLES phase,        \* "idle", "open" or "ended"
          how,          \* how the call ended
          given,        \* the replies handed to the caller, in order
          tagged        \* the turns whose own run is known

vars == <<phase, how, given, tagged>>

Ends == {"done", "refused", "deadline", "noreply", "error", "cancelled"}

Init == /\ phase = [t \in Turns |-> "idle"]
        /\ how = [t \in Turns |-> "none"]
        /\ given = [t \in Turns |-> <<>>]
        /\ tagged = {}

Call(t) == /\ phase[t] = "idle"
           /\ phase' = [phase EXCEPT ![t] = "open"]
           /\ UNCHANGED <<how, given, tagged>>

(* The ack names the run before the caller has a reply.                    *)
Identify(t) == /\ phase[t] = "open" /\ given[t] = <<>>
               /\ tagged' = tagged \cup {t}
               /\ UNCHANGED <<phase, how, given>>

(* A reply is handed over only to a caller that has none.                  *)
Give(t, r) == /\ given[t] = <<>>
              /\ given' = [given EXCEPT ![t] = <<r>>]
              /\ t \in Streaming \cap Protected \cap tagged => r = t

Yield(t) == /\ phase[t] = "open" /\ t \in Streaming
            /\ \E r \in Turns : Give(t, r)
            /\ UNCHANGED <<phase, how, tagged>>

(* A stream ends as done once its reply is out; a relay turn returns it.   *)
End(t, as) == /\ phase[t] = "open"
              /\ phase' = [phase EXCEPT ![t] = "ended"]
              /\ how' = [how EXCEPT ![t] = as]
              /\ \/ /\ as = "done" => t \in Streaming /\ given[t] # <<>>
                    /\ UNCHANGED given
                 \/ /\ as = "done" /\ t \notin Streaming
                    /\ \E r \in Turns : Give(t, r)
              /\ UNCHANGED tagged

Next == \E t \in Turns :
            Call(t) \/ Identify(t) \/ Yield(t) \/ \E as \in Ends : End(t, as)

Spec == Init /\ [][Next]_vars
=============================================================================
