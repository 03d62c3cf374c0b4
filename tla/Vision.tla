-------------------------------- MODULE Vision --------------------------------
(***************************************************************************)
(* Camera descriptions: POST /v1/vision/describe (http_api.py), the single  *)
(* flight per source (vision.py) and the RPC to the gateway under it        *)
(* (chat_relay.py).                                                         *)
(*                                                                         *)
(* A request is two asyncio tasks: the HTTP handler, here the caller, and   *)
(* the task it awaits, which makes the RPC.  Everything happens in one      *)
(* event loop, so a step runs to its next await; a cancellation is only     *)
(* noted (task.cancel()) and is raised when the task runs again.  A request *)
(* without a source has no second task.                                     *)
(*                                                                         *)
(* The gateway may answer, be slow, or never answer.  Its connection can be *)
(* lost and made again; the relay belongs to a connection, the registry of  *)
(* the single flight to the process.                                        *)
(***************************************************************************)
EXTENDS Naturals

CONSTANTS
    MaxRequests, \* bound on the number of requests
    Sources,     \* the cameras, files or media items requests can name
    None         \* no source

ASSUME ConstantAssumption ==
    /\ None \notin Sources
    /\ MaxRequests \in Nat

(* Requests are numbered in the order in which they arrive; 0 is none.     *)
Requests == 1..MaxRequests

VARIABLES
    up,          \* runtime.operator_connected, and its relay is there
    caller,      \* [Requests -> "idle", "awaiting" or the answer given]
    quit,        \* the requests whose handler has been cancelled
    src,         \* [Requests -> the source named]
    task,        \* [Requests -> where the task is, or how it ended]
    stale,       \* the requests whose relay's connection has been lost
    cancel,      \* the requests whose task has been told to stop
    future,      \* [Requests -> what the RPC's future holds]
    inflight,    \* SingleFlight._inflight
    superseded,  \* SingleFlight._superseded
    overtaken    \* the requests whose task was not done when a later request
                 \* for their source began (not in the code)

flights == <<inflight, superseded, overtaken>>
vars    == <<up, caller, quit, src, task, stale, cancel, future, flights>>

(* Errors are not told apart: the gateway's, a blank description, TIMEOUT,  *)
(* DISCONNECTED and a send that raises all become an error answer.          *)
Ended   == {"text", "failed", "cancelled"}
Answers == {"refused", "ok", "error", "SUPERSEDED", "cancelled"}

TypeOK ==
    /\ up \in BOOLEAN
    /\ caller \in [Requests -> {"idle", "awaiting"} \cup Answers]
    /\ src \in [Requests -> Sources \cup {None}]
    /\ task \in [Requests -> {"none", "created", "sending", "waiting"} \cup Ended]
    /\ future \in [Requests -> {"open", "text", "failed"}]
    /\ \A s \in {quit, stale, cancel, superseded, overtaken} :
          s \subseteq Requests
    /\ inflight \in [Sources -> Requests \cup {0}]

Init ==
    /\ up = TRUE
    /\ caller = [r \in Requests |-> "idle"]
    /\ src = [r \in Requests |-> None]
    /\ task = [r \in Requests |-> "none"]
    /\ future = [r \in Requests |-> "open"]
    /\ inflight = [s \in Sources |-> 0]
    /\ quit = {} /\ stale = {} /\ cancel = {}
    /\ superseded = {} /\ overtaken = {}

Done(r)    == task[r] \in Ended
Running(r) == task[r] \notin Ended \cup {"none"}

-----------------------------------------------------------------------------
(* The handler.                                                            *)

Arrives(r) == caller[r] = "idle" /\ \A q \in 1..(r - 1) : caller[q] # "idle"

(* While the node is not connected every request is refused.  (So are      *)
(* malformed ones at any time, before anything is touched: left out.)      *)
Refuse(r) ==
    /\ Arrives(r) /\ ~up
    /\ caller' = [caller EXCEPT ![r] = "refused"]
    /\ UNCHANGED <<up, quit, src, task, stale, cancel, future, flights>>

(* The request a new one for source s replaces.                            *)
Replaced(s) == {p \in Requests : p = inflight[s] /\ ~Done(p)}

(* SingleFlight.run up to its await.                                       *)
Enter(r, s) ==
    /\ inflight' = [inflight EXCEPT ![s] = r]
    /\ superseded' = superseded \cup Replaced(s)
    /\ cancel' = cancel \cup Replaced(s)
    /\ overtaken' = overtaken \cup {q \in Requests : Running(q) /\ src[q] = s}
    /\ task' = [task EXCEPT ![r] = "created"]

Start(r) ==
    /\ Arrives(r) /\ up
    /\ caller' = [caller EXCEPT ![r] = "awaiting"]
    /\ \/ task' = [task EXCEPT ![r] = "sending"] /\ UNCHANGED <<src, cancel, flights>>
       \/ \E s \in Sources : Enter(r, s) /\ src' = [src EXCEPT ![r] = s]
    /\ UNCHANGED <<up, quit, stale, future>>

(* The server shuts down and cancels its handlers: a task that is not done *)
(* is cancelled in the handler's place.                                    *)
CancelCaller(r) ==
    /\ caller[r] = "awaiting" /\ r \notin quit
    /\ src[r] = None => ~Done(r)
    /\ quit' = quit \cup {r}
    /\ cancel' = cancel \cup (IF Done(r) THEN {} ELSE {r})
    /\ UNCHANGED <<up, caller, src, task, stale, future, flights>>

(* What run raises or returns, and what the handler makes of it.           *)
Outcome(r) ==
    CASE r \in quit \/ task[r] = "cancelled" ->
            IF r \in superseded THEN "SUPERSEDED" ELSE "cancelled"
      [] r \notin quit /\ task[r] = "text"   -> "ok"
      [] r \notin quit /\ task[r] = "failed" -> "error"

(* SingleFlight.run's finally: only its own entry is removed.              *)
LeavesAny(r) == [s \in Sources |-> IF s = src[r] THEN 0 ELSE inflight[s]]
Leaves(r) == [s \in Sources |-> IF inflight[s] = r THEN 0 ELSE inflight[s]]

(* The handler answers, and the two tasks are gone with what they held.    *)
Resume(r) ==
    /\ caller[r] = "awaiting" /\ Done(r)
    /\ caller' = [caller EXCEPT ![r] = Outcome(r)]
    /\ superseded' = superseded \ {r}
    /\ inflight' = Leaves(r)
    /\ task' = [task EXCEPT ![r] = "none"]
    /\ src' = [src EXCEPT ![r] = None]
    /\ quit' = quit \ {r} /\ stale' = stale \ {r} /\ cancel' = cancel \ {r}
    /\ future' = [future EXCEPT ![r] = "open"]
    /\ UNCHANGED <<up, overtaken>>

-----------------------------------------------------------------------------
(* The task.                                                               *)

(* A task cancelled before its first step never runs; otherwise _rpc       *)
(* registers a future and sends, which on a relay whose connection has     *)
(* gone raises at once.                                                    *)
Begin(r) ==
    /\ task[r] = "created"
    /\ task' = [task EXCEPT ![r] = IF r \in cancel THEN "cancelled"
                                   ELSE IF r \in stale THEN "failed" ELSE "sending"]
    /\ UNCHANGED <<up, caller, quit, src, stale, cancel, future, flights>>

SendReturns(r) ==
    /\ task[r] = "sending" /\ r \notin cancel
    /\ \/ task' = [task EXCEPT ![r] = "waiting"]
       \/ r \in stale /\ task' = [task EXCEPT ![r] = "failed"]
    /\ UNCHANGED <<up, caller, quit, src, stale, cancel, future, flights>>

(* The deadline covers the wait for the reply, not the send.  It cancels   *)
(* the future, and comes before an answer that has not been taken up; a    *)
(* task that was cancelled ends as cancelled all the same.                 *)
NoDeadline(r) == FALSE
Deadline(r) ==
    /\ task[r] = "waiting" /\ future[r] # "failed" /\ r \notin cancel
    /\ future' = [future EXCEPT ![r] = "failed"]
    /\ UNCHANGED <<up, caller, quit, src, task, stale, cancel, flights>>

(* The await of the reply returns, or the cancellation is raised.          *)
Returns(r) ==
    /\ task[r] = "waiting" /\ r \notin cancel /\ future[r] # "open"
    /\ task' = [task EXCEPT ![r] = future[r]]
    /\ UNCHANGED <<up, caller, quit, src, stale, cancel, future, flights>>

Stops(r) ==
    /\ task[r] \in {"sending", "waiting"} /\ r \in cancel
    /\ task' = [task EXCEPT ![r] = "cancelled"]
    /\ UNCHANGED <<up, caller, quit, src, stale, cancel, future, flights>>

-----------------------------------------------------------------------------
(* The connection.                                                         *)

(* A future is in relay._pending while its task awaits it.  (One whose      *)
(* send is cancelled stays there until the connection ends, since `except   *)
(* Exception` in _rpc does not see a CancelledError; nobody reads it.)      *)
Pending(r) == task[r] \in {"sending", "waiting"} /\ r \notin stale /\ future[r] = "open"

(* handle_response.  Other answers are dropped; a cancelled task has no use *)
(* for one.                                                                *)
Answer(r) ==
    /\ Pending(r) /\ r \notin cancel
    /\ \E reply \in {"text", "failed"} : future' = [future EXCEPT ![r] = reply]
    /\ UNCHANGED <<up, caller, quit, src, task, stale, cancel, flights>>

(* relay.reset().                                                          *)
Disconnect ==
    /\ up
    /\ up' = FALSE
    /\ future' = [r \in Requests |-> IF Pending(r) THEN "failed" ELSE future[r]]
    /\ stale' = {r \in Requests : Running(r)}
    /\ UNCHANGED <<caller, quit, src, task, cancel, flights>>

Reconnect ==
    /\ ~up
    /\ up' = TRUE
    /\ UNCHANGED <<caller, quit, src, task, stale, cancel, future, flights>>

Step(r) == \/ Begin(r) \/ SendReturns(r) \/ Stops(r) \/ Deadline(r) \/ Returns(r)
           \/ Resume(r)
Next == \/ Disconnect \/ Reconnect
        \/ \E r \in Requests : Refuse(r) \/ Start(r) \/ CancelCaller(r) \/ Step(r) \/ Answer(r)

Spec == Init /\ [][Next]_vars
(* The loop runs what is ready, a send ends (the keepalive closes a dead    *)
(* connection) and a deadline passes.  Nothing is assumed of the gateway.   *)
FairSpec == Spec /\ \A r \in Requests : WF_vars(Step(r))

-----------------------------------------------------------------------------
(* SingleFlight's promise, whatever is cancelled, late or lost: at most one *)
(* request of a source runs without having been told to stop, a request     *)
(* that was still running when a later one for its source began is answered *)
(* SUPERSEDED (never with its description), and no other request is.        *)
NewestWins ==
    /\ \A q, r \in Requests :
          /\ q # r /\ src[q] = src[r] /\ src[q] # None
          /\ Running(q) /\ Running(r)
          => q \in cancel \/ r \in cancel
    /\ \A r \in Requests :
          caller[r] \in Answers => (caller[r] = "SUPERSEDED" <=> r \in overtaken)

(* Every request is answered, although the gateway may never reply.        *)
EveryCallerAnswered == \A r \in Requests : caller[r] = "awaiting" ~> caller[r] \in Answers
=============================================================================
