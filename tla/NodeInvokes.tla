----------------------------- MODULE NodeInvokes -----------------------------
(***************************************************************************)
(* The invokes of the node connection (gateway_ws.py): the queue that is   *)
(* drained after each connect, the invokes that arrive live, their         *)
(* dispatch (commands/dispatcher.py) and the caller each one runs as, which*)
(* is looked up among the Assist turns of the other connection's relay     *)
(* (chat_relay.py).                                                        *)
(*                                                                         *)
(* The node handles one invoke at a time; while it waits for the answer to *)
(* node.pending.pull or to an acknowledgement it drops whatever else       *)
(* arrives.  The code relies on the gateway to deliver again: here the     *)
(* gateway keeps an invoke until its acknowledgement or, if it was sent    *)
(* live, its result arrives, and queues what is open when the connection   *)
(* is lost.                                                                *)
(*                                                                         *)
(* Invokes, turns and keys are names.  A connection is up, dead (the peer  *)
(* is gone, the node has not noticed) or down.                             *)
(***************************************************************************)
EXTENDS Integers, Sequences, FiniteSets

CONSTANTS
    Invokes,
    Malformed,   \* pending actions without an id or a command
    Turns,
    Issuer,      \* [Invokes -> the turn whose run made the call, or None]
    Allowed,     \* [Invokes -> the callers who may make it; nobody, if its params are bad]
    Keys,        \* session keys
    Key,         \* [Turns -> Keys], the raw key of the turn
    Canon,       \* [Keys -> Keys], the gateway's name for the session
    Lower,       \* [Keys -> Keys], str.lower
    None, Operator

ASSUME ConstantAssumption ==
    /\ Malformed \subseteq Invokes
    /\ Issuer \in [Invokes -> Turns \cup {None}]
    /\ Allowed \in [Invokes -> SUBSET (Turns \cup {Operator})]
    /\ Key \in [Turns -> Keys] /\ Canon \in [Keys -> Keys] /\ Lower \in [Keys -> Keys]
    /\ None \notin Turns \cup {Operator} /\ Operator \notin Turns /\ IsFiniteSet(Turns)

VARIABLES
    gw,      \* [Invokes -> what the gateway holds of the invoke]
    got,     \* the invokes the gateway received a result for
    conn,    \* the connection
    up,      \* frames on their way to the gateway
    down,    \* frames on their way to the node
    node,    \* where the client's task is
    by,      \* [Invokes -> the callers it has run as]
    turn,    \* [Turns -> its state in the relay]
    canon    \* the raw keys in _canonical_by_raw

wire == <<conn, up, down>>
relay == <<turn, canon>>
vars == <<gw, got, conn, up, down, node, by, turn, canon>>

Callers == Turns \cup {Operator}
UpFrames == [type : {"pull", "result", "ack"}, item : Invokes \cup {None}]
Pull == [type |-> "pull", item |-> None]
Result(i) == [type |-> "result", item |-> i]
Ack(i) == [type |-> "ack", item |-> i]
DownFrames == [type : {"pull", "ack", "invoke"}, items : SUBSET Invokes]

Nodes == [pc : {"offline", "pull", "drain", "handle", "running", "reply", "ack", "loop"},
          todo : SUBSET Invokes,               \* pulled and not yet handled
          cur : Invokes \cup {None},           \* the invoke in hand
          live : BOOLEAN]                      \* it came through the event loop
Offline == [pc |-> "offline", todo |-> {}, cur |-> None, live |-> FALSE]

TypeOK ==
    /\ gw \in [Invokes -> {"new", "queued", "live", "retired"}]
    /\ got \subseteq Invokes
    /\ conn \in {"up", "dead", "down"}
    /\ up \in Seq(UpFrames) /\ down \in Seq(DownFrames)
    /\ node \in Nodes
    /\ by \in [Invokes -> SUBSET Callers]
    /\ turn \in [Turns -> {"new", "active", "ended", "lost"}]
    /\ canon \subseteq Keys

Init ==
    /\ gw = [i \in Invokes |-> "new"]
    /\ got = {}
    /\ conn = "down" /\ up = <<>> /\ down = <<>>
    /\ node = Offline
    /\ by = [i \in Invokes |-> {}]
    /\ turn = [t \in Turns |-> "new"]
    /\ canon = {}

-----------------------------------------------------------------------------
(* The gateway.                                                            *)

(* A run calls a tool once its turn's chat.send is out, which the turn     *)
(* does only with its canonical key recorded.                              *)
Issued(i) == Issuer[i] # None => turn[Issuer[i]] = "active" /\ Key[Issuer[i]] \in canon

Live(i) ==
    /\ gw[i] = "new" /\ Issued(i) /\ conn = "up" /\ i \notin Malformed
    /\ gw' = [gw EXCEPT ![i] = "live"]
    /\ down' = Append(down, [type |-> "invoke", items |-> {i}])
    /\ UNCHANGED <<got, conn, up, node, by, relay>>

Enqueue(i) ==
    /\ gw[i] = "new" /\ Issued(i) /\ conn # "up"
    /\ gw' = [gw EXCEPT ![i] = "queued"]
    /\ UNCHANGED <<got, wire, node, by, relay>>

AnswerPull ==
    /\ up # <<>> /\ Head(up) = Pull
    /\ up' = Tail(up)
    /\ down' = Append(down, [type |-> "pull", items |-> {i \in Invokes : gw[i] = "queued"}])
    /\ UNCHANGED <<gw, got, conn, node, by, relay>>

TakeResult(i) ==
    /\ up # <<>> /\ Head(up) = Result(i)
    /\ up' = Tail(up)
    /\ got' = got \cup {i}
    /\ gw' = [gw EXCEPT ![i] = IF @ = "live" THEN "retired" ELSE @]
    /\ UNCHANGED <<conn, down, node, by, relay>>

TakeAck(i) ==
    /\ up # <<>> /\ Head(up) = Ack(i)
    /\ up' = Tail(up)
    /\ down' = Append(down, [type |-> "ack", items |-> {i}])
    /\ gw' = [gw EXCEPT ![i] = "retired"]
    /\ UNCHANGED <<got, conn, node, by, relay>>

RejectAck(i) ==
    /\ up # <<>> /\ Head(up) = Ack(i)
    /\ up' = Tail(up)
    /\ down' = Append(down, [type |-> "ack", items |-> {i}])
    /\ UNCHANGED <<gw, got, conn, node, by, relay>>

Requeued == [i \in Invokes |-> IF gw[i] = "live" THEN "queued" ELSE gw[i]]

(* What was sent and not yet received is lost; what had arrived at the     *)
(* node's end can still be read.                                           *)
Lose ==
    /\ conn = "up"
    /\ conn' = "dead" /\ up' = <<>>
    /\ down' \in {down, <<>>}
    /\ gw' = Requeued
    /\ UNCHANGED <<got, node, by, relay>>

-----------------------------------------------------------------------------
(* The node's connection.                                                  *)
HangUp == conn' = "down" /\ up' = <<>> /\ down' = <<>> /\ node' = Offline /\ gw' = Requeued

Connect ==
    /\ node.pc = "offline"
    /\ conn' = "up" /\ up' = <<Pull>> /\ down' = <<>>
    /\ node' = [Offline EXCEPT !.pc = "pull"]
    /\ UNCHANGED <<gw, got, by, relay>>

(* recv() raises once the connection is gone and its frames are read.      *)
NoticeClosed ==
    /\ node.pc \in {"pull", "loop"}
    /\ conn = "dead" /\ down = <<>>
    /\ HangUp
    /\ UNCHANGED <<got, by, relay>>

(* The process dies, or the task is cancelled.                             *)
Crash ==
    /\ node.pc # "offline"
    /\ HangUp
    /\ UNCHANGED <<got, by, relay>>

(* _await_res: only the answer to the pull is taken.                       *)
AwaitDrops ==
    /\ node.pc = "pull"
    /\ down # <<>> /\ Head(down).type # "pull"
    /\ down' = Tail(down)
    /\ UNCHANGED <<gw, got, conn, up, node, by, relay>>

ReceivePull ==
    /\ node.pc = "pull"
    /\ down # <<>> /\ Head(down).type = "pull"
    /\ down' = Tail(down)
    /\ node' = [node EXCEPT !.pc = "drain", !.todo = Head(down).items]
    /\ UNCHANGED <<gw, got, conn, up, by, relay>>

(* No answer in time or in as many frames as are read for it, or one that  *)
(* says no: nothing is drained.                                            *)
PullFails ==
    /\ node.pc = "pull"
    /\ node' = [node EXCEPT !.pc = "loop"]
    /\ UNCHANGED <<gw, got, wire, by, relay>>

SkipMalformedAll(i) ==
    /\ node.pc = "drain" /\ i \in node.todo \cap Malformed
    /\ node' = [node EXCEPT !.todo = {}]
    /\ UNCHANGED <<gw, got, wire, by, relay>>
SkipMalformed(i) ==
    /\ node.pc = "drain" /\ i \in node.todo \cap Malformed
    /\ node' = [node EXCEPT !.todo = @ \ {i}]
    /\ UNCHANGED <<gw, got, wire, by, relay>>

TakeQueuedAckFirst(i) ==
    /\ node.pc = "drain" /\ i \in node.todo \ Malformed
    /\ node' = [node EXCEPT !.todo = @ \ {i}, !.pc = "handle", !.cur = i, !.live = FALSE]
    /\ up' = IF conn = "up" THEN Append(up, Ack(i)) ELSE up
    /\ UNCHANGED <<gw, got, conn, down, by, relay>>
TakeQueued(i) ==
    /\ node.pc = "drain" /\ i \in node.todo \ Malformed
    /\ node' = [node EXCEPT !.todo = @ \ {i}, !.pc = "handle", !.cur = i, !.live = FALSE]
    /\ UNCHANGED <<gw, got, wire, by, relay>>

Drained ==
    /\ node.pc = "drain" /\ node.todo = {}
    /\ node' = [node EXCEPT !.pc = "loop"]
    /\ UNCHANGED <<gw, got, wire, by, relay>>

(* _event_loop: an invoke is handled, an answer nobody waits for ignored.  *)
ReadFrame ==
    /\ node.pc = "loop"
    /\ down # <<>>
    /\ down' = Tail(down)
    /\ \/ /\ Head(down).type = "invoke"
          /\ \E i \in Head(down).items :
                node' = [node EXCEPT !.pc = "handle", !.cur = i, !.live = TRUE]
       \/ Head(down).type # "invoke" /\ UNCHANGED node
    /\ UNCHANGED <<gw, got, conn, up, by, relay>>

-----------------------------------------------------------------------------
(* _handle_invoke.                                                         *)
KnownByRaw(t) == {Lower[Key[t]]}
KnownAs(t) == {Lower[Key[t]]} \cup (IF Key[t] \in canon THEN {Lower[Canon[Key[t]]]} ELSE {})
Named(h) == {t \in Turns : turn[t] = "active" /\ h \in KnownAs(t)}
Hint(i) == Lower[Canon[Key[Issuer[i]]]]

(* active_caller: the one turn the hint names, or nobody.                  *)
ActiveCaller(h) == IF Cardinality(Named(h)) = 1 THEN CHOOSE t \in Named(h) : TRUE ELSE None

CallerOf(i) == IF Issuer[i] = None THEN Operator ELSE ActiveCaller(Hint(i))

(* Bad params, a caller that cannot be told, or a policy that says no: the *)
(* handler never runs.                                                     *)
Refuse ==
    /\ node.pc = "handle"
    /\ CallerOf(node.cur) \notin Allowed[node.cur]
    /\ node' = [node EXCEPT !.pc = "reply"]
    /\ UNCHANGED <<gw, got, wire, by, relay>>

DispatchUnresolved ==
    /\ node.pc = "handle"
    /\ CallerOf(node.cur) \in Allowed[node.cur] \cup {None}
    /\ by' = [by EXCEPT ![node.cur] = @ \cup {CallerOf(node.cur)}]
    /\ node' = [node EXCEPT !.pc = "running"]
    /\ UNCHANGED <<gw, got, wire, relay>>
Dispatch ==
    /\ node.pc = "handle"
    /\ CallerOf(node.cur) \in Allowed[node.cur]
    /\ by' = [by EXCEPT ![node.cur] = @ \cup {CallerOf(node.cur)}]
    /\ node' = [node EXCEPT !.pc = "running"]
    /\ UNCHANGED <<gw, got, wire, relay>>

(* The handler returns, says no, raises, or its result is too large.       *)
Finished ==
    /\ node.pc = "running"
    /\ node' = [node EXCEPT !.pc = "reply"]
    /\ UNCHANGED <<gw, got, wire, by, relay>>

After == [node EXCEPT !.pc = IF node.live THEN "loop" ELSE "ack",
                      !.cur = IF node.live THEN None ELSE @]
Frames == <<Result(node.cur)>> \o (IF node.live THEN <<>> ELSE <<Ack(node.cur)>>)

(* The result is sent and, in the drain, the acknowledgement after it.  On *)
(* a dead connection both may vanish, or the send raises.                  *)
Reply ==
    /\ node.pc = "reply"
    /\ \/ conn = "up" /\ up' = up \o Frames /\ UNCHANGED <<gw, conn, down>> /\ node' = After
       \/ conn = "dead" /\ UNCHANGED <<gw, wire>> /\ node' = After
       \/ conn = "dead" /\ HangUp
    /\ UNCHANGED <<got, by, relay>>

(* _ack_pending reads one frame, whatever it is; a timeout and a closed    *)
(* connection only end the wait.                                           *)
Resume == node' = [node EXCEPT !.pc = "drain", !.cur = None]
ReadAck ==
    /\ node.pc = "ack"
    /\ down # <<>>
    /\ down' = Tail(down)
    /\ Resume
    /\ UNCHANGED <<gw, got, conn, up, by, relay>>

AckUnanswered ==
    /\ node.pc = "ack"
    /\ Resume
    /\ UNCHANGED <<gw, got, wire, by, relay>>

-----------------------------------------------------------------------------
(* The relay's turns, on the other connection.                             *)
StartTurn(t) ==
    /\ turn[t] = "new"
    /\ \A u \in Turns : turn[u] = "active" => Key[u] # Key[t]
    /\ turn' = [turn EXCEPT ![t] = "active"]
    /\ UNCHANGED <<gw, got, wire, node, by, canon>>

LearnCanon(t) ==
    /\ turn[t] = "active"
    /\ canon' = canon \cup {Key[t]}
    /\ UNCHANGED <<gw, got, wire, node, by, turn>>

EndTurn(t) ==
    /\ turn[t] = "active"
    /\ turn' = [turn EXCEPT ![t] = "ended"]
    /\ UNCHANGED <<gw, got, wire, node, by, canon>>

(* The other connection is lost: its relay is reset and dropped, and the   *)
(* next connect makes a new one.                                           *)
ResetRelay ==
    /\ turn' = [t \in Turns |-> IF turn[t] = "active" THEN "lost" ELSE turn[t]]
    /\ canon' = {}
    /\ UNCHANGED <<gw, got, wire, node, by>>

Gateway == AnswerPull \/ \E i \in Invokes : TakeResult(i) \/ TakeAck(i) \/ RejectAck(i)
Client == \/ NoticeClosed \/ AwaitDrops \/ ReceivePull \/ PullFails \/ Drained \/ ReadFrame
          \/ Refuse \/ Dispatch \/ Finished \/ Reply \/ ReadAck \/ AckUnanswered
          \/ \E i \in Invokes : SkipMalformed(i) \/ TakeQueued(i)
Next == \/ Gateway \/ Client \/ Connect \/ Lose \/ Crash \/ ResetRelay
        \/ \E i \in Invokes : Live(i) \/ Enqueue(i)
        \/ \E t \in Turns : StartTurn(t) \/ LearnCanon(t) \/ EndTurn(t)

Spec == Init /\ [][Next]_vars
(* The client's task and the gateway keep going, and handlers return.      *)
FairSpec == Spec /\ WF_vars(Client) /\ WF_vars(Gateway)

-----------------------------------------------------------------------------
(* The gateway lets go of an invoke only when it has a result for it: the  *)
(* drain acknowledges after _handle_invoke has sent one, on the same       *)
(* connection, and skips what it cannot read without acknowledging it.     *)
RetiredMeansAnswered == \A i \in Invokes : gw[i] = "retired" => i \in got

(* An invoke with a caller hint never runs as the operator, nor as another *)
(* turn while the turn it comes from is active, whatever the two turns'    *)
(* keys are called and whenever either begins, ends or is reset; one       *)
(* without a hint runs as the operator.                                    *)
OwnAuthority ==
    [][\A i \in Invokes : \A c \in by'[i] \ by[i] :
          /\ Issuer[i] = None <=> c = Operator
          /\ Issuer[i] # None /\ turn[Issuer[i]] = "active" => c = Issuer[i]]_vars

(* Every action of a pulled queue that can be read is answered, or the     *)
(* connection is lost: a malformed one before it, a missing or unexpected  *)
(* answer to an acknowledgement, or an invoke that arrives meanwhile does  *)
(* not end the drain.                                                      *)
PulledIsAnswered ==
    \A i \in Invokes \ Malformed : i \in node.todo ~> i \in got \/ conn # "up"
=============================================================================
