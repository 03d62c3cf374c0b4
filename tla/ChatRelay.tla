------------------------------ MODULE ChatRelay ------------------------------
(***************************************************************************)
(* One ChatRelay object of the node (chat_relay.py): it lives as long as   *)
(* one operator-role WebSocket connection and relays Home Assistant Assist *)
(* turns into gateway sessions.                                            *)
(*                                                                         *)
(* A turn is one call of stream_turn or relay_turn.  The node is a single  *)
(* asyncio loop, so an action is what a coroutine does from one await to   *)
(* the next, or one frame handled by the WebSocket reader (handle_response *)
(* and handle_event).  A response frame resolves a future; the coroutine   *)
(* that waits for it resumes in a later step, and other frames may be      *)
(* handled in between.                                                     *)
(*                                                                         *)
(* A reply text is represented by the turn whose run produced it, so "the  *)
(* reply of another turn" is visible in the state.  A gateway run id is    *)
(* the turn that started the run.  Keepalives, tool progress and approval  *)
(* lines carry no reply text: they are yields without one.                 *)
(*                                                                         *)
(* A stream turn is two generators: stream_turn (the outer one, with lock  *)
(* and registry) iterates _stream_turn_locked (the inner one, with the     *)
(* queue).  While the HTTP handler writes a chunk both are suspended at    *)
(* their yield.  When that write fails nobody closes them: the event loop  *)
(* finalises the outer one in a task of its own, and the inner one in      *)
(* another, later one.                                                     *)
(***************************************************************************)
EXTENDS Naturals, Sequences, FiniteSets

CONSTANTS
    Turns,        \* the calls of stream_turn / relay_turn
    RawKeys,      \* session keys as the node builds them (_session_key)
    Canonicals,   \* session keys as the gateway reports them
    RawOf,        \* [Turns -> RawKeys]
    CanonOf,      \* [RawKeys -> Canonicals], the gateway's canonicalisation
    Streaming,    \* the turns that call stream_turn; the others relay_turn
    Unowned,      \* the turns for which no agent id resolves
    MaxCalls,     \* bound: how many of the turns are called
    None,         \* "no entry in the dict"
    Pending       \* _PENDING_RUN_ID

ASSUME TurnsAssumption ==
    /\ RawOf \in [Turns -> RawKeys]
    /\ CanonOf \in [RawKeys -> Canonicals]
    /\ Streaming \subseteq Turns
    /\ Unowned \subseteq Turns
    /\ MaxCalls \in Nat
ASSUME SentinelAssumption ==
    /\ None \notin Turns /\ Pending \notin Turns /\ None # Pending
    /\ None \notin Canonicals

VARIABLES
    pc,           \* where each turn's coroutine is suspended
    fut,          \* the future of the RPC it awaits
    lateLock,     \* the turns whose turn lock was made after reset()
    activeTurns,  \* _active_turns: raw key -> turn whose principal is held
    canonByRaw,   \* _canonical_by_raw
    subscribed,   \* _subscribed
    runId,        \* _active_run_id
    seen,         \* _seen_same_run_event: the sessions where it is True
    lastText,     \* _last_assistant_text: the turn whose run wrote the text
    termText,     \* _terminal_assistant_text
    queueReg,     \* _delta_queues: the turn whose queue object is registered
    replyReg,     \* _reply_events: the turn whose event object is registered
    queue,        \* the queue object each streaming turn holds
    replySet,     \* the relay_turns whose asyncio.Event is set
    agents,       \* _gateway_agents, abstracted to how many there are
    invHolder,    \* the turn that holds _inventory_lock
    invTask,      \* the detached task of _attach_relay that wants it too
    link,         \* "up" until reset(): the connection the relay works on
    gwRun,        \* external: the turns the gateway has a run for
    gwPrior,      \* external: runs accepted before it in the same session
    gwQuiet,      \* external: runs that will emit nothing more
    outcome,      \* how the turn ended
    yielded,      \* the reply texts handed to the HTTP layer, in order
    ackTagged,    \* history: the turns whose chat.send ack carried a run id
    finalIn,      \* history: those whose own final reply came after the ack
    robbed        \* history: those whose registered queue the late finally of
                  \* an abandoned stream took

turnVars == <<pc, fut, lateLock, outcome, yielded>>
sessVars == <<activeTurns, canonByRaw, subscribed>>
capVars  == <<runId, seen, lastText, termText, queueReg, replyReg, queue, replySet>>
invVars  == <<agents, invHolder, invTask>>
gwVars   == <<gwRun, gwPrior, gwQuiet>>
histVars == <<ackTagged, finalIn, robbed>>
vars == <<turnVars, sessVars, capVars, invVars, link, gwVars, histVars>>

Raw(t) == RawOf[t]
Key(t) == CanonOf[RawOf[t]]

(***************************************************************************)
(* Types.  RPC awaits are "agents", "create", "subscribe", "resubscribe"   *)
(* and "sent" (chat.send); "sending" is the await of the WebSocket send of *)
(* the chat.send frame.  "stream" is the wait for the next queue item and  *)
(* "write" a yield, while the handler writes the chunk.  An abandoned      *)
(* stream is "dropped" until its outer generator is closed, and "closing"  *)
(* until the inner one is.                                                 *)
(***************************************************************************)
PCs == {"idle", "owner", "agents", "lock", "create", "subscribe", "resubscribe",
        "sending", "sent", "stream", "write", "wait", "dropped", "closing", "ended"}
Outcomes == {"none", "refused", "done", "deadline", "noreply", "error", "cancelled"}
TurnOrNone == Turns \cup {None}

TextItem(r) == [kind |-> "text", run |-> r]
CloseItem == [kind |-> "close", run |-> None]
ErrorItem == [kind |-> "error", run |-> None]
Items == [kind : {"text"}, run : Turns] \cup {CloseItem, ErrorItem}

TurnTypes ==
    /\ pc \in [Turns -> PCs]
    /\ fut \in [Turns -> {"none", "pending", "ok", "err"}]
    /\ lateLock \in SUBSET Turns
    /\ outcome \in [Turns -> Outcomes]

SessionTypes ==
    /\ activeTurns \in [RawKeys -> TurnOrNone]
    /\ canonByRaw \in [RawKeys -> Canonicals \cup {None}]
    /\ subscribed \in SUBSET Canonicals

CaptureTypes ==
    /\ runId \in [Canonicals -> Turns \cup {None, Pending}]
    /\ seen \in SUBSET Canonicals
    /\ lastText \in [Canonicals -> TurnOrNone]
    /\ termText \in [Canonicals -> TurnOrNone]
    /\ queueReg \in [Canonicals -> TurnOrNone]
    /\ replyReg \in [Canonicals -> TurnOrNone]
    /\ replySet \in SUBSET Turns

QueueTypes ==
    /\ queue \in [Turns -> Seq(Items)]
    /\ yielded \in [Turns -> Seq(Turns)]

ConnectionTypes ==
    /\ agents \in {"unknown", "few", "several"}
    /\ invHolder \in TurnOrNone
    /\ invTask \in {"new", "asking", "ended"}
    /\ link \in {"up", "down"}

GatewayTypes ==
    /\ gwRun \in SUBSET Turns
    /\ gwPrior \in [Turns -> SUBSET Turns]
    /\ gwQuiet \in SUBSET Turns
    /\ ackTagged \in SUBSET Turns
    /\ finalIn \in SUBSET Turns
    /\ robbed \in SUBSET Turns

TypeOK ==
    /\ TurnTypes
    /\ SessionTypes
    /\ CaptureTypes
    /\ QueueTypes
    /\ ConnectionTypes
    /\ GatewayTypes

Init ==
    /\ pc = [t \in Turns |-> "idle"]
    /\ fut = [t \in Turns |-> "none"]
    /\ lateLock = {}
    /\ activeTurns = [r \in RawKeys |-> None]
    /\ canonByRaw = [r \in RawKeys |-> None]
    /\ subscribed = {}
    /\ runId = [c \in Canonicals |-> None]
    /\ seen = {}
    /\ lastText = [c \in Canonicals |-> None]
    /\ termText = [c \in Canonicals |-> None]
    /\ queueReg = [c \in Canonicals |-> None]
    /\ replyReg = [c \in Canonicals |-> None]
    /\ queue = [t \in Turns |-> <<>>]
    /\ replySet = {}
    /\ agents = "unknown"
    /\ invHolder = None
    /\ invTask = "new"
    /\ link = "up"
    /\ gwRun = {}
    /\ gwPrior = [t \in Turns |-> {}]
    /\ gwQuiet = {}
    /\ outcome = [t \in Turns |-> "none"]
    /\ yielded = [t \in Turns |-> <<>>]
    /\ ackTagged = {}
    /\ finalIn = {}
    /\ robbed = {}

-----------------------------------------------------------------------------
(***************************************************************************)
(* Small pieces shared by the handlers.                                    *)
(***************************************************************************)

\* The coroutine is inside "async with lock, self._active_turn(...)".
LockedPCs == {"create", "subscribe", "resubscribe", "sending", "sent", "stream", "write",
              "wait", "dropped"}

\* The awaits of a lock holder whose per-turn capture state is installed.
CapturePCs == {"sending", "sent", "stream", "write", "wait", "dropped"}

\* Nobody reads what the turn yields any more.
GonePCs == {"dropped", "closing", "ended"}

\* The consumer stops at the first close or error item, so an item put after
\* one is never read.
Closed(q) == \E i \in DOMAIN q : q[i].kind \in {"close", "error"}
Put(q, items) == IF Closed(q) THEN q ELSE q \o items

\* Mutant of Leave: the finally of _active_turn is missing.
LeaveKeepsPrincipal(t, how) ==
    /\ pc' = [pc EXCEPT ![t] = "ended"]
    /\ fut' = [fut EXCEPT ![t] = "none"]
    /\ outcome' = [outcome EXCEPT ![t] = how]
    /\ UNCHANGED activeTurns

\* Leaving the "async with": the lock is released and the principal popped.
Leave(t, how) ==
    /\ pc' = [pc EXCEPT ![t] = "ended"]
    /\ fut' = [fut EXCEPT ![t] = "none"]
    /\ outcome' = [outcome EXCEPT ![t] = how]
    /\ activeTurns' = [activeTurns EXCEPT ![Raw(t)] = None]

\* Mutant of CleanupPendingTurn: the sentinel stays.
CleanupKeepsSentinel(t) ==
    LET c == Key(t) IN
    /\ queueReg' = IF t \in Streaming THEN [queueReg EXCEPT ![c] = None] ELSE queueReg
    /\ replyReg' = IF t \in Streaming THEN replyReg ELSE [replyReg EXCEPT ![c] = None]
    /\ seen' = seen \ {c}
    /\ UNCHANGED runId

\* _cleanup_pending_turn: pops by key, and clears only the sentinel.
CleanupPendingTurn(t) ==
    LET c == Key(t) IN
    /\ queueReg' = IF t \in Streaming THEN [queueReg EXCEPT ![c] = None] ELSE queueReg
    /\ replyReg' = IF t \in Streaming THEN replyReg ELSE [replyReg EXCEPT ![c] = None]
    /\ runId' = [runId EXCEPT ![c] = IF @ = Pending THEN None ELSE @]
    /\ seen' = seen \ {c}

\* Step 1 of _stream_turn_locked / _relay_turn_locked: per-turn state goes in
\* behind the sentinel, before chat.send is sent.
InstallTurn(t) ==
    LET c == Key(t) IN
    /\ lastText' = [lastText EXCEPT ![c] = None]
    /\ termText' = [termText EXCEPT ![c] = None]
    /\ runId' = [runId EXCEPT ![c] = Pending]
    /\ seen' = seen \ {c}
    /\ queueReg' = IF t \in Streaming THEN [queueReg EXCEPT ![c] = t] ELSE queueReg
    /\ replyReg' = IF t \in Streaming THEN replyReg ELSE [replyReg EXCEPT ![c] = t]
    /\ pc' = [pc EXCEPT ![t] = "sending"]
    /\ fut' = [fut EXCEPT ![t] = "pending"]
    /\ UNCHANGED <<queue, replySet>>

\* An RPC through _rpc: the future is registered and the frame is sent.
Call(t, where) ==
    /\ pc' = [pc EXCEPT ![t] = where]
    /\ fut' = [fut EXCEPT ![t] = "pending"]

\* A failure before per-turn state is installed.
FailEarly(t) ==
    /\ Leave(t, "error")
    /\ UNCHANGED <<lateLock, yielded, canonByRaw, subscribed, capVars, invVars,
                   link, gwVars, histVars>>

-----------------------------------------------------------------------------
(***************************************************************************)
(* _require_resolvable_owner and the agent inventory.                      *)
(***************************************************************************)

\* self._turn_locks.setdefault: after reset() the dict is empty, so the turn
\* gets a lock nobody of the time before holds.
GetLock(t) ==
    /\ pc' = [pc EXCEPT ![t] = "lock"]
    /\ lateLock' = IF link = "down" THEN lateLock \cup {t} ELSE lateLock

\* stream_turn / relay_turn called by an HTTP handler.
Begin(t) ==
    /\ pc[t] = "idle"
    /\ Cardinality({u \in Turns : pc[u] # "idle"}) < MaxCalls
    /\ \/ /\ t \notin Unowned
          /\ GetLock(t)
       \/ /\ t \in Unowned
          /\ pc' = [pc EXCEPT ![t] = "owner"]
          /\ UNCHANGED lateLock
    /\ UNCHANGED <<fut, outcome, yielded, sessVars, capVars, invVars, link, gwVars, histVars>>

\* With the topology known to have several agents the turn is refused.
OwnerDecision(t, known) ==
    \/ /\ known # "several"
       /\ GetLock(t)
       /\ UNCHANGED outcome
    \/ /\ known = "several"
       /\ pc' = [pc EXCEPT ![t] = "ended"]
       /\ outcome' = [outcome EXCEPT ![t] = "refused"]
       /\ UNCHANGED lateLock

\* _inventory_lock is held across the agents.list call.
InventoryFree == invHolder = None /\ invTask # "asking"

\* Mutant of ReleaseInventory: a cancelled turn keeps the lock.
KeepInventory(t) == invHolder

\* "async with self._inventory_lock" left by turn t.
ReleaseInventory(t) == IF invHolder = t THEN None ELSE invHolder

\* _inventory_lock acquired; a known topology needs no RPC.
EnterInventory(t) ==
    /\ pc[t] = "owner"
    /\ InventoryFree
    /\ \/ /\ agents # "unknown"
          /\ OwnerDecision(t, agents)
          /\ UNCHANGED <<fut, invHolder>>
       \/ /\ agents = "unknown"
          /\ Call(t, "agents")
          /\ invHolder' = t
          /\ UNCHANGED <<lateLock, outcome>>
    /\ UNCHANGED <<yielded, agents, invTask, sessVars, capVars, link, gwVars, histVars>>

\* agents.list answered, was refused, or timed out: only the answer is kept,
\* and a failure lets the turn go on with the topology unknown.
LeaveInventory(t) ==
    /\ pc[t] = "agents"
    /\ \/ /\ fut[t] = "ok"
          /\ agents' \in {"few", "several"}
       \/ UNCHANGED agents
    /\ OwnerDecision(t, agents')
    /\ fut' = [fut EXCEPT ![t] = "none"]
    /\ invHolder' = ReleaseInventory(t)
    /\ UNCHANGED <<yielded, invTask, sessVars, capVars, link, gwVars, histVars>>

\* The detached task of _attach_relay runs log_gateway_agents: it asks unless
\* a turn has asked before it; its RPC is answered, refused or times out.
BackgroundAsks ==
    /\ invTask = "new"
    /\ InventoryFree
    /\ invTask' = IF agents = "unknown" THEN "asking" ELSE "ended"
    /\ UNCHANGED <<turnVars, sessVars, capVars, agents, invHolder, link, gwVars, histVars>>

BackgroundAnswered ==
    /\ invTask = "asking"
    /\ \/ /\ link = "up"
          /\ agents' \in {"few", "several"}
       \/ UNCHANGED agents
    /\ invTask' = "ended"
    /\ UNCHANGED <<turnVars, sessVars, capVars, invHolder, link, gwVars, histVars>>

-----------------------------------------------------------------------------
(***************************************************************************)
(* The turn under its lock, up to chat.send.                               *)
(***************************************************************************)

\* Mutant of LockFree: every turn makes a lock of its own.
LockAlwaysFree(t) == t \in Turns

\* asyncio.Lock: turns of one raw key that share a lock object exclude one
\* another.
LockFree(t) ==
    \A u \in Turns \ {t} :
        ~ (Raw(u) = Raw(t) /\ (u \in lateLock <=> t \in lateLock) /\ pc[u] \in LockedPCs)

\* Lock acquired, principal registered, and on to the first await: chat.send
\* for a session already subscribed, sessions.create otherwise.
EnterTurn(t) ==
    /\ pc[t] = "lock"
    /\ LockFree(t)
    /\ activeTurns' = [activeTurns EXCEPT ![Raw(t)] = t]
    /\ LET c == canonByRaw[Raw(t)] IN
       \/ /\ c # None /\ c \in subscribed
          /\ InstallTurn(t)
       \/ /\ c = None \/ c \notin subscribed
          /\ Call(t, "create")
          /\ UNCHANGED capVars
    /\ UNCHANGED <<lateLock, outcome, yielded, canonByRaw, subscribed, invVars,
                   link, gwVars, histVars>>

\* sessions.create answered (or ALREADY_EXISTS): subscribe.
Created(t) ==
    /\ pc[t] = "create" /\ fut[t] \in {"ok", "err"}
    /\ Call(t, "subscribe")
    /\ UNCHANGED <<lateLock, outcome, yielded, sessVars, capVars, invVars, link, gwVars, histVars>>

\* The gateway refused includeApprovals: subscribe again without it.
OptInRefused(t) ==
    /\ pc[t] = "subscribe" /\ fut[t] = "err"
    /\ Call(t, "resubscribe")
    /\ UNCHANGED <<lateLock, outcome, yielded, sessVars, capVars, invVars, link, gwVars, histVars>>

\* Subscribed: the canonical key is recorded and the turn installed, in one
\* stretch without an await.
Subscribed(t) ==
    /\ pc[t] \in {"subscribe", "resubscribe"} /\ fut[t] = "ok"
    /\ canonByRaw' = [canonByRaw EXCEPT ![Raw(t)] = Key(t)]
    /\ subscribed' = subscribed \cup {Key(t)}
    /\ InstallTurn(t)
    /\ UNCHANGED <<lateLock, outcome, yielded, activeTurns, invVars, link, gwVars, histVars>>

\* A session RPC is refused, times out, or its frame cannot be sent.  The
\* failure also covers agents.list when its frame cannot be sent.
SessionRpcFails(t) ==
    /\ pc[t] \in {"create", "subscribe", "resubscribe"}
    /\ FailEarly(t)

InventorySendFails(t) ==
    /\ pc[t] = "agents" /\ fut[t] = "pending"
    /\ pc' = [pc EXCEPT ![t] = "ended"]
    /\ fut' = [fut EXCEPT ![t] = "none"]
    /\ outcome' = [outcome EXCEPT ![t] = "error"]
    /\ invHolder' = ReleaseInventory(t)
    /\ UNCHANGED <<lateLock, yielded, agents, invTask, sessVars, capVars, link, gwVars, histVars>>

\* The chat.send frame is on the wire: from now on the gateway has a run.
ChatSendSent(t) ==
    /\ link = "up"
    /\ pc[t] = "sending"
    /\ pc' = [pc EXCEPT ![t] = "sent"]
    /\ gwRun' = gwRun \cup {t}
    /\ gwPrior' = [gwPrior EXCEPT ![t] = {u \in gwRun : Key(u) = Key(t)}]
    /\ UNCHANGED <<fut, lateLock, outcome, yielded, sessVars, capVars, invVars,
                   link, gwQuiet, histVars>>

\* RELAY_FAILED on send, TIMEOUT, a rejected chat.send or DISCONNECTED: the
\* finally block tears the installed state down.
ChatSendFails(t) ==
    /\ pc[t] \in {"sending", "sent"}
    /\ CleanupPendingTurn(t)
    /\ Leave(t, "error")
    /\ UNCHANGED <<lateLock, yielded, canonByRaw, subscribed, lastText, termText,
                   queue, replySet, invVars, link, gwVars, histVars>>

-----------------------------------------------------------------------------
(***************************************************************************)
(* After the ack.                                                          *)
(***************************************************************************)

\* Mutant of AckedRunId: a missing run id is stored as a string.
AckedRunIdAsString(t) == [runId EXCEPT ![Key(t)] = IF t \in ackTagged THEN t ELSE "null"]

\* The coroutine resumes after the ack and writes the run id once more.
AckedRunId(t) == [runId EXCEPT ![Key(t)] = IF t \in ackTagged THEN t ELSE None]

StreamResumes(t) ==
    /\ t \in Streaming
    /\ pc[t] = "sent" /\ fut[t] = "ok"
    /\ runId' = AckedRunId(t)
    /\ pc' = [pc EXCEPT ![t] = "stream"]
    /\ fut' = [fut EXCEPT ![t] = "none"]
    /\ UNCHANGED <<lateLock, outcome, yielded, sessVars, seen, lastText, termText, queueReg,
                   replyReg, queue, replySet, invVars, link, gwVars, histVars>>

\* relay_turn: a terminal text already captured is returned at once.
RelayResumes(t) ==
    LET c == Key(t) IN
    /\ t \notin Streaming
    /\ pc[t] = "sent" /\ fut[t] = "ok"
    /\ runId' = AckedRunId(t)
    /\ \/ /\ termText[c] # None
          /\ Leave(t, "done")
          /\ yielded' = [yielded EXCEPT ![t] = <<termText[c]>>]
          /\ replyReg' = [replyReg EXCEPT ![c] = None]
       \/ /\ termText[c] = None
          /\ pc' = [pc EXCEPT ![t] = "wait"]
          /\ fut' = [fut EXCEPT ![t] = "none"]
          /\ UNCHANGED <<outcome, yielded, activeTurns, replyReg>>
    /\ UNCHANGED <<lateLock, canonByRaw, subscribed, seen, lastText, termText, queueReg, queue,
                   replySet, invVars, link, gwVars, histVars>>

\* relay_turn after its wait, whether the event was set or the deadline
\* passed: terminal text, else the last delta, else NO_REPLY.
RelayReturns(t) ==
    LET c == Key(t)
        reply == IF termText[c] # None THEN termText[c] ELSE lastText[c]
    IN
    /\ pc[t] = "wait"
    /\ replyReg' = [replyReg EXCEPT ![c] = None]
    /\ \/ /\ reply # None
          /\ Leave(t, "done")
          /\ yielded' = [yielded EXCEPT ![t] = <<reply>>]
       \/ /\ reply = None
          /\ Leave(t, "noreply")
          /\ UNCHANGED yielded
    /\ UNCHANGED <<lateLock, canonByRaw, subscribed, runId, seen, lastText, termText, queueReg,
                   queue, replySet, invVars, link, gwVars, histVars>>

\* The stream generators return or raise: the finally of the inner one pops
\* the queue by key, then the outer one leaves.
StreamLeaves(t, how) ==
    /\ Leave(t, how)
    /\ queueReg' = [queueReg EXCEPT ![Key(t)] = None]

\* Mutant of StreamItem: a reply is looked at and not taken.
StreamItemPeeks(t) ==
    /\ pc[t] = "stream"
    /\ queue[t] # <<>>
    /\ LET item == Head(queue[t]) IN
       \/ /\ item.kind = "text"
          /\ yielded' = [yielded EXCEPT ![t] = Append(@, item.run)]
          /\ pc' = [pc EXCEPT ![t] = "write"]
          /\ UNCHANGED <<fut, outcome, activeTurns, queueReg>>
       \/ /\ item.kind # "text"
          /\ StreamLeaves(t, IF item.kind = "close" THEN "done" ELSE "error")
          /\ UNCHANGED yielded
    /\ UNCHANGED <<lateLock, canonByRaw, subscribed, runId, seen, lastText, termText, replyReg,
                   queue, replySet, invVars, link, gwVars, histVars>>

\* One item of the stream queue, taken by the loop or by the drain at its
\* deadline: a reply is yielded, the close and the error end the stream.
StreamItem(t) ==
    /\ pc[t] = "stream"
    /\ queue[t] # <<>>
    /\ LET item == Head(queue[t]) IN
       \/ /\ item.kind = "text"
          /\ queue' = [queue EXCEPT ![t] = Tail(@)]
          /\ yielded' = [yielded EXCEPT ![t] = Append(@, item.run)]
          /\ pc' = [pc EXCEPT ![t] = "write"]
          /\ UNCHANGED <<fut, outcome, activeTurns, queueReg>>
       \/ /\ item.kind = "close"
          /\ StreamLeaves(t, "done")
          /\ UNCHANGED <<queue, yielded>>
       \/ /\ item.kind = "error"
          /\ StreamLeaves(t, "error")
          /\ UNCHANGED <<queue, yielded>>
    /\ UNCHANGED <<lateLock, canonByRaw, subscribed, runId, seen, lastText, termText, replyReg,
                   replySet, invVars, link, gwVars, histVars>>

\* A yield without reply text: a keepalive, a progress or an approval line.
StreamProgress(t) ==
    /\ pc[t] = "stream"
    /\ pc' = [pc EXCEPT ![t] = "write"]
    /\ UNCHANGED <<fut, lateLock, outcome, yielded, sessVars, capVars, invVars, link, gwVars,
                   histVars>>

\* The deadline: found by a wait for the next item, which returns without
\* looking at the queue again, or by a drain that has met no close.
DeadlineReturns(t) ==
    /\ pc[t] = "stream"
    /\ StreamLeaves(t, "deadline")
    /\ UNCHANGED <<lateLock, yielded, canonByRaw, subscribed, runId, seen, lastText, termText,
                   replyReg, queue, replySet, invVars, link, gwVars, histVars>>

\* response.write has returned: the handler asks for the next chunk.
WriteReturns(t) ==
    /\ pc[t] = "write"
    /\ pc' = [pc EXCEPT ![t] = "stream"]
    /\ UNCHANGED <<fut, lateLock, outcome, yielded, sessVars, capVars, invVars, link, gwVars,
                   histVars>>

\* response.write raises, or the handler's task is cancelled in it: the
\* handler drops the generators where they are suspended.
WriteFails(t) ==
    /\ pc[t] = "write"
    /\ pc' = [pc EXCEPT ![t] = "dropped"]
    /\ outcome' = [outcome EXCEPT ![t] = "cancelled"]
    /\ UNCHANGED <<fut, lateLock, yielded, sessVars, capVars, invVars, link, gwVars, histVars>>

\* The loop's finaliser closes the outer generator: principal and lock go.
OuterCloses(t) ==
    /\ pc[t] = "dropped"
    /\ pc' = [pc EXCEPT ![t] = "closing"]
    /\ activeTurns' = [activeTurns EXCEPT ![Raw(t)] = None]
    /\ UNCHANGED <<fut, lateLock, outcome, yielded, canonByRaw, subscribed, capVars, invVars,
                   link, gwVars, histVars>>

\* A task of its own closes the inner generator: its finally pops whatever
\* queue is registered by now.
InnerCloses(t) ==
    LET c == Key(t) IN
    /\ pc[t] = "closing"
    /\ pc' = [pc EXCEPT ![t] = "ended"]
    /\ queueReg' = [queueReg EXCEPT ![c] = None]
    /\ robbed' = robbed \cup ({queueReg[c]} \ {t, None})
    /\ UNCHANGED <<fut, lateLock, outcome, yielded, sessVars, runId, seen, lastText, termText,
                   replyReg, queue, replySet, invVars, link, gwVars, ackTagged, finalIn>>

\* The handler's task is cancelled while the turn itself awaits: the exception
\* passes through all its frames in one go.  relay_turn has no finally around
\* its last wait: its reply event stays registered.
Cancel(t) ==
    /\ \/ /\ pc[t] \in {"owner", "agents", "lock"}
          /\ pc' = [pc EXCEPT ![t] = "ended"]
          /\ fut' = [fut EXCEPT ![t] = "none"]
          /\ outcome' = [outcome EXCEPT ![t] = "cancelled"]
          /\ invHolder' = ReleaseInventory(t)
          /\ UNCHANGED <<activeTurns, queueReg, replyReg, runId, seen>>
       \/ /\ pc[t] \in {"create", "subscribe", "resubscribe", "wait"}
          /\ Leave(t, "cancelled")
          /\ UNCHANGED <<invHolder, queueReg, replyReg, runId, seen>>
       \/ /\ pc[t] \in {"sending", "sent"}
          /\ CleanupPendingTurn(t)
          /\ Leave(t, "cancelled")
          /\ UNCHANGED invHolder
       \/ /\ pc[t] = "stream"
          /\ StreamLeaves(t, "cancelled")
          /\ UNCHANGED <<invHolder, replyReg, runId, seen>>
    /\ UNCHANGED <<lateLock, yielded, canonByRaw, subscribed, lastText, termText, queue, replySet,
                   agents, invTask, link, gwVars, histVars>>

-----------------------------------------------------------------------------
(***************************************************************************)
(* Frames handled by the WebSocket reader.                                 *)
(***************************************************************************)

\* handle_response for an RPC other than chat.send.
RpcResponse(t) ==
    /\ link = "up"
    /\ pc[t] \in {"agents", "create", "subscribe", "resubscribe"}
    /\ fut[t] = "pending"
    /\ \E result \in {"ok", "err"} : fut' = [fut EXCEPT ![t] = result]
    /\ UNCHANGED <<pc, lateLock, outcome, yielded, sessVars, capVars, invVars, link, gwVars, histVars>>

\* Mutant of InstallAckRunId: the run id is left to the coroutine.
AckLeavesSentinel(t, tagged) ==
    runId' = [runId EXCEPT ![Key(t)] = IF ~tagged /\ @ = Pending THEN None ELSE @]

\* handle_response for chat.send: the run id replaces the sentinel before the
\* future is resolved.
InstallAckRunId(t, tagged) ==
    runId' = [runId EXCEPT ![Key(t)] =
                 IF tagged THEN t ELSE IF @ = Pending THEN None ELSE @]

ChatSendAck(t) ==
    /\ link = "up"
    /\ pc[t] = "sent" /\ fut[t] = "pending"
    /\ \E tagged \in BOOLEAN :
          /\ InstallAckRunId(t, tagged)
          /\ ackTagged' = IF tagged THEN ackTagged \cup {t} ELSE ackTagged
    /\ fut' = [fut EXCEPT ![t] = "ok"]
    /\ UNCHANGED <<pc, lateLock, outcome, yielded, sessVars, seen, lastText, termText, queueReg,
                   replyReg, queue, replySet, invVars, link, gwVars, finalIn, robbed>>

ChatSendRejected(t) ==
    /\ link = "up"
    /\ pc[t] = "sent" /\ fut[t] = "pending"
    /\ fut' = [fut EXCEPT ![t] = "err"]
    /\ UNCHANGED <<pc, lateLock, outcome, yielded, sessVars, capVars, invVars, link, gwVars, histVars>>

\* Mutant of Stale: the clause stale_unconfirmed_session is missing.
StaleUnlessUnconfirmed(t, c, family, tagged) ==
    LET active == runId[c] IN
    /\ active # None
    /\ \/ tagged /\ t # active
       \/ family = "chat" /\ ~tagged
       \/ active = Pending /\ ~tagged
       \/ family = "session" /\ ~tagged /\ termText[c] # None

\* The staleness filter of handle_event for a reply of run t in session c.
Stale(t, c, family, tagged) ==
    LET active == runId[c] IN
    /\ active # None
    /\ \/ tagged /\ t # active
       \/ family = "chat" /\ ~tagged
       \/ active = Pending /\ ~tagged
       \/ family = "session" /\ ~tagged /\ termText[c] # None
       \/ /\ family = "session" /\ ~tagged /\ active # Pending
          /\ queueReg[c] # None
          /\ c \notin seen

\* A turn is streaming or waiting in session c.
Listening(c) == queueReg[c] # None \/ replyReg[c] # None

\* handle_event accepts a reply: text buffers, stream queue, reply event.
Capture(t, c, final, tagged) ==
    /\ seen' = IF tagged /\ runId[c] = t THEN seen \cup {c} ELSE seen
    /\ lastText' = [lastText EXCEPT ![c] = t]
    /\ termText' = IF final THEN [termText EXCEPT ![c] = t] ELSE termText
    /\ queue' = IF final /\ queueReg[c] # None
                THEN [queue EXCEPT ![queueReg[c]] = Put(@, <<TextItem(t), CloseItem>>)]
                ELSE queue
    /\ replySet' = IF final /\ replyReg[c] # None
                   THEN replySet \cup {replyReg[c]}
                   ELSE replySet

\* One assistant event of run t.  family "chat" is final or a delta, a
\* session.message is always terminal.  External: the gateway runs a session's
\* runs one after another, so an event of a run ends the runs before it.
AssistantEvent(t, family, tagged, final) ==
    LET c == Key(t) IN
    /\ link = "up"
    /\ t \in gwRun \ gwQuiet
    /\ family = "session" => final
    /\ gwQuiet' = gwQuiet \cup gwPrior[t]
    /\ \/ /\ Listening(c) /\ ~Stale(t, c, family, tagged)
          /\ Capture(t, c, final, tagged)
       \/ /\ ~Listening(c) \/ Stale(t, c, family, tagged)
          /\ UNCHANGED <<seen, lastText, termText, queue, replySet>>
    /\ LET own == final /\ tagged
           acked == pc[t] \in {"stream", "write", "wait"} \/ (pc[t] = "sent" /\ fut[t] = "ok")
       IN finalIn' = IF own /\ acked THEN finalIn \cup {t} ELSE finalIn
    /\ UNCHANGED <<turnVars, sessVars, runId, queueReg, replyReg, invVars, link,
                   gwRun, gwPrior, ackTagged, robbed>>

\* reset() puts a DISCONNECTED error on every registered queue.
Disconnect(q) == Put(q, <<ErrorItem>>)

\* The connection is lost: reset().
Reset ==
    /\ link = "up"
    /\ link' = "down"
    /\ fut' = [t \in Turns |-> IF fut[t] = "pending" THEN "err" ELSE fut[t]]
    /\ canonByRaw' = [r \in RawKeys |-> None]
    /\ subscribed' = {}
    /\ lastText' = [c \in Canonicals |-> None]
    /\ termText' = [c \in Canonicals |-> None]
    /\ queue' = [t \in Turns |-> IF queueReg[Key(t)] = t THEN Disconnect(queue[t]) ELSE queue[t]]
    /\ queueReg' = [c \in Canonicals |-> None]
    /\ replySet' = replySet \cup {t \in Turns : replyReg[Key(t)] = t}
    /\ replyReg' = [c \in Canonicals |-> None]
    /\ runId' = [c \in Canonicals |-> None]
    /\ seen' = {}
    /\ UNCHANGED <<pc, lateLock, outcome, yielded, activeTurns, invVars, gwVars, histVars>>

-----------------------------------------------------------------------------
(***************************************************************************)
(* The specification.  CoroutineStep is what a turn does by itself: every  *)
(* await in it ends with an answer, a failed send or a timeout, so each    *)
(* turn is given weak fairness of its own steps.  A stream may yield       *)
(* progress again and again, but not past its deadline, which the loop     *)
(* looks at after every yield: strong fairness of DeadlineReturns.  A      *)
(* write returns or fails (the client reads, or its connection ends), and  *)
(* the loop runs the close of a dropped generator.  Nothing is assumed of  *)
(* the gateway, of cancellation or of the connection.                      *)
(***************************************************************************)
CoroutineStep(t) ==
    \/ EnterInventory(t) \/ LeaveInventory(t) \/ InventorySendFails(t)
    \/ EnterTurn(t) \/ Created(t) \/ OptInRefused(t) \/ Subscribed(t) \/ SessionRpcFails(t)
    \/ ChatSendSent(t) \/ ChatSendFails(t)
    \/ StreamResumes(t) \/ StreamItem(t) \/ StreamProgress(t) \/ DeadlineReturns(t)
    \/ RelayResumes(t) \/ RelayReturns(t)

\* The handler's write, and the finalisers of a dropped stream.
StreamHandler(t) == WriteReturns(t) \/ WriteFails(t) \/ OuterCloses(t) \/ InnerCloses(t)

Frame(t) ==
    \/ RpcResponse(t) \/ ChatSendAck(t) \/ ChatSendRejected(t)
    \/ \E family \in {"chat", "session"}, tagged, final \in BOOLEAN :
          AssistantEvent(t, family, tagged, final)

Background == BackgroundAsks \/ BackgroundAnswered

\* The relay object is dropped and no turn uses it any more.
Finished ==
    /\ link = "down" /\ invTask = "ended"
    /\ \A t \in Turns : pc[t] \in {"idle", "ended"}
    /\ UNCHANGED vars

Next ==
    \/ \E t \in Turns : Begin(t) \/ CoroutineStep(t) \/ StreamHandler(t) \/ Frame(t) \/ Cancel(t)
    \/ Background
    \/ Reset
    \/ Finished

Spec == Init /\ [][Next]_vars

FairSpec ==
    /\ Spec
    /\ WF_vars(Background)
    /\ \A t \in Turns :
          WF_vars(CoroutineStep(t) \/ StreamHandler(t)) /\ SF_vars(DeadlineReturns(t))

-----------------------------------------------------------------------------
(***************************************************************************)
(* Properties.                                                             *)
(***************************************************************************)

\* No failed, timed-out, cancelled or abandoned turn leaves its pending-run
\* sentinel or its stream queue behind when it has ended, connection lost or
\* not (the finally blocks of _stream_turn_locked and _relay_turn_locked).
NothingStranded ==
    \A c \in Canonicals :
        /\ runId[c] = Pending =>
              \E t \in Turns : Key(t) = c /\ pc[t] \in {"sending", "sent"}
        /\ \A t \in Turns :
              queueReg[c] = t =>
                  t \in Streaming /\ Key(t) = c /\ pc[t] \in CapturePCs \cup {"closing"}

\* While the connection lives, _active_turns names exactly the turns that
\* hold their session's lock, so an invoke made during a turn finds that
\* turn's principal and one made after it finds nobody.
RegistryExact ==
    link = "up" =>
        \A r \in RawKeys : \A t \in Turns :
            activeTurns[r] = t <=> Raw(t) = r /\ pc[t] \in LockedPCs

\* The queue or reply event of t is the registered one.
Owns(t) == IF t \in Streaming THEN queueReg[Key(t)] = t ELSE replyReg[Key(t)] = t

\* While the connection lives, a turn past its install has its own queue or
\* reply event registered ("Inner streaming turn under the per-session lock").
\* It does not hold: the late finally of an abandoned stream pops by key.
CaptureStateOwned ==
    link = "up" => \A t \in Turns : pc[t] \in CapturePCs => Owns(t)

\* The late finally of an abandoned stream is the only thing that takes a
\* turn's queue away while the connection lives, and nothing takes a reply
\* event: no other exit, failure or install of the session does.
OwnedUnlessRobbed ==
    link = "up" => \A t \in Turns : pc[t] \in CapturePCs =>
        Owns(t) \/ t \in robbed \cap Streaming

TextsOf(q) == {q[i].run : i \in {j \in DOMAIN q : q[j].kind = "text"}}
RunsIn(texts) == {texts[i] : i \in DOMAIN texts}

\* A streaming turn whose ack carried a run id shows the user text of its own
\* run only, whatever trailers earlier runs of the session still send
\* (handle_event's staleness filter).
ReplyFromOwnRun ==
    \A t \in Streaming \cap ackTagged :
        /\ RunsIn(yielded[t]) \subseteq {t}
        /\ pc[t] \notin GonePCs => TextsOf(queue[t]) \subseteq {t}

\* A turn's own final reply, once handled after the ack, is kept for it until
\* it ends, also when the coroutine has not resumed yet and, for a stream,
\* also when the connection is lost in between - unless an abandoned stream
\* took the turn's queue.
NoLostReply ==
    \A t \in finalIn \cap ackTagged :
        /\ (t \in Streaming \ robbed /\ pc[t] \in {"sent", "stream", "write"}) =>
              t \in RunsIn(yielded[t]) \cup TextsOf(queue[t])
        /\ (link = "up" /\ t \notin Streaming /\ pc[t] = "wait") =>
              termText[Key(t)] = t /\ t \in replySet

\* A stream that ends with the clean-close sentinel has handed over a reply:
\* a disconnect is never shown as a finished turn.
CleanCloseHasReply ==
    \A t \in Turns : outcome[t] = "done" => yielded[t] # <<>>

\* Every turn that begins ends, its generators closed: no lock, future, queue
\* or finaliser waits forever.  (A turn is called once, so "again and again
\* no turn is under way" says it of each.)
TurnEnds == []<>(\A t \in Turns : pc[t] \in {"idle", "ended"})

\* The turns whose canonical session no other raw key leads to.  The turn lock
\* is keyed by the raw key and the capture state by the canonical one, so these
\* are the turns the lock protects, whatever other sessions do.
Unshared == {t \in Turns : \A u \in Turns : Key(u) = Key(t) => Raw(u) = Raw(t)}

\* A call as its HTTP handler sees it.
PhaseOf(p) == IF p \in GonePCs THEN "ended" ELSE IF p = "idle" THEN "idle" ELSE "open"
Phase == [t \in Turns |-> PhaseOf(pc[t])]
Service == INSTANCE RelayService WITH
    Protected <- Unshared, phase <- Phase, how <- outcome, given <- yielded, tagged <- ackTagged

\* The relay implements RelayService: a caller is given one reply at most,
\* however often frames repeat it, one that ends as done has it, nothing is
\* handed over once the caller is gone, and a turn that is alone in its session
\* and knows its run is given no other run's (the docstrings of stream_turn
\* and relay_turn).
ImplementsService == Service!Spec

=============================================================================
