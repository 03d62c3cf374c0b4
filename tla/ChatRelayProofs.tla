-------------------------- MODULE ChatRelayProofs --------------------------
(***************************************************************************)
(* Proofs about ChatRelay, for any number of turns, sessions and agents.   *)
(***************************************************************************)
EXTENDS ChatRelay, TLAPS

-----------------------------------------------------------------------------
(***************************************************************************)
(* Type correctness: one lemma per action, one step per group of           *)
(* variables the action writes.                                            *)
(***************************************************************************)

\* What the elements of a stream queue are.
LEMMA ItemFacts ==
    /\ CloseItem \in Items /\ ErrorItem \in Items
    /\ \A r \in Turns : TextItem(r) \in Items
    /\ \A x \in Items : x.kind = "text" => x.run \in Turns
BY DEF Items, CloseItem, ErrorItem, TextItem


\* Put, the queue.put_nowait of handle_event and reset, keeps a queue a queue.
LEMMA PutType ==
    ASSUME NEW q \in Seq(Items), NEW s \in Seq(Items)
    PROVE  Put(q, s) \in Seq(Items)
BY DEF Put


\* Begin keeps the types.
LEMMA BeginTypes ==
    ASSUME TypeOK, NEW t \in Turns, Begin(t)
    PROVE  TypeOK'
<1>1. TurnTypes'
  BY DEF TypeOK, TurnTypes, Begin, GetLock, PCs
<1>2. SessionTypes' /\ CaptureTypes' /\ QueueTypes' /\ ConnectionTypes' /\ GatewayTypes'
  BY DEF TypeOK, SessionTypes, CaptureTypes, QueueTypes, ConnectionTypes, GatewayTypes, Begin,
         turnVars, sessVars, capVars, invVars, gwVars, histVars
<1> QED BY <1>1, <1>2 DEF TypeOK

\* EnterInventory keeps the types.
LEMMA EnterInventoryTypes ==
    ASSUME TypeOK, NEW t \in Turns, EnterInventory(t)
    PROVE  TypeOK'
<1>1. TurnTypes'
  BY DEF TypeOK, TurnTypes, EnterInventory, OwnerDecision, GetLock, Call, PCs, Outcomes
<1>2. ConnectionTypes'
  BY DEF TypeOK, ConnectionTypes, EnterInventory, TurnOrNone
<1>3. SessionTypes' /\ CaptureTypes' /\ QueueTypes' /\ GatewayTypes'
  BY DEF TypeOK, SessionTypes, CaptureTypes, QueueTypes, GatewayTypes, EnterInventory,
         turnVars, sessVars, capVars, invVars, gwVars, histVars
<1> QED BY <1>1, <1>2, <1>3 DEF TypeOK

\* LeaveInventory keeps the types.
LEMMA LeaveInventoryTypes ==
    ASSUME TypeOK, NEW t \in Turns, LeaveInventory(t)
    PROVE  TypeOK'
<1>1. TurnTypes'
  BY DEF TypeOK, TurnTypes, LeaveInventory, OwnerDecision, GetLock, PCs, Outcomes
<1>2. ConnectionTypes'
  BY DEF TypeOK, ConnectionTypes, LeaveInventory, ReleaseInventory, TurnOrNone
<1>3. SessionTypes' /\ CaptureTypes' /\ QueueTypes' /\ GatewayTypes'
  BY DEF TypeOK, SessionTypes, CaptureTypes, QueueTypes, GatewayTypes, LeaveInventory,
         turnVars, sessVars, capVars, invVars, gwVars, histVars
<1> QED BY <1>1, <1>2, <1>3 DEF TypeOK

\* InventorySendFails keeps the types.
LEMMA InventorySendFailsTypes ==
    ASSUME TypeOK, NEW t \in Turns, InventorySendFails(t)
    PROVE  TypeOK'
<1>1. TurnTypes'
  BY DEF TypeOK, TurnTypes, InventorySendFails, PCs, Outcomes
<1>2. ConnectionTypes'
  BY DEF TypeOK, ConnectionTypes, InventorySendFails, ReleaseInventory, TurnOrNone
<1>3. SessionTypes' /\ CaptureTypes' /\ QueueTypes' /\ GatewayTypes'
  BY DEF TypeOK, SessionTypes, CaptureTypes, QueueTypes, GatewayTypes, InventorySendFails,
         turnVars, sessVars, capVars, invVars, gwVars, histVars
<1> QED BY <1>1, <1>2, <1>3 DEF TypeOK

\* EnterTurn keeps the types.
LEMMA EnterTurnTypes ==
    ASSUME TypeOK, NEW t \in Turns, EnterTurn(t)
    PROVE  TypeOK'
<1>1. TurnTypes'
  BY DEF TypeOK, TurnTypes, EnterTurn, InstallTurn, Call, PCs
<1>2. SessionTypes'
  BY TurnsAssumption DEF TypeOK, SessionTypes, EnterTurn, Raw, TurnOrNone
<1>3. CaptureTypes'
  BY TurnsAssumption DEF TypeOK, CaptureTypes, EnterTurn, InstallTurn, Key, TurnOrNone, capVars
<1>4. QueueTypes'
  BY DEF TypeOK, QueueTypes, EnterTurn, InstallTurn, capVars
<1>5. ConnectionTypes' /\ GatewayTypes'
  BY DEF TypeOK, ConnectionTypes, GatewayTypes, EnterTurn,
         turnVars, sessVars, capVars, invVars, gwVars, histVars
<1> QED BY <1>1, <1>2, <1>3, <1>4, <1>5 DEF TypeOK

\* Created keeps the types.
LEMMA CreatedTypes ==
    ASSUME TypeOK, NEW t \in Turns, Created(t)
    PROVE  TypeOK'
<1>1. TurnTypes'
  BY DEF TypeOK, TurnTypes, Created, Call, PCs
<1>2. SessionTypes' /\ CaptureTypes' /\ QueueTypes' /\ ConnectionTypes' /\ GatewayTypes'
  BY DEF TypeOK, SessionTypes, CaptureTypes, QueueTypes, ConnectionTypes, GatewayTypes, Created,
         turnVars, sessVars, capVars, invVars, gwVars, histVars
<1> QED BY <1>1, <1>2 DEF TypeOK

\* OptInRefused keeps the types.
LEMMA OptInRefusedTypes ==
    ASSUME TypeOK, NEW t \in Turns, OptInRefused(t)
    PROVE  TypeOK'
<1>1. TurnTypes'
  BY DEF TypeOK, TurnTypes, OptInRefused, Call, PCs
<1>2. SessionTypes' /\ CaptureTypes' /\ QueueTypes' /\ ConnectionTypes' /\ GatewayTypes'
  BY DEF TypeOK, SessionTypes, CaptureTypes, QueueTypes, ConnectionTypes, GatewayTypes, OptInRefused,
         turnVars, sessVars, capVars, invVars, gwVars, histVars
<1> QED BY <1>1, <1>2 DEF TypeOK

\* Subscribed keeps the types.
LEMMA SubscribedTypes ==
    ASSUME TypeOK, NEW t \in Turns, Subscribed(t)
    PROVE  TypeOK'
<1>1. TurnTypes'
  BY DEF TypeOK, TurnTypes, Subscribed, InstallTurn, PCs
<1>2. SessionTypes'
  BY TurnsAssumption DEF TypeOK, SessionTypes, Subscribed, Raw, Key
<1>3. CaptureTypes'
  BY TurnsAssumption DEF TypeOK, CaptureTypes, Subscribed, InstallTurn, Key, TurnOrNone
<1>4. QueueTypes'
  BY DEF TypeOK, QueueTypes, Subscribed, InstallTurn
<1>5. ConnectionTypes' /\ GatewayTypes'
  BY DEF TypeOK, ConnectionTypes, GatewayTypes, Subscribed,
         turnVars, sessVars, capVars, invVars, gwVars, histVars
<1> QED BY <1>1, <1>2, <1>3, <1>4, <1>5 DEF TypeOK

\* SessionRpcFails keeps the types.
LEMMA SessionRpcFailsTypes ==
    ASSUME TypeOK, NEW t \in Turns, SessionRpcFails(t)
    PROVE  TypeOK'
<1>1. TurnTypes'
  BY DEF TypeOK, TurnTypes, SessionRpcFails, FailEarly, Leave, PCs, Outcomes
<1>2. SessionTypes'
  BY TurnsAssumption DEF TypeOK, SessionTypes, SessionRpcFails, FailEarly, Leave, Raw, TurnOrNone
<1>3. CaptureTypes' /\ QueueTypes' /\ ConnectionTypes' /\ GatewayTypes'
  BY DEF TypeOK, CaptureTypes, QueueTypes, ConnectionTypes, GatewayTypes, SessionRpcFails,
         turnVars, sessVars, capVars, invVars, gwVars, histVars, FailEarly
<1> QED BY <1>1, <1>2, <1>3 DEF TypeOK

\* ChatSendSent keeps the types.
LEMMA ChatSendSentTypes ==
    ASSUME TypeOK, NEW t \in Turns, ChatSendSent(t)
    PROVE  TypeOK'
<1>1. TurnTypes'
  BY DEF TypeOK, TurnTypes, ChatSendSent, PCs
<1>2. GatewayTypes'
  BY DEF TypeOK, GatewayTypes, ChatSendSent, histVars
<1>3. SessionTypes' /\ CaptureTypes' /\ QueueTypes' /\ ConnectionTypes'
  BY DEF TypeOK, SessionTypes, CaptureTypes, QueueTypes, ConnectionTypes, ChatSendSent,
         turnVars, sessVars, capVars, invVars, gwVars, histVars
<1> QED BY <1>1, <1>2, <1>3 DEF TypeOK

\* ChatSendFails keeps the types.
LEMMA ChatSendFailsTypes ==
    ASSUME TypeOK, NEW t \in Turns, ChatSendFails(t)
    PROVE  TypeOK'
<1>1. TurnTypes'
  BY DEF TypeOK, TurnTypes, ChatSendFails, Leave, PCs, Outcomes
<1>2. SessionTypes'
  BY TurnsAssumption DEF TypeOK, SessionTypes, ChatSendFails, Leave, Raw, TurnOrNone
<1>3. CaptureTypes'
  BY TurnsAssumption DEF TypeOK, CaptureTypes, ChatSendFails, CleanupPendingTurn, Key, TurnOrNone
<1>4. QueueTypes' /\ ConnectionTypes' /\ GatewayTypes'
  BY DEF TypeOK, QueueTypes, ConnectionTypes, GatewayTypes, ChatSendFails,
         turnVars, sessVars, capVars, invVars, gwVars, histVars
<1> QED BY <1>1, <1>2, <1>3, <1>4 DEF TypeOK

\* StreamResumes keeps the types.
LEMMA StreamResumesTypes ==
    ASSUME TypeOK, NEW t \in Turns, StreamResumes(t)
    PROVE  TypeOK'
<1>1. TurnTypes'
  BY DEF TypeOK, TurnTypes, StreamResumes, PCs
<1>2. CaptureTypes'
  BY TurnsAssumption DEF TypeOK, CaptureTypes, StreamResumes, AckedRunId, Key, TurnOrNone
<1>3. SessionTypes' /\ QueueTypes' /\ ConnectionTypes' /\ GatewayTypes'
  BY DEF TypeOK, SessionTypes, QueueTypes, ConnectionTypes, GatewayTypes, StreamResumes,
         turnVars, sessVars, capVars, invVars, gwVars, histVars
<1> QED BY <1>1, <1>2, <1>3 DEF TypeOK

\* RelayResumes keeps the types.
LEMMA RelayResumesTypes ==
    ASSUME TypeOK, NEW t \in Turns, RelayResumes(t)
    PROVE  TypeOK'
<1>1. yielded' \in [Turns -> Seq(Turns)]
  <2>1. \/ UNCHANGED yielded
        \/ \E r \in Turns : yielded' = [yielded EXCEPT ![t] = <<r>>]
    BY TurnsAssumption DEF TypeOK, CaptureTypes, TurnOrNone, RelayResumes, Key
  <2>2. \A r \in Turns : <<r>> \in Seq(Turns)
    OBVIOUS
  <2> QED BY <2>1, <2>2 DEF TypeOK, QueueTypes
<1>2. TurnTypes'
  BY DEF TypeOK, TurnTypes, RelayResumes, Leave, PCs, Outcomes
<1>3. SessionTypes'
  BY TurnsAssumption DEF TypeOK, SessionTypes, RelayResumes, Leave, Raw, TurnOrNone
<1>4. CaptureTypes'
  BY TurnsAssumption DEF TypeOK, CaptureTypes, RelayResumes, AckedRunId, Key, TurnOrNone
<1>5. QueueTypes' /\ ConnectionTypes' /\ GatewayTypes'
  BY <1>1 DEF TypeOK, QueueTypes, ConnectionTypes, GatewayTypes, RelayResumes,
         turnVars, sessVars, capVars, invVars, gwVars, histVars
<1> QED BY <1>2, <1>3, <1>4, <1>5 DEF TypeOK

\* RelayReturns keeps the types.
LEMMA RelayReturnsTypes ==
    ASSUME TypeOK, NEW t \in Turns, RelayReturns(t)
    PROVE  TypeOK'
<1>1. yielded' \in [Turns -> Seq(Turns)]
  <2>1. \/ UNCHANGED yielded
        \/ \E r \in Turns : yielded' = [yielded EXCEPT ![t] = <<r>>]
    BY TurnsAssumption DEF TypeOK, CaptureTypes, TurnOrNone, RelayReturns, Key
  <2>2. \A r \in Turns : <<r>> \in Seq(Turns)
    OBVIOUS
  <2> QED BY <2>1, <2>2 DEF TypeOK, QueueTypes
<1>2. TurnTypes'
  BY DEF TypeOK, TurnTypes, RelayReturns, Leave, PCs, Outcomes
<1>3. SessionTypes'
  BY TurnsAssumption DEF TypeOK, SessionTypes, RelayReturns, Leave, Raw, TurnOrNone
<1>4. CaptureTypes'
  BY TurnsAssumption DEF TypeOK, CaptureTypes, RelayReturns, Key, TurnOrNone
<1>5. QueueTypes' /\ ConnectionTypes' /\ GatewayTypes'
  BY <1>1 DEF TypeOK, QueueTypes, ConnectionTypes, GatewayTypes, RelayReturns,
         turnVars, sessVars, capVars, invVars, gwVars, histVars
<1> QED BY <1>2, <1>3, <1>4, <1>5 DEF TypeOK

\* StreamItem keeps the types.
LEMMA StreamItemTypes ==
    ASSUME TypeOK, NEW t \in Turns, StreamItem(t)
    PROVE  TypeOK'
<1>1. queue[t] \in Seq(Items) /\ queue[t] # <<>>
  BY DEF TypeOK, QueueTypes, StreamItem
<1>2. Head(queue[t]) \in Items /\ Tail(queue[t]) \in Seq(Items)
  BY <1>1
<1>3. yielded' \in [Turns -> Seq(Turns)]
  <2>1. \/ UNCHANGED yielded
        \/ /\ Head(queue[t]).kind = "text"
           /\ yielded' = [yielded EXCEPT ![t] = Append(@, Head(queue[t]).run)]
    BY DEF StreamItem
  <2>2. Head(queue[t]).kind = "text" => Append(yielded[t], Head(queue[t]).run) \in Seq(Turns)
    BY <1>2, ItemFacts DEF TypeOK, QueueTypes
  <2> QED BY <2>1, <2>2 DEF TypeOK, QueueTypes
<1>4. TurnTypes'
  BY DEF TypeOK, TurnTypes, StreamItem, StreamLeaves, Leave, PCs, Outcomes
<1>5. QueueTypes'
  BY <1>2, <1>3 DEF TypeOK, QueueTypes, StreamItem
<1>6. SessionTypes'
  BY TurnsAssumption DEF TypeOK, SessionTypes, StreamItem, StreamLeaves, Leave, Raw, TurnOrNone
<1>7. CaptureTypes'
  BY TurnsAssumption DEF TypeOK, CaptureTypes, StreamItem, StreamLeaves, Key, TurnOrNone
<1>8. ConnectionTypes' /\ GatewayTypes'
  BY DEF TypeOK, ConnectionTypes, GatewayTypes, StreamItem,
         turnVars, sessVars, capVars, invVars, gwVars, histVars
<1> QED BY <1>4, <1>5, <1>6, <1>7, <1>8 DEF TypeOK

\* StreamProgress and the handler's write keep the types.
LEMMA WriteTypes ==
    ASSUME TypeOK, NEW t \in Turns, StreamProgress(t) \/ WriteReturns(t) \/ WriteFails(t)
    PROVE  TypeOK'
<1>1. TurnTypes'
  BY DEF TypeOK, TurnTypes, StreamProgress, WriteReturns, WriteFails, PCs, Outcomes
<1>2. SessionTypes' /\ CaptureTypes' /\ QueueTypes' /\ ConnectionTypes' /\ GatewayTypes'
  BY DEF TypeOK, SessionTypes, CaptureTypes, QueueTypes, ConnectionTypes, GatewayTypes,
         StreamProgress, WriteReturns, WriteFails,
         turnVars, sessVars, capVars, invVars, gwVars, histVars
<1> QED BY <1>1, <1>2 DEF TypeOK

\* The close of the outer generator of an abandoned stream keeps the types.
LEMMA OuterClosesTypes ==
    ASSUME TypeOK, NEW t \in Turns, OuterCloses(t)
    PROVE  TypeOK'
<1>1. TurnTypes'
  BY DEF TypeOK, TurnTypes, OuterCloses, PCs
<1>2. SessionTypes'
  BY TurnsAssumption DEF TypeOK, SessionTypes, OuterCloses, Raw, TurnOrNone
<1>3. CaptureTypes' /\ QueueTypes' /\ ConnectionTypes' /\ GatewayTypes'
  BY DEF TypeOK, CaptureTypes, QueueTypes, ConnectionTypes, GatewayTypes, OuterCloses,
         capVars, invVars, gwVars, histVars
<1> QED BY <1>1, <1>2, <1>3 DEF TypeOK

\* The close of the inner one too.
LEMMA InnerClosesTypes ==
    ASSUME TypeOK, NEW t \in Turns, InnerCloses(t)
    PROVE  TypeOK'
<1>0. Key(t) \in Canonicals
  BY TurnsAssumption DEF Key
<1>1. TurnTypes'
  BY DEF TypeOK, TurnTypes, InnerCloses, PCs
<1>2. CaptureTypes'
  BY <1>0 DEF TypeOK, CaptureTypes, InnerCloses, TurnOrNone
<1>3. GatewayTypes'
  BY <1>0 DEF TypeOK, GatewayTypes, CaptureTypes, InnerCloses, TurnOrNone, gwVars
<1>4. SessionTypes' /\ QueueTypes' /\ ConnectionTypes'
  BY DEF TypeOK, SessionTypes, QueueTypes, ConnectionTypes, InnerCloses, sessVars, invVars
<1> QED BY <1>1, <1>2, <1>3, <1>4 DEF TypeOK

\* DeadlineReturns keeps the types.
LEMMA DeadlineReturnsTypes ==
    ASSUME TypeOK, NEW t \in Turns, DeadlineReturns(t)
    PROVE  TypeOK'
<1>1. TurnTypes'
  BY DEF TypeOK, TurnTypes, DeadlineReturns, StreamLeaves, Leave, PCs, Outcomes
<1>2. SessionTypes'
  BY TurnsAssumption DEF TypeOK, SessionTypes, DeadlineReturns, StreamLeaves, Leave, Raw, TurnOrNone
<1>3. CaptureTypes'
  BY TurnsAssumption DEF TypeOK, CaptureTypes, DeadlineReturns, StreamLeaves, Key, TurnOrNone
<1>4. QueueTypes' /\ ConnectionTypes' /\ GatewayTypes'
  BY DEF TypeOK, QueueTypes, ConnectionTypes, GatewayTypes, DeadlineReturns,
         turnVars, sessVars, capVars, invVars, gwVars, histVars
<1> QED BY <1>1, <1>2, <1>3, <1>4 DEF TypeOK

\* Cancel keeps the types.
LEMMA CancelTypes ==
    ASSUME TypeOK, NEW t \in Turns, Cancel(t)
    PROVE  TypeOK'
<1>1. TurnTypes'
  BY DEF TypeOK, TurnTypes, Cancel, Leave, StreamLeaves, PCs, Outcomes
<1>2. SessionTypes'
  BY TurnsAssumption DEF TypeOK, SessionTypes, Cancel, Leave, StreamLeaves, Raw, TurnOrNone
<1>3. CaptureTypes'
  BY TurnsAssumption DEF TypeOK, CaptureTypes, Cancel, CleanupPendingTurn, StreamLeaves, Key, TurnOrNone
<1>4. ConnectionTypes'
  BY DEF TypeOK, ConnectionTypes, Cancel, ReleaseInventory, TurnOrNone
<1>5. QueueTypes' /\ GatewayTypes'
  BY DEF TypeOK, QueueTypes, GatewayTypes, Cancel,
         turnVars, sessVars, capVars, invVars, gwVars, histVars
<1> QED BY <1>1, <1>2, <1>3, <1>4, <1>5 DEF TypeOK

\* RpcResponse keeps the types.
LEMMA RpcResponseTypes ==
    ASSUME TypeOK, NEW t \in Turns, RpcResponse(t)
    PROVE  TypeOK'
<1>1. TurnTypes'
  BY DEF TypeOK, TurnTypes, RpcResponse
<1>2. SessionTypes' /\ CaptureTypes' /\ QueueTypes' /\ ConnectionTypes' /\ GatewayTypes'
  BY DEF TypeOK, SessionTypes, CaptureTypes, QueueTypes, ConnectionTypes, GatewayTypes, RpcResponse,
         turnVars, sessVars, capVars, invVars, gwVars, histVars
<1> QED BY <1>1, <1>2 DEF TypeOK

\* ChatSendAck keeps the types.
LEMMA ChatSendAckTypes ==
    ASSUME TypeOK, NEW t \in Turns, ChatSendAck(t)
    PROVE  TypeOK'
<1>1. TurnTypes'
  BY DEF TypeOK, TurnTypes, ChatSendAck
<1>2. CaptureTypes'
  BY TurnsAssumption DEF TypeOK, CaptureTypes, ChatSendAck, InstallAckRunId, Key
<1>3. GatewayTypes'
  BY DEF TypeOK, GatewayTypes, ChatSendAck, gwVars
<1>4. SessionTypes' /\ QueueTypes' /\ ConnectionTypes'
  BY DEF TypeOK, SessionTypes, QueueTypes, ConnectionTypes, ChatSendAck,
         turnVars, sessVars, capVars, invVars, gwVars, histVars
<1> QED BY <1>1, <1>2, <1>3, <1>4 DEF TypeOK

\* ChatSendRejected keeps the types.
LEMMA ChatSendRejectedTypes ==
    ASSUME TypeOK, NEW t \in Turns, ChatSendRejected(t)
    PROVE  TypeOK'
<1>1. TurnTypes'
  BY DEF TypeOK, TurnTypes, ChatSendRejected
<1>2. SessionTypes' /\ CaptureTypes' /\ QueueTypes' /\ ConnectionTypes' /\ GatewayTypes'
  BY DEF TypeOK, SessionTypes, CaptureTypes, QueueTypes, ConnectionTypes, GatewayTypes, ChatSendRejected,
         turnVars, sessVars, capVars, invVars, gwVars, histVars
<1> QED BY <1>1, <1>2 DEF TypeOK

\* BackgroundAsks keeps the types.
LEMMA BackgroundAsksTypes ==
    ASSUME TypeOK, BackgroundAsks
    PROVE  TypeOK'
<1>1. ConnectionTypes'
  BY DEF TypeOK, ConnectionTypes, BackgroundAsks
<1>2. TurnTypes' /\ SessionTypes' /\ CaptureTypes' /\ QueueTypes' /\ GatewayTypes'
  BY DEF TypeOK, TurnTypes, SessionTypes, CaptureTypes, QueueTypes, GatewayTypes, BackgroundAsks,
         turnVars, sessVars, capVars, invVars, gwVars, histVars
<1> QED BY <1>1, <1>2 DEF TypeOK

\* BackgroundAnswered keeps the types.
LEMMA BackgroundAnsweredTypes ==
    ASSUME TypeOK, BackgroundAnswered
    PROVE  TypeOK'
<1>1. ConnectionTypes'
  BY DEF TypeOK, ConnectionTypes, BackgroundAnswered
<1>2. TurnTypes' /\ SessionTypes' /\ CaptureTypes' /\ QueueTypes' /\ GatewayTypes'
  BY DEF TypeOK, TurnTypes, SessionTypes, CaptureTypes, QueueTypes, GatewayTypes, BackgroundAnswered,
         turnVars, sessVars, capVars, invVars, gwVars, histVars
<1> QED BY <1>1, <1>2 DEF TypeOK

\* Reset keeps the types.
LEMMA ResetTypes ==
    ASSUME TypeOK, Reset
    PROVE  TypeOK'
<1>1. <<ErrorItem>> \in Seq(Items)
  BY ItemFacts
<1>2. \A u \in Turns : Disconnect(queue[u]) \in Seq(Items)
  BY <1>1, PutType DEF TypeOK, QueueTypes, Disconnect
<1>3. QueueTypes'
  BY <1>2 DEF TypeOK, QueueTypes, Reset
<1>4. TurnTypes'
  BY TurnsAssumption DEF TypeOK, TurnTypes, Reset
<1>5. SessionTypes'
  BY TurnsAssumption DEF TypeOK, SessionTypes, Reset, TurnOrNone
<1>6. CaptureTypes'
  BY TurnsAssumption DEF TypeOK, CaptureTypes, Reset, TurnOrNone
<1>7. ConnectionTypes'
  BY TurnsAssumption DEF TypeOK, ConnectionTypes, Reset, invVars
<1>8. GatewayTypes'
  BY DEF TypeOK, GatewayTypes, Reset,
         turnVars, sessVars, capVars, invVars, gwVars, histVars
<1> QED BY <1>3, <1>4, <1>5, <1>6, <1>7, <1>8 DEF TypeOK

\* AssistantEvent keeps the types.
LEMMA AssistantEventTypes ==
    ASSUME TypeOK, NEW t \in Turns, NEW family, NEW tagged, NEW final,
           AssistantEvent(t, family, tagged, final)
    PROVE  TypeOK'
<1>0. Key(t) \in Canonicals
  BY TurnsAssumption DEF Key
<1>1. CaptureTypes'
  BY <1>0 DEF TypeOK, CaptureTypes, TurnOrNone, AssistantEvent, Capture
<1>2. QueueTypes'
  <2>0. yielded' = yielded
    BY DEF AssistantEvent, turnVars
  <2>1. CASE UNCHANGED queue
    BY <2>0, <2>1 DEF TypeOK, QueueTypes
  <2>2. CASE /\ queueReg[Key(t)] # None
             /\ queue' = [queue EXCEPT ![queueReg[Key(t)]] = Put(@, <<TextItem(t), CloseItem>>)]
    <3>1. queueReg[Key(t)] \in Turns
      BY <1>0, <2>2 DEF TypeOK, CaptureTypes, TurnOrNone
    <3>2. <<TextItem(t), CloseItem>> \in Seq(Items)
      BY ItemFacts
    <3>3. Put(queue[queueReg[Key(t)]], <<TextItem(t), CloseItem>>) \in Seq(Items)
      BY <3>1, <3>2, PutType DEF TypeOK, QueueTypes
    <3> QED BY <2>0, <2>2, <3>1, <3>3 DEF TypeOK, QueueTypes
  <2> QED BY <2>1, <2>2 DEF AssistantEvent, Capture
<1>3. GatewayTypes'
  BY DEF TypeOK, GatewayTypes, AssistantEvent
<1>4. TurnTypes' /\ SessionTypes' /\ ConnectionTypes'
  BY DEF TypeOK, TurnTypes, SessionTypes, ConnectionTypes, AssistantEvent, turnVars, sessVars, invVars
<1> QED BY <1>1, <1>2, <1>3, <1>4 DEF TypeOK

\* Every step of the relay keeps the types.
LEMMA TypeStep ==
    ASSUME TypeOK, [Next]_vars
    PROVE  TypeOK'
<1>1. CASE UNCHANGED vars
  BY <1>1 DEF TypeOK, TurnTypes, SessionTypes, CaptureTypes, QueueTypes, ConnectionTypes,
              GatewayTypes, vars, turnVars, sessVars, capVars, invVars, gwVars, histVars
<1>2. ASSUME NEW t \in Turns, CoroutineStep(t)
      PROVE  TypeOK'
  BY <1>2, EnterInventoryTypes, LeaveInventoryTypes, InventorySendFailsTypes, 
     EnterTurnTypes, CreatedTypes, OptInRefusedTypes, SubscribedTypes, 
     SessionRpcFailsTypes, ChatSendSentTypes, ChatSendFailsTypes, 
     StreamResumesTypes, StreamItemTypes, WriteTypes,
     DeadlineReturnsTypes, RelayResumesTypes, RelayReturnsTypes
     DEF CoroutineStep
<1>3. ASSUME NEW t \in Turns, Frame(t)
      PROVE  TypeOK'
  BY <1>3, RpcResponseTypes, ChatSendAckTypes, ChatSendRejectedTypes, AssistantEventTypes DEF Frame
<1>4. ASSUME NEW t \in Turns, StreamHandler(t)
      PROVE  TypeOK'
  BY <1>4, WriteTypes, OuterClosesTypes, InnerClosesTypes DEF StreamHandler
<1>5. CASE Background
  BY <1>5, BackgroundAsksTypes, BackgroundAnsweredTypes DEF Background
<1>6. CASE Finished
  BY <1>6, <1>1 DEF Finished
<1> QED
  BY <1>1, <1>2, <1>3, <1>4, <1>5, <1>6, BeginTypes, CancelTypes, ResetTypes DEF Next

\* The relay starts within its types.
LEMMA TypeInit == Init => TypeOK
BY TurnsAssumption DEF Init, TypeOK, TurnTypes, SessionTypes, CaptureTypes, QueueTypes,
   ConnectionTypes, GatewayTypes, PCs, Outcomes, TurnOrNone

\* Type correctness of the relay, for every set of turns and keys.
THEOREM TypeCorrect == Spec => []TypeOK
<1>1. TypeOK /\ [Next]_vars => TypeOK'
  BY TypeStep
<1> QED BY <1>1, TypeInit, PTL DEF Spec

-----------------------------------------------------------------------------
(***************************************************************************)
(* The inductive invariants.                                               *)
(***************************************************************************)

\* Canonical keys of different raw keys differ.  The gateway does not promise
\* it: an unqualified key and its agent-qualified form may meet, and then the
\* results that assume KeysDistinct do not apply.
KeysDistinct ==
    \A r, s \in RawKeys : CanonOf[r] = CanonOf[s] => r = s

\* Unshared turns are turns.
LEMMA UnsharedTurns == Unshared \subseteq Turns
BY DEF Unshared

\* With distinct canonical keys every turn is unshared.
LEMMA AllUnshared == ASSUME KeysDistinct PROVE Unshared = Turns
BY TurnsAssumption DEF KeysDistinct, Unshared, Key, Raw

\* What the turn lock is for: while an unshared turn is between lock and end,
\* no other turn of its canonical session is.
UnsharedExclusive ==
    link = "up" =>
        \A t \in Unshared, u \in Turns :
            (Key(t) = Key(u) /\ pc[t] \in LockedPCs /\ pc[u] \in LockedPCs) => t = u

\* OwnedUnlessRobbed, ReplyFromOwnRun and NoLostReply of the unshared turns.
UnsharedOwned ==
    link = "up" =>
        \A t \in Unshared : pc[t] \in CapturePCs => Owns(t) \/ t \in robbed \cap Streaming
UnsharedReply ==
    \A t \in Streaming \cap Unshared :
        t \in ackTagged =>
            /\ RunsIn(yielded[t]) \subseteq {t}
            /\ pc[t] \notin GonePCs => TextsOf(queue[t]) \subseteq {t}
UnsharedNoLoss ==
    \A t \in Unshared :
        t \in finalIn \cap ackTagged =>
            /\ (t \in Streaming \ robbed /\ pc[t] \in {"sent", "stream", "write"}) =>
                  t \in RunsIn(yielded[t]) \cup TextsOf(queue[t])
            /\ (link = "up" /\ t \notin Streaming /\ pc[t] = "wait") =>
                  termText[Key(t)] = t /\ t \in replySet

\* While the connection lives all turn locks come from one dict.
LocksShared == link = "up" => lateLock = {}

\* A stream turn never waits for a reply event, and a relay turn has no stream.
PathInv ==
    \A t \in Turns :
        /\ pc[t] \in {"stream", "write", "dropped", "closing"} => t \in Streaming
        /\ pc[t] = "wait" => t \notin Streaming

\* The run id of a turn's session while the turn is past its install: the
\* sentinel until the ack, then what the ack carried.
RunIdAt(t) ==
    /\ t \in ackTagged => pc[t] \in {"sent", "stream", "write", "wait"} \cup GonePCs
    /\ (t \in ackTagged /\ pc[t] = "sent") => fut[t] = "ok"
    /\ pc[t] = "sending" => fut[t] # "ok"
    /\ (link = "up" /\ pc[t] = "sending") => runId[Key(t)] = Pending
    /\ (link = "up" /\ pc[t] = "sent" /\ fut[t] # "ok") => runId[Key(t)] = Pending
    /\ (link = "up" /\ pc[t] = "sent" /\ fut[t] = "ok") =>
          runId[Key(t)] = IF t \in ackTagged THEN t ELSE None
    /\ (link = "up" /\ pc[t] \in {"stream", "write", "wait"}) =>
          runId[Key(t)] = IF t \in ackTagged THEN t ELSE None
RunIdInv == \A t \in Unshared : RunIdAt(t)

\* The gateway's runs as a turn with a run sees them: every other run of the
\* session is older, and once a same-run event was seen the older ones are
\* quiet.
RunOrderInv ==
    link = "up" =>
        \A t \in Unshared :
            /\ pc[t] \in {"sent", "stream", "write", "wait"} =>
                  \A u \in gwRun : (Key(u) = Key(t) /\ u # t) => u \in gwPrior[t]
            /\ (pc[t] \in {"sent", "stream", "write", "wait"} /\ Key(t) \in seen) =>
                  gwPrior[t] \subseteq gwQuiet
            /\ pc[t] = "sending" => Key(t) \notin seen

\* Before its ack a stream turn has no reply text at all.
EmptyBeforeAck ==
    \A t \in Streaming \cap Unshared :
        (pc[t] \notin {"stream", "write"} \cup GonePCs /\ ~(pc[t] = "sent" /\ fut[t] = "ok")) =>
            yielded[t] = <<>> /\ TextsOf(queue[t]) = {}

-----------------------------------------------------------------------------
(***************************************************************************)
(* One lemma per invariant, one step per action.                           *)
(***************************************************************************)

\* Every step keeps the turn locks shared and the caller registry exact.
LEMMA LockStep ==
    ASSUME TypeOK, LocksShared, RegistryExact, [Next]_vars
    PROVE  LocksShared' /\ RegistryExact'
<1>1. CASE UNCHANGED vars
  BY <1>1 DEF TypeOK, TurnTypes, SessionTypes, ConnectionTypes, TurnOrNone, LocksShared,
       RegistryExact, LockedPCs, vars, turnVars, sessVars
<1>2. ASSUME NEW t \in Turns, CoroutineStep(t)
      PROVE  LocksShared' /\ RegistryExact'
  <2>1. CASE EnterInventory(t)
    BY <2>1, TurnsAssumption, SentinelAssumption DEF TypeOK, TurnTypes, SessionTypes,
       ConnectionTypes, TurnOrNone, LocksShared, RegistryExact, LockedPCs,
       EnterInventory, OwnerDecision, GetLock, Call, Raw, turnVars, sessVars
  <2>2. CASE LeaveInventory(t)
    BY <2>2, TurnsAssumption, SentinelAssumption DEF TypeOK, TurnTypes, SessionTypes,
       ConnectionTypes, TurnOrNone, LocksShared, RegistryExact, LockedPCs,
       LeaveInventory, OwnerDecision, GetLock, Raw, turnVars, sessVars
  <2>3. CASE InventorySendFails(t)
    BY <2>3, TurnsAssumption, SentinelAssumption DEF TypeOK, TurnTypes, SessionTypes,
       ConnectionTypes, TurnOrNone, LocksShared, RegistryExact, LockedPCs,
       InventorySendFails, Raw, turnVars, sessVars
  <2>4. CASE EnterTurn(t)
    BY <2>4, TurnsAssumption, SentinelAssumption DEF TypeOK, TurnTypes, SessionTypes,
       ConnectionTypes, TurnOrNone, LocksShared, RegistryExact, LockedPCs, EnterTurn,
       InstallTurn, Call, Raw, LockFree, turnVars, sessVars
  <2>5. CASE Created(t)
    BY <2>5, TurnsAssumption, SentinelAssumption DEF TypeOK, TurnTypes, SessionTypes,
       ConnectionTypes, TurnOrNone, LocksShared, RegistryExact, LockedPCs, Created,
       Call, Raw, turnVars, sessVars
  <2>6. CASE OptInRefused(t)
    BY <2>6, TurnsAssumption, SentinelAssumption DEF TypeOK, TurnTypes, SessionTypes,
       ConnectionTypes, TurnOrNone, LocksShared, RegistryExact, LockedPCs, OptInRefused,
       Call, Raw, turnVars, sessVars
  <2>7. CASE Subscribed(t)
    BY <2>7, TurnsAssumption, SentinelAssumption DEF TypeOK, TurnTypes, SessionTypes,
       ConnectionTypes, TurnOrNone, LocksShared, RegistryExact, LockedPCs, Subscribed,
       InstallTurn, Raw, turnVars, sessVars
  <2>8. CASE SessionRpcFails(t)
    BY <2>8, TurnsAssumption, SentinelAssumption DEF TypeOK, TurnTypes, SessionTypes,
       ConnectionTypes, TurnOrNone, LocksShared, RegistryExact, LockedPCs,
       SessionRpcFails, FailEarly, Leave, Raw, turnVars, sessVars
  <2>9. CASE ChatSendSent(t)
    BY <2>9, TurnsAssumption, SentinelAssumption DEF TypeOK, TurnTypes, SessionTypes,
       ConnectionTypes, TurnOrNone, LocksShared, RegistryExact, LockedPCs, ChatSendSent,
       Raw, turnVars, sessVars
  <2>10. CASE ChatSendFails(t)
    BY <2>10, TurnsAssumption, SentinelAssumption DEF TypeOK, TurnTypes, SessionTypes,
       ConnectionTypes, TurnOrNone, LocksShared, RegistryExact, LockedPCs,
       ChatSendFails, CleanupPendingTurn, Leave, Raw, turnVars, sessVars
  <2>11. CASE StreamResumes(t)
    BY <2>11, TurnsAssumption, SentinelAssumption DEF TypeOK, TurnTypes, SessionTypes,
       ConnectionTypes, TurnOrNone, LocksShared, RegistryExact, LockedPCs,
       StreamResumes, AckedRunId, Raw, turnVars, sessVars
  <2>12. CASE StreamItem(t)
    BY <2>12, TurnsAssumption, SentinelAssumption DEF TypeOK, TurnTypes, SessionTypes,
       ConnectionTypes, TurnOrNone, LocksShared, RegistryExact, LockedPCs, StreamItem,
       StreamLeaves, Leave, Raw, turnVars, sessVars
  <2>13. CASE StreamProgress(t)
    BY <2>13, TurnsAssumption, SentinelAssumption DEF TypeOK, TurnTypes, SessionTypes,
       ConnectionTypes, TurnOrNone, LocksShared, RegistryExact, LockedPCs,
       StreamProgress, Raw, turnVars, sessVars
  <2>14. CASE DeadlineReturns(t)
    BY <2>14, TurnsAssumption, SentinelAssumption DEF TypeOK, TurnTypes, SessionTypes,
       ConnectionTypes, TurnOrNone, LocksShared, RegistryExact, LockedPCs,
       DeadlineReturns, StreamLeaves, Leave, Raw, turnVars, sessVars
  <2>15. CASE RelayResumes(t)
    BY <2>15, TurnsAssumption, SentinelAssumption DEF TypeOK, TurnTypes, SessionTypes,
       ConnectionTypes, TurnOrNone, LocksShared, RegistryExact, LockedPCs, RelayResumes,
       AckedRunId, Leave, Raw, turnVars, sessVars
  <2>16. CASE RelayReturns(t)
    BY <2>16, TurnsAssumption, SentinelAssumption DEF TypeOK, TurnTypes, SessionTypes,
       ConnectionTypes, TurnOrNone, LocksShared, RegistryExact, LockedPCs, RelayReturns,
       Leave, Raw, turnVars, sessVars
  <2> QED BY <1>2, <2>1, <2>2, <2>3, <2>4, <2>5, <2>6, <2>7, <2>8, <2>9, <2>10, <2>11,
       <2>12, <2>13, <2>14, <2>15, <2>16 DEF CoroutineStep
<1>3. ASSUME NEW t \in Turns, Frame(t)
      PROVE  LocksShared' /\ RegistryExact'
  <2>1. CASE RpcResponse(t)
    BY <2>1, TurnsAssumption, SentinelAssumption DEF TypeOK, TurnTypes, SessionTypes,
       ConnectionTypes, TurnOrNone, LocksShared, RegistryExact, LockedPCs, RpcResponse,
       Raw, turnVars, sessVars
  <2>2. CASE ChatSendAck(t)
    BY <2>2, TurnsAssumption, SentinelAssumption DEF TypeOK, TurnTypes, SessionTypes,
       ConnectionTypes, TurnOrNone, LocksShared, RegistryExact, LockedPCs, ChatSendAck,
       InstallAckRunId, Raw, turnVars, sessVars
  <2>3. CASE ChatSendRejected(t)
    BY <2>3, TurnsAssumption, SentinelAssumption DEF TypeOK, TurnTypes, SessionTypes,
       ConnectionTypes, TurnOrNone, LocksShared, RegistryExact, LockedPCs,
       ChatSendRejected, Raw, turnVars, sessVars
  <2>4. ASSUME NEW family \in {"chat", "session"}, NEW tagged \in BOOLEAN, NEW final \in BOOLEAN,
               AssistantEvent(t, family, tagged, final)
        PROVE  LocksShared' /\ RegistryExact'
    BY <2>4, TurnsAssumption, SentinelAssumption DEF TypeOK, TurnTypes, SessionTypes,
       ConnectionTypes, TurnOrNone, LocksShared, RegistryExact, LockedPCs,
       AssistantEvent, Capture, Raw, turnVars, sessVars
  <2> QED BY <1>3, <2>1, <2>2, <2>3, <2>4 DEF Frame
<1>4. ASSUME NEW t \in Turns, Begin(t)
      PROVE  LocksShared' /\ RegistryExact'
  BY <1>4, TurnsAssumption, SentinelAssumption DEF TypeOK, TurnTypes, SessionTypes,
     ConnectionTypes, TurnOrNone, LocksShared, RegistryExact, LockedPCs, Begin, GetLock,
     Raw, turnVars, sessVars
<1>5. ASSUME NEW t \in Turns, Cancel(t)
      PROVE  LocksShared' /\ RegistryExact'
  BY <1>5, TurnsAssumption, SentinelAssumption DEF TypeOK, TurnTypes, SessionTypes,
     ConnectionTypes, TurnOrNone, LocksShared, RegistryExact, LockedPCs, Cancel,
     CleanupPendingTurn, StreamLeaves, Leave, Raw, turnVars, sessVars
<1>6. CASE Reset
  BY <1>6, TurnsAssumption, SentinelAssumption DEF TypeOK, TurnTypes, SessionTypes,
     ConnectionTypes, TurnOrNone, LocksShared, RegistryExact, LockedPCs, Reset,
     Disconnect, Raw, turnVars, sessVars
<1>7. CASE Background
  BY <1>7 DEF TypeOK, TurnTypes, SessionTypes, ConnectionTypes, TurnOrNone, LocksShared,
       RegistryExact, LockedPCs, Background, BackgroundAsks, BackgroundAnswered,
       turnVars, sessVars
<1>8. CASE Finished
  BY <1>8, <1>1 DEF Finished
<1>9. ASSUME NEW t \in Turns, StreamHandler(t)
      PROVE  LocksShared' /\ RegistryExact'
  <2>1. CASE WriteReturns(t) \/ WriteFails(t)
    BY <2>1, TurnsAssumption, SentinelAssumption DEF TypeOK, TurnTypes, SessionTypes,
       ConnectionTypes, TurnOrNone, LocksShared, RegistryExact, LockedPCs, WriteReturns, WriteFails, Raw, turnVars, sessVars
  <2>2. CASE OuterCloses(t)
    BY <2>2, TurnsAssumption, SentinelAssumption DEF TypeOK, TurnTypes, SessionTypes,
       ConnectionTypes, TurnOrNone, LocksShared, RegistryExact, LockedPCs, OuterCloses, Raw, turnVars, sessVars
  <2>3. CASE InnerCloses(t)
    BY <2>3, TurnsAssumption, SentinelAssumption DEF TypeOK, TurnTypes, SessionTypes,
       ConnectionTypes, TurnOrNone, LocksShared, RegistryExact, LockedPCs, InnerCloses, Raw, turnVars, sessVars
  <2> QED BY <1>9, <2>1, <2>2, <2>3 DEF StreamHandler
<1> QED
  BY <1>1, <1>2, <1>3, <1>4, <1>5, <1>6, <1>7, <1>8, <1>9 DEF Next

\* Every step leaves no sentinel and no stream queue behind its turn.
LEMMA StrandStep ==
    ASSUME TypeOK, PathInv, NothingStranded, [Next]_vars
    PROVE  PathInv' /\ NothingStranded'
<1>1. CASE UNCHANGED vars
  BY <1>1 DEF TypeOK, TurnTypes, CaptureTypes, TurnOrNone, PathInv, NothingStranded,
       CapturePCs, Key, vars, turnVars, capVars
<1>2. ASSUME NEW t \in Turns, CoroutineStep(t)
      PROVE  PathInv' /\ NothingStranded'
  <2>1. CASE EnterInventory(t)
    BY <2>1, TurnsAssumption, SentinelAssumption DEF TypeOK, TurnTypes, CaptureTypes,
       TurnOrNone, PathInv, NothingStranded, CapturePCs, Key, EnterInventory,
       OwnerDecision, GetLock, Call, turnVars, capVars
  <2>2. CASE LeaveInventory(t)
    BY <2>2, TurnsAssumption, SentinelAssumption DEF TypeOK, TurnTypes, CaptureTypes,
       TurnOrNone, PathInv, NothingStranded, CapturePCs, Key, LeaveInventory,
       OwnerDecision, GetLock, turnVars, capVars
  <2>3. CASE InventorySendFails(t)
    BY <2>3, TurnsAssumption, SentinelAssumption DEF TypeOK, TurnTypes, CaptureTypes,
       TurnOrNone, PathInv, NothingStranded, CapturePCs, Key, InventorySendFails,
       turnVars, capVars
  <2>4. CASE EnterTurn(t)
    <3>1. CASE InstallTurn(t)
      BY <2>4, <3>1, TurnsAssumption, SentinelAssumption DEF TypeOK, TurnTypes,
         CaptureTypes, TurnOrNone, PathInv, NothingStranded, CapturePCs, Key, EnterTurn,
         InstallTurn, capVars
    <3>2. CASE Call(t, "create") /\ UNCHANGED capVars
      BY <2>4, <3>2, TurnsAssumption, SentinelAssumption DEF TypeOK, TurnTypes,
         CaptureTypes, TurnOrNone, PathInv, NothingStranded, CapturePCs, Key, EnterTurn,
         Call, capVars
    <3> QED BY <2>4, <3>1, <3>2 DEF EnterTurn
  <2>5. CASE Created(t)
    BY <2>5, TurnsAssumption, SentinelAssumption DEF TypeOK, TurnTypes, CaptureTypes,
       TurnOrNone, PathInv, NothingStranded, CapturePCs, Key, Created, Call, turnVars,
       capVars
  <2>6. CASE OptInRefused(t)
    BY <2>6, TurnsAssumption, SentinelAssumption DEF TypeOK, TurnTypes, CaptureTypes,
       TurnOrNone, PathInv, NothingStranded, CapturePCs, Key, OptInRefused, Call,
       turnVars, capVars
  <2>7. CASE Subscribed(t)
    BY <2>7, TurnsAssumption, SentinelAssumption DEF TypeOK, TurnTypes, CaptureTypes,
       TurnOrNone, PathInv, NothingStranded, CapturePCs, Key, Subscribed, InstallTurn,
       turnVars, capVars
  <2>8. CASE SessionRpcFails(t)
    BY <2>8, TurnsAssumption, SentinelAssumption DEF TypeOK, TurnTypes, CaptureTypes,
       TurnOrNone, PathInv, NothingStranded, CapturePCs, Key, SessionRpcFails,
       FailEarly, Leave, turnVars, capVars
  <2>9. CASE ChatSendSent(t)
    BY <2>9, TurnsAssumption, SentinelAssumption DEF TypeOK, TurnTypes, CaptureTypes,
       TurnOrNone, PathInv, NothingStranded, CapturePCs, Key, ChatSendSent, turnVars,
       capVars
  <2>10. CASE ChatSendFails(t)
    BY <2>10, TurnsAssumption, SentinelAssumption DEF TypeOK, TurnTypes, CaptureTypes,
       TurnOrNone, PathInv, NothingStranded, CapturePCs, Key, ChatSendFails,
       CleanupPendingTurn, Leave, turnVars, capVars
  <2>11. CASE StreamResumes(t)
    BY <2>11, TurnsAssumption, SentinelAssumption DEF TypeOK, TurnTypes, CaptureTypes,
       TurnOrNone, PathInv, NothingStranded, CapturePCs, Key, StreamResumes, AckedRunId,
       turnVars, capVars
  <2>12. CASE StreamItem(t)
    <3>1. /\ pc[t] = "stream" /\ UNCHANGED <<runId, link, replyReg>>
          /\ \/ pc' = [pc EXCEPT ![t] = "write"] /\ UNCHANGED <<fut, queueReg>>
             \/ /\ pc' = [pc EXCEPT ![t] = "ended"] /\ fut' = [fut EXCEPT ![t] = "none"]
                /\ queueReg' = [queueReg EXCEPT ![Key(t)] = None]
      BY <2>12 DEF StreamItem, StreamLeaves, Leave
    <3>2. PathInv'
      BY <3>1 DEF TypeOK, TurnTypes, PathInv
    <3>3. NothingStranded'
      BY <3>1, TurnsAssumption, SentinelAssumption DEF TypeOK, TurnTypes, CaptureTypes,
         TurnOrNone, PathInv, NothingStranded, CapturePCs, Key
    <3> QED BY <3>2, <3>3
  <2>13. CASE StreamProgress(t)
    BY <2>13, TurnsAssumption, SentinelAssumption DEF TypeOK, TurnTypes, CaptureTypes,
       TurnOrNone, PathInv, NothingStranded, CapturePCs, Key, StreamProgress, turnVars, capVars
  <2>14. CASE DeadlineReturns(t)
    BY <2>14, TurnsAssumption, SentinelAssumption DEF TypeOK, TurnTypes, CaptureTypes,
       TurnOrNone, PathInv, NothingStranded, CapturePCs, Key, DeadlineReturns,
       StreamLeaves, Leave, turnVars, capVars
  <2>15. CASE RelayResumes(t)
    BY <2>15, TurnsAssumption, SentinelAssumption DEF TypeOK, TurnTypes, CaptureTypes,
       TurnOrNone, PathInv, NothingStranded, CapturePCs, Key, RelayResumes, AckedRunId,
       Leave, turnVars, capVars
  <2>16. CASE RelayReturns(t)
    BY <2>16, TurnsAssumption, SentinelAssumption DEF TypeOK, TurnTypes, CaptureTypes,
       TurnOrNone, PathInv, NothingStranded, CapturePCs, Key, RelayReturns, Leave,
       turnVars, capVars
  <2> QED BY <1>2, <2>1, <2>2, <2>3, <2>4, <2>5, <2>6, <2>7, <2>8, <2>9, <2>10, <2>11,
       <2>12, <2>13, <2>14, <2>15, <2>16 DEF CoroutineStep
<1>3. ASSUME NEW t \in Turns, Frame(t)
      PROVE  PathInv' /\ NothingStranded'
  <2>1. CASE RpcResponse(t)
    BY <2>1, TurnsAssumption, SentinelAssumption DEF TypeOK, TurnTypes, CaptureTypes,
       TurnOrNone, PathInv, NothingStranded, CapturePCs, Key, RpcResponse, turnVars,
       capVars
  <2>2. CASE ChatSendAck(t)
    BY <2>2, TurnsAssumption, SentinelAssumption DEF TypeOK, TurnTypes, CaptureTypes,
       TurnOrNone, PathInv, NothingStranded, CapturePCs, Key, ChatSendAck,
       InstallAckRunId, turnVars, capVars
  <2>3. CASE ChatSendRejected(t)
    BY <2>3, TurnsAssumption, SentinelAssumption DEF TypeOK, TurnTypes, CaptureTypes,
       TurnOrNone, PathInv, NothingStranded, CapturePCs, Key, ChatSendRejected,
       turnVars, capVars
  <2>4. ASSUME NEW family \in {"chat", "session"}, NEW tagged \in BOOLEAN, NEW final \in BOOLEAN,
               AssistantEvent(t, family, tagged, final)
        PROVE  PathInv' /\ NothingStranded'
    BY <2>4, TurnsAssumption, SentinelAssumption DEF TypeOK, TurnTypes, CaptureTypes,
       TurnOrNone, PathInv, NothingStranded, CapturePCs, Key, AssistantEvent, Capture,
       turnVars, capVars
  <2> QED BY <1>3, <2>1, <2>2, <2>3, <2>4 DEF Frame
<1>4. ASSUME NEW t \in Turns, Begin(t)
      PROVE  PathInv' /\ NothingStranded'
  BY <1>4, TurnsAssumption, SentinelAssumption DEF TypeOK, TurnTypes, CaptureTypes,
     TurnOrNone, PathInv, NothingStranded, CapturePCs, Key, Begin, GetLock, turnVars,
     capVars
<1>5. ASSUME NEW t \in Turns, Cancel(t)
      PROVE  PathInv' /\ NothingStranded'
  BY <1>5, TurnsAssumption, SentinelAssumption DEF TypeOK, TurnTypes, CaptureTypes,
     TurnOrNone, PathInv, NothingStranded, CapturePCs, Key, Cancel, CleanupPendingTurn,
     StreamLeaves, Leave, turnVars, capVars
<1>6. CASE Reset
  BY <1>6, TurnsAssumption, SentinelAssumption DEF TypeOK, TurnTypes, CaptureTypes,
     TurnOrNone, PathInv, NothingStranded, CapturePCs, Key, Reset, Disconnect, turnVars,
     capVars
<1>7. CASE Background
  BY <1>7 DEF TypeOK, TurnTypes, CaptureTypes, TurnOrNone, PathInv, NothingStranded,
       CapturePCs, Key, Background, BackgroundAsks, BackgroundAnswered, turnVars,
       capVars
<1>8. CASE Finished
  BY <1>8, <1>1 DEF Finished
<1>9. ASSUME NEW t \in Turns, StreamHandler(t)
      PROVE  PathInv' /\ NothingStranded'
  <2>1. CASE WriteReturns(t) \/ WriteFails(t)
    BY <2>1, TurnsAssumption, SentinelAssumption DEF TypeOK, TurnTypes, CaptureTypes,
       TurnOrNone, PathInv, NothingStranded, CapturePCs, Key, WriteReturns, WriteFails, turnVars, capVars
  <2>2. CASE OuterCloses(t)
    BY <2>2, TurnsAssumption, SentinelAssumption DEF TypeOK, TurnTypes, CaptureTypes,
       TurnOrNone, PathInv, NothingStranded, CapturePCs, Key, OuterCloses, turnVars, capVars
  <2>3. CASE InnerCloses(t)
    BY <2>3, TurnsAssumption, SentinelAssumption DEF TypeOK, TurnTypes, CaptureTypes,
       TurnOrNone, PathInv, NothingStranded, CapturePCs, Key, InnerCloses, turnVars, capVars
  <2> QED BY <1>9, <2>1, <2>2, <2>3 DEF StreamHandler
<1> QED
  BY <1>1, <1>2, <1>3, <1>4, <1>5, <1>6, <1>7, <1>8, <1>9 DEF Next

\* The registry has one entry a raw key, so an unshared session has one turn.
LEMMA Exclusion ==
    ASSUME TypeOK, RegistryExact
    PROVE  UnsharedExclusive
BY TurnsAssumption DEF Unshared, TypeOK, SessionTypes, RegistryExact,
   UnsharedExclusive, Key, Raw, TurnOrNone

\* The same of the next state.
LEMMA ExclusionNext ==
    ASSUME TypeOK', RegistryExact'
    PROVE  UnsharedExclusive'
BY TurnsAssumption DEF Unshared, TypeOK, SessionTypes, RegistryExact,
   UnsharedExclusive, Key, Raw, TurnOrNone

\* Every step leaves each capturing turn its own queue or reply event, as long
\* as no two turns are in one canonical session.
LEMMA OwnStep ==
    ASSUME TypeOK, UnsharedExclusive, UnsharedExclusive', PathInv, UnsharedOwned, [Next]_vars
    PROVE  UnsharedOwned'
<1>1. CASE UNCHANGED vars
  BY <1>1 DEF TypeOK, TurnTypes, CaptureTypes, TurnOrNone, PathInv, UnsharedExclusive,
       UnsharedOwned, Owns, CapturePCs, LockedPCs, Key, vars, turnVars, capVars, histVars
<1>2. ASSUME NEW t \in Turns, CoroutineStep(t)
      PROVE  UnsharedOwned'
  <2>1. CASE EnterInventory(t)
    BY <2>1, TurnsAssumption, UnsharedTurns, SentinelAssumption DEF TypeOK, TurnTypes,
       CaptureTypes, TurnOrNone, PathInv, UnsharedExclusive, UnsharedOwned, Owns, CapturePCs,
       LockedPCs, Key, EnterInventory, OwnerDecision, GetLock, Call, turnVars, capVars, histVars
  <2>2. CASE LeaveInventory(t)
    BY <2>2, TurnsAssumption, UnsharedTurns, SentinelAssumption DEF TypeOK, TurnTypes,
       CaptureTypes, TurnOrNone, PathInv, UnsharedExclusive, UnsharedOwned, Owns, CapturePCs,
       LockedPCs, Key, LeaveInventory, OwnerDecision, GetLock, turnVars, capVars, histVars
  <2>3. CASE InventorySendFails(t)
    BY <2>3, TurnsAssumption, UnsharedTurns, SentinelAssumption DEF TypeOK, TurnTypes,
       CaptureTypes, TurnOrNone, PathInv, UnsharedExclusive, UnsharedOwned, Owns, CapturePCs,
       LockedPCs, Key, InventorySendFails, turnVars, capVars, histVars
  <2>4. CASE EnterTurn(t)
    BY <2>4, TurnsAssumption, UnsharedTurns, SentinelAssumption DEF TypeOK, TurnTypes,
       CaptureTypes, TurnOrNone, PathInv, UnsharedExclusive, UnsharedOwned, Owns, CapturePCs,
       LockedPCs, Key, EnterTurn, InstallTurn, Call, turnVars, capVars, histVars
  <2>5. CASE Created(t)
    BY <2>5, TurnsAssumption, UnsharedTurns, SentinelAssumption DEF TypeOK, TurnTypes,
       CaptureTypes, TurnOrNone, PathInv, UnsharedExclusive, UnsharedOwned, Owns, CapturePCs,
       LockedPCs, Key, Created, Call, turnVars, capVars, histVars
  <2>6. CASE OptInRefused(t)
    BY <2>6, TurnsAssumption, UnsharedTurns, SentinelAssumption DEF TypeOK, TurnTypes,
       CaptureTypes, TurnOrNone, PathInv, UnsharedExclusive, UnsharedOwned, Owns, CapturePCs,
       LockedPCs, Key, OptInRefused, Call, turnVars, capVars, histVars
  <2>7. CASE Subscribed(t)
    <3>1. \A u \in Unshared \ {t} : (link = "up" /\ pc[u] \in CapturePCs) => Key(u) # Key(t)
      BY <2>7 DEF UnsharedExclusive, Subscribed, CapturePCs, LockedPCs
    <3> QED
      BY <2>7, <3>1, TurnsAssumption, UnsharedTurns, SentinelAssumption DEF TypeOK,
         TurnTypes, CaptureTypes, UnsharedOwned, Owns, CapturePCs, Key, Subscribed,
         InstallTurn, histVars
  <2>8. CASE SessionRpcFails(t)
    BY <2>8, TurnsAssumption, UnsharedTurns, SentinelAssumption DEF TypeOK, TurnTypes,
       CaptureTypes, TurnOrNone, PathInv, UnsharedExclusive, UnsharedOwned, Owns, CapturePCs,
       LockedPCs, Key, SessionRpcFails, FailEarly, Leave, turnVars, capVars, histVars
  <2>9. CASE ChatSendSent(t)
    BY <2>9, TurnsAssumption, UnsharedTurns, SentinelAssumption DEF TypeOK, TurnTypes,
       CaptureTypes, TurnOrNone, PathInv, UnsharedExclusive, UnsharedOwned, Owns, CapturePCs,
       LockedPCs, Key, ChatSendSent, turnVars, capVars, histVars
  <2>10. CASE ChatSendFails(t)
    BY <2>10, TurnsAssumption, UnsharedTurns, SentinelAssumption DEF TypeOK, TurnTypes,
       CaptureTypes, TurnOrNone, PathInv, UnsharedExclusive, UnsharedOwned, Owns, CapturePCs,
       LockedPCs, Key, ChatSendFails, CleanupPendingTurn, Leave, turnVars, capVars, histVars
  <2>11. CASE StreamResumes(t)
    BY <2>11, TurnsAssumption, UnsharedTurns, SentinelAssumption DEF TypeOK, TurnTypes,
       CaptureTypes, TurnOrNone, PathInv, UnsharedExclusive, UnsharedOwned, Owns, CapturePCs,
       LockedPCs, Key, StreamResumes, AckedRunId, turnVars, capVars, histVars
  <2>12. CASE StreamItem(t)
    BY <2>12, TurnsAssumption, UnsharedTurns, SentinelAssumption DEF TypeOK, TurnTypes,
       CaptureTypes, TurnOrNone, PathInv, UnsharedExclusive, UnsharedOwned, Owns, CapturePCs,
       LockedPCs, Key, StreamItem, StreamLeaves, Leave, turnVars, capVars, histVars
  <2>13. CASE StreamProgress(t)
    BY <2>13, TurnsAssumption, UnsharedTurns, SentinelAssumption DEF TypeOK, TurnTypes,
       CaptureTypes, TurnOrNone, PathInv, UnsharedExclusive, UnsharedOwned, Owns, CapturePCs,
       LockedPCs, Key, StreamProgress, turnVars, capVars, histVars
  <2>14. CASE DeadlineReturns(t)
    BY <2>14, TurnsAssumption, UnsharedTurns, SentinelAssumption DEF TypeOK, TurnTypes,
       CaptureTypes, TurnOrNone, PathInv, UnsharedExclusive, UnsharedOwned, Owns, CapturePCs,
       LockedPCs, Key, DeadlineReturns, StreamLeaves, Leave, turnVars, capVars, histVars
  <2>15. CASE RelayResumes(t)
    BY <2>15, TurnsAssumption, UnsharedTurns, SentinelAssumption DEF TypeOK, TurnTypes,
       CaptureTypes, TurnOrNone, PathInv, UnsharedExclusive, UnsharedOwned, Owns, CapturePCs,
       LockedPCs, Key, RelayResumes, AckedRunId, Leave, turnVars, capVars, histVars
  <2>16. CASE RelayReturns(t)
    BY <2>16, TurnsAssumption, UnsharedTurns, SentinelAssumption DEF TypeOK, TurnTypes,
       CaptureTypes, TurnOrNone, PathInv, UnsharedExclusive, UnsharedOwned, Owns, CapturePCs,
       LockedPCs, Key, RelayReturns, Leave, turnVars, capVars, histVars
  <2> QED BY <1>2, <2>1, <2>2, <2>3, <2>4, <2>5, <2>6, <2>7, <2>8, <2>9, <2>10, <2>11,
       <2>12, <2>13, <2>14, <2>15, <2>16 DEF CoroutineStep
<1>3. ASSUME NEW t \in Turns, Frame(t)
      PROVE  UnsharedOwned'
  <2>1. CASE RpcResponse(t)
    BY <2>1, TurnsAssumption, UnsharedTurns, SentinelAssumption DEF TypeOK, TurnTypes,
       CaptureTypes, TurnOrNone, PathInv, UnsharedExclusive, UnsharedOwned, Owns, CapturePCs,
       LockedPCs, Key, RpcResponse, turnVars, capVars, histVars
  <2>2. CASE ChatSendAck(t)
    BY <2>2, TurnsAssumption, UnsharedTurns, SentinelAssumption DEF TypeOK, TurnTypes,
       CaptureTypes, TurnOrNone, PathInv, UnsharedExclusive, UnsharedOwned, Owns, CapturePCs,
       LockedPCs, Key, ChatSendAck, InstallAckRunId, turnVars, capVars, histVars
  <2>3. CASE ChatSendRejected(t)
    BY <2>3, TurnsAssumption, UnsharedTurns, SentinelAssumption DEF TypeOK, TurnTypes,
       CaptureTypes, TurnOrNone, PathInv, UnsharedExclusive, UnsharedOwned, Owns, CapturePCs,
       LockedPCs, Key, ChatSendRejected, turnVars, capVars, histVars
  <2>4. ASSUME NEW family \in {"chat", "session"}, NEW tagged \in BOOLEAN, NEW final \in BOOLEAN,
               AssistantEvent(t, family, tagged, final)
        PROVE  UnsharedOwned'
    BY <2>4, TurnsAssumption, UnsharedTurns, SentinelAssumption DEF TypeOK, TurnTypes,
       CaptureTypes, TurnOrNone, PathInv, UnsharedExclusive, UnsharedOwned, Owns, CapturePCs,
       LockedPCs, Key, AssistantEvent, Capture, turnVars, capVars, histVars
  <2> QED BY <1>3, <2>1, <2>2, <2>3, <2>4 DEF Frame
<1>4. ASSUME NEW t \in Turns, Begin(t)
      PROVE  UnsharedOwned'
  BY <1>4, TurnsAssumption, UnsharedTurns, SentinelAssumption DEF TypeOK, TurnTypes,
     CaptureTypes, TurnOrNone, PathInv, UnsharedExclusive, UnsharedOwned, Owns, CapturePCs,
     LockedPCs, Key, Begin, GetLock, turnVars, capVars, histVars
<1>5. ASSUME NEW t \in Turns, Cancel(t)
      PROVE  UnsharedOwned'
  BY <1>5, TurnsAssumption, UnsharedTurns, SentinelAssumption DEF TypeOK, TurnTypes,
     CaptureTypes, TurnOrNone, PathInv, UnsharedExclusive, UnsharedOwned, Owns, CapturePCs,
     LockedPCs, Key, Cancel, CleanupPendingTurn, StreamLeaves, Leave, turnVars, capVars, histVars
<1>6. CASE Reset
  BY <1>6, TurnsAssumption, UnsharedTurns, SentinelAssumption DEF TypeOK, TurnTypes,
     CaptureTypes, TurnOrNone, PathInv, UnsharedExclusive, UnsharedOwned, Owns, CapturePCs,
     LockedPCs, Key, Reset, Disconnect, turnVars, capVars, histVars
<1>7. CASE Background
  BY <1>7 DEF TypeOK, TurnTypes, CaptureTypes, TurnOrNone, PathInv, UnsharedExclusive,
       UnsharedOwned, Owns, CapturePCs, LockedPCs, Key, Background, BackgroundAsks,
       BackgroundAnswered, turnVars, capVars, histVars
<1>8. CASE Finished
  BY <1>8, <1>1 DEF Finished
<1>9. ASSUME NEW t \in Turns, StreamHandler(t)
      PROVE  UnsharedOwned'
  <2>1. CASE WriteReturns(t) \/ WriteFails(t)
    BY <2>1, TurnsAssumption, UnsharedTurns, SentinelAssumption DEF TypeOK, TurnTypes,
       CaptureTypes, TurnOrNone, PathInv, UnsharedExclusive, UnsharedOwned, Owns,
       CapturePCs, LockedPCs, Key, WriteReturns, WriteFails, turnVars, capVars, histVars
  <2>2. CASE OuterCloses(t)
    BY <2>2, TurnsAssumption, UnsharedTurns, SentinelAssumption DEF TypeOK, TurnTypes,
       CaptureTypes, TurnOrNone, PathInv, UnsharedExclusive, UnsharedOwned, Owns,
       CapturePCs, LockedPCs, Key, OuterCloses, turnVars, capVars, histVars
  <2>3. CASE InnerCloses(t)
    BY <2>3, TurnsAssumption, UnsharedTurns, SentinelAssumption DEF TypeOK, TurnTypes,
       CaptureTypes, TurnOrNone, PathInv, UnsharedExclusive, UnsharedOwned, Owns,
       CapturePCs, LockedPCs, Key, InnerCloses, turnVars, capVars, histVars
  <2> QED BY <1>9, <2>1, <2>2, <2>3 DEF StreamHandler
<1> QED
  BY <1>1, <1>2, <1>3, <1>4, <1>5, <1>6, <1>7, <1>8, <1>9 DEF Next

\* Every step keeps the run id of a session in step with its turn's ack.
LEMMA RunIdStep ==
    ASSUME TypeOK, UnsharedExclusive, UnsharedExclusive', RunIdInv, [Next]_vars
    PROVE  RunIdInv'
<1>1. CASE UNCHANGED vars
  BY <1>1 DEF TypeOK, TurnTypes, CaptureTypes, GatewayTypes, UnsharedExclusive,
       RunIdInv, RunIdAt, GonePCs, CapturePCs, LockedPCs, Key, vars, turnVars, capVars, histVars
<1>2. ASSUME NEW t \in Turns, CoroutineStep(t)
      PROVE  RunIdInv'
  <2>1. CASE EnterInventory(t)
    BY <2>1, TurnsAssumption, UnsharedTurns, SentinelAssumption DEF TypeOK, TurnTypes,
       CaptureTypes, GatewayTypes, UnsharedExclusive, RunIdInv, RunIdAt, GonePCs, CapturePCs, LockedPCs,
       Key, EnterInventory, OwnerDecision, GetLock, Call, turnVars, capVars, histVars
  <2>2. CASE LeaveInventory(t)
    BY <2>2, TurnsAssumption, UnsharedTurns, SentinelAssumption DEF TypeOK, TurnTypes,
       CaptureTypes, GatewayTypes, UnsharedExclusive, RunIdInv, RunIdAt, GonePCs, CapturePCs, LockedPCs,
       Key, LeaveInventory, OwnerDecision, GetLock, turnVars, capVars, histVars
  <2>3. CASE InventorySendFails(t)
    BY <2>3, TurnsAssumption, UnsharedTurns, SentinelAssumption DEF TypeOK, TurnTypes,
       CaptureTypes, GatewayTypes, UnsharedExclusive, RunIdInv, RunIdAt, GonePCs, CapturePCs, LockedPCs,
       Key, InventorySendFails, turnVars, capVars, histVars
  <2>4. CASE EnterTurn(t)
    BY <2>4, TurnsAssumption, UnsharedTurns, SentinelAssumption DEF TypeOK, TurnTypes,
       CaptureTypes, GatewayTypes, UnsharedExclusive, RunIdInv, RunIdAt, GonePCs, CapturePCs, LockedPCs,
       Key, EnterTurn, InstallTurn, Call, turnVars, capVars, histVars
  <2>5. CASE Created(t)
    BY <2>5, TurnsAssumption, UnsharedTurns, SentinelAssumption DEF TypeOK, TurnTypes,
       CaptureTypes, GatewayTypes, UnsharedExclusive, RunIdInv, RunIdAt, GonePCs, CapturePCs, LockedPCs,
       Key, Created, Call, turnVars, capVars, histVars
  <2>6. CASE OptInRefused(t)
    BY <2>6, TurnsAssumption, UnsharedTurns, SentinelAssumption DEF TypeOK, TurnTypes,
       CaptureTypes, GatewayTypes, UnsharedExclusive, RunIdInv, RunIdAt, GonePCs, CapturePCs, LockedPCs,
       Key, OptInRefused, Call, turnVars, capVars, histVars
  <2>7. CASE Subscribed(t)
    <3>1. \A u \in Unshared \ {t} : (link = "up" /\ pc[u] \in CapturePCs) => Key(u) # Key(t)
      BY <2>7 DEF UnsharedExclusive, Subscribed, CapturePCs, LockedPCs
    <3> QED
      BY <2>7, <3>1, TurnsAssumption, UnsharedTurns, SentinelAssumption DEF TypeOK,
         TurnTypes, CaptureTypes, GatewayTypes, RunIdInv, RunIdAt, GonePCs, Key, Subscribed, InstallTurn,
         histVars, CapturePCs
  <2>8. CASE SessionRpcFails(t)
    <3>1. \A u \in Unshared \ {t} : (link = "up" /\ pc[u] \in CapturePCs) => Key(u) # Key(t)
      BY <2>8 DEF UnsharedExclusive, SessionRpcFails, CapturePCs, LockedPCs
    <3> QED
      BY <2>8, <3>1, TurnsAssumption, UnsharedTurns, SentinelAssumption DEF TypeOK,
         TurnTypes, CaptureTypes, GatewayTypes, RunIdInv, RunIdAt, GonePCs, Key, SessionRpcFails,
         FailEarly, Leave, capVars, histVars, CapturePCs
  <2>9. CASE ChatSendSent(t)
    BY <2>9, TurnsAssumption, UnsharedTurns, SentinelAssumption DEF TypeOK, TurnTypes,
       CaptureTypes, GatewayTypes, UnsharedExclusive, RunIdInv, RunIdAt, GonePCs, CapturePCs, LockedPCs,
       Key, ChatSendSent, turnVars, capVars, histVars
  <2>10. CASE ChatSendFails(t)
    <3>1. \A u \in Unshared \ {t} : (link = "up" /\ pc[u] \in CapturePCs) => Key(u) # Key(t)
      BY <2>10 DEF UnsharedExclusive, ChatSendFails, CapturePCs, LockedPCs
    <3> QED
      BY <2>10, <3>1, TurnsAssumption, UnsharedTurns, SentinelAssumption DEF TypeOK,
         TurnTypes, CaptureTypes, GatewayTypes, RunIdInv, RunIdAt, GonePCs, Key, ChatSendFails,
         CleanupPendingTurn, Leave, histVars, CapturePCs
  <2>11. CASE StreamResumes(t)
    BY <2>11, TurnsAssumption, UnsharedTurns, SentinelAssumption DEF TypeOK, TurnTypes,
       CaptureTypes, GatewayTypes, UnsharedExclusive, RunIdInv, RunIdAt, GonePCs, CapturePCs, LockedPCs,
       Key, StreamResumes, AckedRunId, turnVars, capVars, histVars
  <2>12. CASE StreamItem(t)
    BY <2>12, TurnsAssumption, UnsharedTurns, SentinelAssumption DEF TypeOK, TurnTypes,
       CaptureTypes, GatewayTypes, UnsharedExclusive, RunIdInv, RunIdAt, GonePCs, CapturePCs, LockedPCs,
       Key, StreamItem, StreamLeaves, Leave, turnVars, capVars, histVars
  <2>13. CASE StreamProgress(t)
    BY <2>13, TurnsAssumption, UnsharedTurns, SentinelAssumption DEF TypeOK, TurnTypes,
       CaptureTypes, GatewayTypes, UnsharedExclusive, RunIdInv, RunIdAt, GonePCs, CapturePCs, LockedPCs,
       Key, StreamProgress, turnVars, capVars, histVars
  <2>14. CASE DeadlineReturns(t)
    BY <2>14, TurnsAssumption, UnsharedTurns, SentinelAssumption DEF TypeOK, TurnTypes,
       CaptureTypes, GatewayTypes, UnsharedExclusive, RunIdInv, RunIdAt, GonePCs, CapturePCs, LockedPCs,
       Key, DeadlineReturns, StreamLeaves, Leave, turnVars, capVars, histVars
  <2>15. CASE RelayResumes(t)
    BY <2>15, TurnsAssumption, UnsharedTurns, SentinelAssumption DEF TypeOK, TurnTypes,
       CaptureTypes, GatewayTypes, UnsharedExclusive, RunIdInv, RunIdAt, GonePCs, CapturePCs, LockedPCs,
       Key, RelayResumes, AckedRunId, Leave, turnVars, capVars, histVars
  <2>16. CASE RelayReturns(t)
    BY <2>16, TurnsAssumption, UnsharedTurns, SentinelAssumption DEF TypeOK, TurnTypes,
       CaptureTypes, GatewayTypes, UnsharedExclusive, RunIdInv, RunIdAt, GonePCs, CapturePCs, LockedPCs,
       Key, RelayReturns, Leave, turnVars, capVars, histVars
  <2> QED BY <1>2, <2>1, <2>2, <2>3, <2>4, <2>5, <2>6, <2>7, <2>8, <2>9, <2>10, <2>11,
       <2>12, <2>13, <2>14, <2>15, <2>16 DEF CoroutineStep
<1>3. ASSUME NEW t \in Turns, Frame(t)
      PROVE  RunIdInv'
  <2>1. CASE RpcResponse(t)
    BY <2>1, TurnsAssumption, UnsharedTurns, SentinelAssumption DEF TypeOK, TurnTypes,
       CaptureTypes, GatewayTypes, UnsharedExclusive, RunIdInv, RunIdAt, GonePCs, CapturePCs, LockedPCs,
       Key, RpcResponse, turnVars, capVars, histVars
  <2>2. CASE ChatSendAck(t)
    <3>1. \A u \in Unshared \ {t} : (link = "up" /\ pc[u] \in CapturePCs) => Key(u) # Key(t)
      BY <2>2 DEF UnsharedExclusive, ChatSendAck, CapturePCs, LockedPCs
    <3>2. PICK tagged \in BOOLEAN :
             /\ InstallAckRunId(t, tagged)
             /\ ackTagged' = IF tagged THEN ackTagged \cup {t} ELSE ackTagged
      BY <2>2 DEF ChatSendAck
    <3>3. /\ t \in Unshared => t \notin ackTagged /\ runId[Key(t)] = Pending
          /\ Key(t) \in Canonicals
      BY <2>2, TurnsAssumption DEF RunIdInv, RunIdAt, ChatSendAck, Key
    <3>4. /\ t \in Unshared => runId'[Key(t)] = IF t \in ackTagged' THEN t ELSE None
          /\ \A c \in Canonicals \ {Key(t)} : runId'[c] = runId[c]
      BY <3>2, <3>3 DEF InstallAckRunId, TypeOK, CaptureTypes
    <3>5. ackTagged' \in {ackTagged, ackTagged \cup {t}}
      BY <3>2
    <3>6. ASSUME t \in Unshared PROVE RunIdAt(t)'
      BY <2>2, <3>4, <3>6 DEF RunIdAt, ChatSendAck, Key, TypeOK, TurnTypes
    <3>7. ASSUME NEW u \in Unshared, u # t PROVE RunIdAt(u)'
      <4>1. RunIdAt(u) /\ pc' = pc /\ link' = link /\ (u \in ackTagged' <=> u \in ackTagged)
            /\ fut'[u] = fut[u] /\ Key(u) \in Canonicals
        BY <2>2, <3>5, <3>7, TurnsAssumption, UnsharedTurns
           DEF RunIdInv, ChatSendAck, Key, TypeOK, TurnTypes
      <4>2. link = "up" /\ pc[u] \in CapturePCs => runId'[Key(u)] = runId[Key(u)]
        BY <3>1, <3>4, <3>7, <4>1
      <4> QED
        BY <4>1, <4>2 DEF RunIdAt, Key, CapturePCs
    <3> QED BY <3>6, <3>7 DEF RunIdInv
  <2>3. CASE ChatSendRejected(t)
    BY <2>3, TurnsAssumption, UnsharedTurns, SentinelAssumption DEF TypeOK, TurnTypes,
       CaptureTypes, GatewayTypes, UnsharedExclusive, RunIdInv, RunIdAt, GonePCs, CapturePCs, LockedPCs,
       Key, ChatSendRejected, turnVars, capVars, histVars
  <2>4. ASSUME NEW family \in {"chat", "session"}, NEW tagged \in BOOLEAN, NEW final \in BOOLEAN,
               AssistantEvent(t, family, tagged, final)
        PROVE  RunIdInv'
    BY <2>4, TurnsAssumption, UnsharedTurns, SentinelAssumption DEF TypeOK, TurnTypes,
       CaptureTypes, GatewayTypes, UnsharedExclusive, RunIdInv, RunIdAt, GonePCs, CapturePCs, LockedPCs,
       Key, AssistantEvent, Capture, turnVars, capVars, histVars
  <2> QED BY <1>3, <2>1, <2>2, <2>3, <2>4 DEF Frame
<1>4. ASSUME NEW t \in Turns, Begin(t)
      PROVE  RunIdInv'
  BY <1>4, TurnsAssumption, UnsharedTurns, SentinelAssumption DEF TypeOK, TurnTypes,
     CaptureTypes, GatewayTypes, UnsharedExclusive, RunIdInv, RunIdAt, GonePCs, CapturePCs, LockedPCs,
     Key, Begin, GetLock, turnVars, capVars, histVars
<1>5. ASSUME NEW t \in Turns, Cancel(t)
      PROVE  RunIdInv'
  BY <1>5, TurnsAssumption, UnsharedTurns, SentinelAssumption DEF TypeOK, TurnTypes,
     CaptureTypes, GatewayTypes, UnsharedExclusive, RunIdInv, RunIdAt, GonePCs, CapturePCs, LockedPCs,
     Key, Cancel, CleanupPendingTurn, StreamLeaves, Leave, turnVars, capVars, histVars
<1>6. CASE Reset
  BY <1>6, TurnsAssumption, UnsharedTurns, SentinelAssumption DEF TypeOK, TurnTypes,
     CaptureTypes, GatewayTypes, UnsharedExclusive, RunIdInv, RunIdAt, GonePCs, CapturePCs, LockedPCs,
     Key, Reset, Disconnect, turnVars, capVars, histVars
<1>7. CASE Background
  BY <1>7 DEF TypeOK, TurnTypes, CaptureTypes, GatewayTypes, UnsharedExclusive,
       RunIdInv, RunIdAt, GonePCs, CapturePCs, LockedPCs, Key, Background, BackgroundAsks,
       BackgroundAnswered, turnVars, capVars, histVars
<1>8. CASE Finished
  BY <1>8, <1>1 DEF Finished
<1>9. ASSUME NEW t \in Turns, StreamHandler(t)
      PROVE  RunIdInv'
  <2>1. CASE WriteReturns(t) \/ WriteFails(t)
    BY <2>1, TurnsAssumption, UnsharedTurns, SentinelAssumption DEF TypeOK, TurnTypes,
       CaptureTypes, GatewayTypes, UnsharedExclusive, RunIdInv, RunIdAt, GonePCs, CapturePCs,
       LockedPCs, Key, WriteReturns, WriteFails, turnVars, capVars, histVars
  <2>2. CASE OuterCloses(t)
    BY <2>2, TurnsAssumption, UnsharedTurns, SentinelAssumption DEF TypeOK, TurnTypes,
       CaptureTypes, GatewayTypes, UnsharedExclusive, RunIdInv, RunIdAt, GonePCs, CapturePCs,
       LockedPCs, Key, OuterCloses, turnVars, capVars, histVars
  <2>3. CASE InnerCloses(t)
    BY <2>3, TurnsAssumption, UnsharedTurns, SentinelAssumption DEF TypeOK, TurnTypes,
       CaptureTypes, GatewayTypes, UnsharedExclusive, RunIdInv, RunIdAt, GonePCs, CapturePCs,
       LockedPCs, Key, InnerCloses, turnVars, capVars, histVars
  <2> QED BY <1>9, <2>1, <2>2, <2>3 DEF StreamHandler
<1> QED
  BY <1>1, <1>2, <1>3, <1>4, <1>5, <1>6, <1>7, <1>8, <1>9 DEF Next

\* Every step keeps the older runs of a session known to its current turn, and
\* quiet once a same-run event was seen.
LEMMA RunOrderStep ==
    ASSUME TypeOK, UnsharedExclusive, UnsharedExclusive', RunIdInv, RunOrderInv, [Next]_vars
    PROVE  RunOrderInv'
<1>1. CASE UNCHANGED vars
  BY <1>1 DEF TypeOK, TurnTypes, CaptureTypes, GatewayTypes, UnsharedExclusive,
       RunIdInv, RunIdAt, RunOrderInv, CapturePCs, LockedPCs, Key, vars, turnVars, capVars,
       gwVars
<1>2. ASSUME NEW t \in Turns, CoroutineStep(t)
      PROVE  RunOrderInv'
  <2>1. CASE EnterInventory(t)
    BY <2>1, TurnsAssumption, UnsharedTurns, SentinelAssumption DEF TypeOK, TurnTypes,
       CaptureTypes, GatewayTypes, UnsharedExclusive, RunIdInv, RunIdAt, RunOrderInv, CapturePCs,
       LockedPCs, Key, EnterInventory, OwnerDecision, GetLock, Call, turnVars, capVars,
       gwVars
  <2>2. CASE LeaveInventory(t)
    BY <2>2, TurnsAssumption, UnsharedTurns, SentinelAssumption DEF TypeOK, TurnTypes,
       CaptureTypes, GatewayTypes, UnsharedExclusive, RunIdInv, RunIdAt, RunOrderInv, CapturePCs,
       LockedPCs, Key, LeaveInventory, OwnerDecision, GetLock, turnVars, capVars, gwVars
  <2>3. CASE InventorySendFails(t)
    BY <2>3, TurnsAssumption, UnsharedTurns, SentinelAssumption DEF TypeOK, TurnTypes,
       CaptureTypes, GatewayTypes, UnsharedExclusive, RunIdInv, RunIdAt, RunOrderInv, CapturePCs,
       LockedPCs, Key, InventorySendFails, turnVars, capVars, gwVars
  <2>4. CASE EnterTurn(t)
    BY <2>4, TurnsAssumption, UnsharedTurns, SentinelAssumption DEF TypeOK, TurnTypes,
       CaptureTypes, GatewayTypes, UnsharedExclusive, RunIdInv, RunIdAt, RunOrderInv, CapturePCs,
       LockedPCs, Key, EnterTurn, InstallTurn, Call, turnVars, capVars, gwVars
  <2>5. CASE Created(t)
    BY <2>5, TurnsAssumption, UnsharedTurns, SentinelAssumption DEF TypeOK, TurnTypes,
       CaptureTypes, GatewayTypes, UnsharedExclusive, RunIdInv, RunIdAt, RunOrderInv, CapturePCs,
       LockedPCs, Key, Created, Call, turnVars, capVars, gwVars
  <2>6. CASE OptInRefused(t)
    BY <2>6, TurnsAssumption, UnsharedTurns, SentinelAssumption DEF TypeOK, TurnTypes,
       CaptureTypes, GatewayTypes, UnsharedExclusive, RunIdInv, RunIdAt, RunOrderInv, CapturePCs,
       LockedPCs, Key, OptInRefused, Call, turnVars, capVars, gwVars
  <2>7. CASE Subscribed(t)
    BY <2>7, TurnsAssumption, UnsharedTurns, SentinelAssumption DEF TypeOK, TurnTypes,
       CaptureTypes, GatewayTypes, UnsharedExclusive, RunIdInv, RunIdAt, RunOrderInv, CapturePCs,
       LockedPCs, Key, Subscribed, InstallTurn, turnVars, capVars, gwVars
  <2>8. CASE SessionRpcFails(t)
    BY <2>8, TurnsAssumption, UnsharedTurns, SentinelAssumption DEF TypeOK, TurnTypes,
       CaptureTypes, GatewayTypes, UnsharedExclusive, RunIdInv, RunIdAt, RunOrderInv, CapturePCs,
       LockedPCs, Key, SessionRpcFails, FailEarly, Leave, turnVars, capVars, gwVars
  <2>9. CASE ChatSendSent(t)
    BY <2>9, TurnsAssumption, UnsharedTurns, SentinelAssumption DEF TypeOK, TurnTypes,
       CaptureTypes, GatewayTypes, UnsharedExclusive, RunIdInv, RunIdAt, RunOrderInv, CapturePCs,
       LockedPCs, Key, ChatSendSent, turnVars, capVars, gwVars
  <2>10. CASE ChatSendFails(t)
    BY <2>10, TurnsAssumption, UnsharedTurns, SentinelAssumption DEF TypeOK, TurnTypes,
       CaptureTypes, GatewayTypes, UnsharedExclusive, RunIdInv, RunIdAt, RunOrderInv, CapturePCs,
       LockedPCs, Key, ChatSendFails, CleanupPendingTurn, Leave, turnVars, capVars,
       gwVars
  <2>11. CASE StreamResumes(t)
    BY <2>11, TurnsAssumption, UnsharedTurns, SentinelAssumption DEF TypeOK, TurnTypes,
       CaptureTypes, GatewayTypes, UnsharedExclusive, RunIdInv, RunIdAt, RunOrderInv, CapturePCs,
       LockedPCs, Key, StreamResumes, AckedRunId, turnVars, capVars, gwVars
  <2>12. CASE StreamItem(t)
    BY <2>12, TurnsAssumption, UnsharedTurns, SentinelAssumption DEF TypeOK, TurnTypes,
       CaptureTypes, GatewayTypes, UnsharedExclusive, RunIdInv, RunIdAt, RunOrderInv, CapturePCs,
       LockedPCs, Key, StreamItem, StreamLeaves, Leave, turnVars, capVars, gwVars
  <2>13. CASE StreamProgress(t)
    BY <2>13, TurnsAssumption, UnsharedTurns, SentinelAssumption DEF TypeOK, TurnTypes,
       CaptureTypes, GatewayTypes, UnsharedExclusive, RunIdInv, RunIdAt, RunOrderInv, CapturePCs,
       LockedPCs, Key, StreamProgress, turnVars, capVars, gwVars
  <2>14. CASE DeadlineReturns(t)
    BY <2>14, TurnsAssumption, UnsharedTurns, SentinelAssumption DEF TypeOK, TurnTypes,
       CaptureTypes, GatewayTypes, UnsharedExclusive, RunIdInv, RunIdAt, RunOrderInv, CapturePCs,
       LockedPCs, Key, DeadlineReturns, StreamLeaves, Leave, turnVars, capVars, gwVars
  <2>15. CASE RelayResumes(t)
    BY <2>15, TurnsAssumption, UnsharedTurns, SentinelAssumption DEF TypeOK, TurnTypes,
       CaptureTypes, GatewayTypes, UnsharedExclusive, RunIdInv, RunIdAt, RunOrderInv, CapturePCs,
       LockedPCs, Key, RelayResumes, AckedRunId, Leave, turnVars, capVars, gwVars
  <2>16. CASE RelayReturns(t)
    BY <2>16, TurnsAssumption, UnsharedTurns, SentinelAssumption DEF TypeOK, TurnTypes,
       CaptureTypes, GatewayTypes, UnsharedExclusive, RunIdInv, RunIdAt, RunOrderInv, CapturePCs,
       LockedPCs, Key, RelayReturns, Leave, turnVars, capVars, gwVars
  <2> QED BY <1>2, <2>1, <2>2, <2>3, <2>4, <2>5, <2>6, <2>7, <2>8, <2>9, <2>10, <2>11,
       <2>12, <2>13, <2>14, <2>15, <2>16 DEF CoroutineStep
<1>3. ASSUME NEW t \in Turns, Frame(t)
      PROVE  RunOrderInv'
  <2>1. CASE RpcResponse(t)
    BY <2>1, TurnsAssumption, UnsharedTurns, SentinelAssumption DEF TypeOK, TurnTypes,
       CaptureTypes, GatewayTypes, UnsharedExclusive, RunIdInv, RunIdAt, RunOrderInv, CapturePCs,
       LockedPCs, Key, RpcResponse, turnVars, capVars, gwVars
  <2>2. CASE ChatSendAck(t)
    BY <2>2, TurnsAssumption, UnsharedTurns, SentinelAssumption DEF TypeOK, TurnTypes,
       CaptureTypes, GatewayTypes, UnsharedExclusive, RunIdInv, RunIdAt, RunOrderInv, CapturePCs,
       LockedPCs, Key, ChatSendAck, InstallAckRunId, turnVars, capVars, gwVars
  <2>3. CASE ChatSendRejected(t)
    BY <2>3, TurnsAssumption, UnsharedTurns, SentinelAssumption DEF TypeOK, TurnTypes,
       CaptureTypes, GatewayTypes, UnsharedExclusive, RunIdInv, RunIdAt, RunOrderInv, CapturePCs,
       LockedPCs, Key, ChatSendRejected, turnVars, capVars, gwVars
  <2>4. ASSUME NEW family \in {"chat", "session"}, NEW tagged \in BOOLEAN, NEW final \in BOOLEAN,
               AssistantEvent(t, family, tagged, final)
        PROVE  RunOrderInv'
    <3>1. /\ UNCHANGED <<pc, link, gwRun, gwPrior>> /\ link = "up" /\ t \in gwRun
          /\ gwQuiet' = gwQuiet \cup gwPrior[t]
          /\ seen' = seen \/ (runId[Key(t)] = t /\ seen' = seen \cup {Key(t)})
      BY <2>4 DEF AssistantEvent, Capture, turnVars
    <3>2. CASE seen' = seen
      BY <3>1, <3>2, UnsharedTurns DEF RunOrderInv
    <3>3. CASE runId[Key(t)] = t /\ seen' = seen \cup {Key(t)}
      <4>1. ASSUME NEW u \in Unshared, Key(u) = Key(t)
            PROVE  /\ pc[u] # "sending"
                   /\ pc[u] \in {"sent", "stream", "write", "wait"} => u = t
        BY <3>1, <3>3, <4>1, UnsharedTurns, SentinelAssumption DEF RunIdInv, RunIdAt
      <4> QED BY <3>1, <3>3, <4>1 DEF RunOrderInv
    <3> QED BY <3>1, <3>2, <3>3
  <2> QED BY <1>3, <2>1, <2>2, <2>3, <2>4 DEF Frame
<1>4. ASSUME NEW t \in Turns, Begin(t)
      PROVE  RunOrderInv'
  BY <1>4, TurnsAssumption, UnsharedTurns, SentinelAssumption DEF TypeOK, TurnTypes,
     CaptureTypes, GatewayTypes, UnsharedExclusive, RunIdInv, RunIdAt, RunOrderInv, CapturePCs,
     LockedPCs, Key, Begin, GetLock, turnVars, capVars, gwVars
<1>5. ASSUME NEW t \in Turns, Cancel(t)
      PROVE  RunOrderInv'
  BY <1>5, TurnsAssumption, UnsharedTurns, SentinelAssumption DEF TypeOK, TurnTypes,
     CaptureTypes, GatewayTypes, UnsharedExclusive, RunIdInv, RunIdAt, RunOrderInv, CapturePCs,
     LockedPCs, Key, Cancel, CleanupPendingTurn, StreamLeaves, Leave, turnVars, capVars,
     gwVars
<1>6. CASE Reset
  BY <1>6, TurnsAssumption, UnsharedTurns, SentinelAssumption DEF TypeOK, TurnTypes,
     CaptureTypes, GatewayTypes, UnsharedExclusive, RunIdInv, RunIdAt, RunOrderInv, CapturePCs,
     LockedPCs, Key, Reset, Disconnect, turnVars, capVars, gwVars
<1>7. CASE Background
  BY <1>7 DEF TypeOK, TurnTypes, CaptureTypes, GatewayTypes, UnsharedExclusive,
       RunIdInv, RunIdAt, RunOrderInv, CapturePCs, LockedPCs, Key, Background, BackgroundAsks,
       BackgroundAnswered, turnVars, capVars, gwVars
<1>8. CASE Finished
  BY <1>8, <1>1 DEF Finished
<1>9. ASSUME NEW t \in Turns, StreamHandler(t)
      PROVE  RunOrderInv'
  <2>1. CASE WriteReturns(t) \/ WriteFails(t)
    BY <2>1, TurnsAssumption, UnsharedTurns, SentinelAssumption DEF TypeOK, TurnTypes,
       CaptureTypes, GatewayTypes, UnsharedExclusive, RunIdInv, RunIdAt, RunOrderInv,
       CapturePCs, LockedPCs, Key, WriteReturns, WriteFails, turnVars, capVars, gwVars
  <2>2. CASE OuterCloses(t)
    BY <2>2, TurnsAssumption, UnsharedTurns, SentinelAssumption DEF TypeOK, TurnTypes,
       CaptureTypes, GatewayTypes, UnsharedExclusive, RunIdInv, RunIdAt, RunOrderInv,
       CapturePCs, LockedPCs, Key, OuterCloses, turnVars, capVars, gwVars
  <2>3. CASE InnerCloses(t)
    BY <2>3, TurnsAssumption, UnsharedTurns, SentinelAssumption DEF TypeOK, TurnTypes,
       CaptureTypes, GatewayTypes, UnsharedExclusive, RunIdInv, RunIdAt, RunOrderInv,
       CapturePCs, LockedPCs, Key, InnerCloses, turnVars, capVars, gwVars
  <2> QED BY <1>9, <2>1, <2>2, <2>3 DEF StreamHandler
<1> QED
  BY <1>1, <1>2, <1>3, <1>4, <1>5, <1>6, <1>7, <1>8, <1>9 DEF Next

\* put_nowait adds the texts of the new items at most.
LEMMA TextsPut ==
    ASSUME NEW q \in Seq(Items), NEW s \in Seq(Items)
    PROVE  TextsOf(Put(q, s)) \subseteq TextsOf(q) \cup TextsOf(s)
<1>1. CASE Closed(q)
  BY <1>1 DEF Put
<1>2. CASE ~Closed(q)
  <2>1. SUFFICES ASSUME NEW i \in DOMAIN (q \o s), (q \o s)[i].kind = "text"
                 PROVE  (q \o s)[i].run \in TextsOf(q) \cup TextsOf(s)
    BY <1>2 DEF Put, TextsOf
  <2>2. CASE i \in DOMAIN q
    BY <2>1, <2>2 DEF TextsOf
  <2>3. CASE i \notin DOMAIN q
    <3>1. i - Len(q) \in DOMAIN s /\ (q \o s)[i] = s[i - Len(q)]
      BY <2>3
    <3> QED BY <2>1, <3>1 DEF TextsOf
  <2> QED BY <2>2, <2>3
<1> QED BY <1>1, <1>2

\* What the stream loop takes from its queue was in the queue.
LEMMA TextsHeadTail ==
    ASSUME NEW q \in Seq(Items), q # <<>>
    PROVE  /\ TextsOf(Tail(q)) \subseteq TextsOf(q)
           /\ Head(q).kind = "text" => Head(q).run \in TextsOf(q)
<1>1. \A i \in DOMAIN Tail(q) : i + 1 \in DOMAIN q /\ Tail(q)[i] = q[i + 1]
  OBVIOUS
<1>2. 1 \in DOMAIN q /\ Head(q) = q[1]
  OBVIOUS
<1> QED BY <1>1, <1>2 DEF TextsOf

\* The texts of what handle_event and reset put.
LEMMA TextsOfItems ==
    /\ \A r \in Turns : TextsOf(<<TextItem(r), CloseItem>>) = {r}
    /\ TextsOf(<<ErrorItem>>) = {}
BY DEF TextsOf, TextItem, CloseItem, ErrorItem

\* The runs of what was handed over.
LEMMA RunsFacts ==
    /\ RunsIn(<<>>) = {}
    /\ \A r : RunsIn(<<r>>) = {r}
    /\ \A y \in Seq(Turns) : y # <<>> => RunsIn(y) # {}
    /\ \A y \in Seq(Turns), r \in Turns :
          Append(y, r) # <<>> /\ RunsIn(Append(y, r)) = RunsIn(y) \cup {r}
<1>1. RunsIn(<<>>) = {} /\ \A r : RunsIn(<<r>>) = {r}
  BY DEF RunsIn
<1>2. ASSUME NEW y \in Seq(Turns), y # <<>>
      PROVE  RunsIn(y) # {}
  <2>1. 1 \in DOMAIN y
    BY <1>2
  <2> QED BY <2>1 DEF RunsIn
<1>3. ASSUME NEW y \in Seq(Turns), NEW r \in Turns
      PROVE  Append(y, r) # <<>> /\ RunsIn(Append(y, r)) = RunsIn(y) \cup {r}
  <2>1. /\ DOMAIN Append(y, r) = DOMAIN y \cup {Len(y) + 1}
        /\ Append(y, r)[Len(y) + 1] = r
        /\ \A i \in DOMAIN y : Append(y, r)[i] = y[i]
    OBVIOUS
  <2>2. Append(y, r) # <<>>
    <3>1. Len(Append(y, r)) = Len(y) + 1 /\ Len(y) \in Nat
      OBVIOUS
    <3>2. Len(<<>>) = 0
      OBVIOUS
    <3> QED BY <3>1, <3>2
  <2> QED BY <2>1, <2>2 DEF RunsIn
<1> QED BY <1>1, <1>2, <1>3

\* The staleness filter: what handle_event puts on the queue of a stream turn
\* comes after the ack, and from the turn's own run when the ack had a run id.
LEMMA CapturedIsOwn ==
    ASSUME TypeOK, NothingStranded, PathInv, UnsharedOwned, RunIdInv, RunOrderInv,
           NEW u \in Turns, NEW family \in {"chat", "session"},
           NEW tagged \in BOOLEAN, NEW final \in BOOLEAN,
           AssistantEvent(u, family, tagged, final),
           NEW t \in Streaming, t \in Unshared, queueReg[Key(u)] = t,
           pc[t] \notin GonePCs, ~Stale(u, Key(u), family, tagged)
    PROVE  /\ pc[t] \in {"stream", "write"} \/ (pc[t] = "sent" /\ fut[t] = "ok")
           /\ t \in ackTagged => u = t
<1> DEFINE c == Key(u)
<1>1. t \in Turns /\ Key(t) = c /\ pc[t] \in CapturePCs /\ c \in Canonicals
  BY TurnsAssumption, UnsharedTurns DEF NothingStranded, Key, GonePCs
<1>2. link = "up" /\ u \in gwRun /\ u \notin gwQuiet
  BY DEF AssistantEvent
<1>3. runId[c] # Pending
  BY <1>1, SentinelAssumption DEF Stale
<1>4. pc[t] \in {"stream", "write"} \/ (pc[t] = "sent" /\ fut[t] = "ok")
  BY <1>1, <1>2, <1>3 DEF RunIdInv, RunIdAt, CapturePCs, PathInv, GonePCs
<1>5. ASSUME t \in ackTagged
      PROVE  u = t
  <2>1. runId[c] = t
    BY <1>1, <1>2, <1>4, <1>5 DEF RunIdInv, RunIdAt
  <2>2. CASE tagged
    BY <2>1, <2>2, <1>1, SentinelAssumption DEF Stale
  <2>3. CASE ~tagged
    <3>1. c \in seen
      BY <2>1, <2>3, <1>1, <1>3, SentinelAssumption DEF Stale
    <3>2. gwPrior[t] \subseteq gwQuiet
      BY <3>1, <1>1, <1>2, <1>4 DEF RunOrderInv
    <3>3. u # t => u \in gwPrior[t]
      BY <1>1, <1>2, <1>4 DEF RunOrderInv
    <3> QED BY <1>2, <3>2, <3>3
  <2> QED BY <2>2, <2>3
<1> QED BY <1>4, <1>5

\* Every step keeps foreign text out of a stream turn with a tagged ack.
LEMMA ReplyStep ==
    ASSUME TypeOK, NothingStranded, PathInv, UnsharedOwned, RunIdInv, RunOrderInv,
           EmptyBeforeAck, UnsharedReply, [Next]_vars
    PROVE  EmptyBeforeAck' /\ UnsharedReply'
<1>1. CASE UNCHANGED vars
  BY <1>1 DEF TypeOK, TurnTypes, GatewayTypes, RunIdInv, RunIdAt, EmptyBeforeAck,
       UnsharedReply, GonePCs, vars, turnVars, capVars, histVars
<1>2. ASSUME NEW t \in Turns, CoroutineStep(t)
      PROVE  EmptyBeforeAck' /\ UnsharedReply'
  <2>1. CASE EnterInventory(t)
    BY <2>1, TurnsAssumption, UnsharedTurns DEF TypeOK, TurnTypes, GatewayTypes, RunIdInv, RunIdAt,
       EmptyBeforeAck, UnsharedReply, GonePCs, EnterInventory, OwnerDecision, GetLock, Call,
       turnVars, capVars, histVars
  <2>2. CASE LeaveInventory(t)
    BY <2>2, TurnsAssumption, UnsharedTurns DEF TypeOK, TurnTypes, GatewayTypes, RunIdInv, RunIdAt,
       EmptyBeforeAck, UnsharedReply, GonePCs, LeaveInventory, OwnerDecision, GetLock,
       turnVars, capVars, histVars
  <2>3. CASE InventorySendFails(t)
    BY <2>3, TurnsAssumption, UnsharedTurns DEF TypeOK, TurnTypes, GatewayTypes, RunIdInv, RunIdAt,
       EmptyBeforeAck, UnsharedReply, GonePCs, InventorySendFails, turnVars, capVars, histVars
  <2>4. CASE EnterTurn(t)
    BY <2>4, TurnsAssumption, UnsharedTurns DEF TypeOK, TurnTypes, GatewayTypes, RunIdInv, RunIdAt,
       EmptyBeforeAck, UnsharedReply, GonePCs, EnterTurn, InstallTurn, Call, turnVars, capVars,
       histVars
  <2>5. CASE Created(t)
    BY <2>5, TurnsAssumption, UnsharedTurns DEF TypeOK, TurnTypes, GatewayTypes, RunIdInv, RunIdAt,
       EmptyBeforeAck, UnsharedReply, GonePCs, Created, Call, turnVars, capVars, histVars
  <2>6. CASE OptInRefused(t)
    BY <2>6, TurnsAssumption, UnsharedTurns DEF TypeOK, TurnTypes, GatewayTypes, RunIdInv, RunIdAt,
       EmptyBeforeAck, UnsharedReply, GonePCs, OptInRefused, Call, turnVars, capVars, histVars
  <2>7. CASE Subscribed(t)
    BY <2>7, TurnsAssumption, UnsharedTurns DEF TypeOK, TurnTypes, GatewayTypes, RunIdInv, RunIdAt,
       EmptyBeforeAck, UnsharedReply, GonePCs, Subscribed, InstallTurn, turnVars, capVars,
       histVars
  <2>8. CASE SessionRpcFails(t)
    BY <2>8, TurnsAssumption, UnsharedTurns DEF TypeOK, TurnTypes, GatewayTypes, RunIdInv, RunIdAt,
       EmptyBeforeAck, UnsharedReply, GonePCs, SessionRpcFails, FailEarly, Leave, turnVars,
       capVars, histVars
  <2>9. CASE ChatSendSent(t)
    BY <2>9, TurnsAssumption, UnsharedTurns DEF TypeOK, TurnTypes, GatewayTypes, RunIdInv, RunIdAt,
       EmptyBeforeAck, UnsharedReply, GonePCs, ChatSendSent, turnVars, capVars, histVars
  <2>10. CASE ChatSendFails(t)
    BY <2>10, TurnsAssumption, UnsharedTurns DEF TypeOK, TurnTypes, GatewayTypes,
       RunIdInv, RunIdAt, EmptyBeforeAck, UnsharedReply, GonePCs, ChatSendFails, CleanupPendingTurn,
       Leave, turnVars, capVars, histVars
  <2>11. CASE StreamResumes(t)
    BY <2>11, TurnsAssumption, UnsharedTurns DEF TypeOK, TurnTypes, GatewayTypes,
       RunIdInv, RunIdAt, EmptyBeforeAck, UnsharedReply, GonePCs, StreamResumes, AckedRunId, PathInv,
       turnVars, capVars, histVars
  <2>12. CASE StreamItem(t)
    <3>1. queue[t] \in Seq(Items) /\ queue[t] # <<>>
      BY <2>12 DEF TypeOK, QueueTypes, StreamItem
    <3>2. TextsOf(queue'[t]) \subseteq TextsOf(queue[t])
      BY <2>12, <3>1, TextsHeadTail DEF TypeOK, QueueTypes, StreamItem
    <3>3. RunsIn(yielded'[t]) \subseteq RunsIn(yielded[t]) \cup TextsOf(queue[t])
      <4>1. \/ yielded'[t] = yielded[t]
            \/ /\ Head(queue[t]).kind = "text"
               /\ yielded'[t] = Append(yielded[t], Head(queue[t]).run)
        BY <2>12 DEF TypeOK, TurnTypes, QueueTypes, StreamItem
      <4>2. /\ yielded[t] \in Seq(Turns) /\ Head(queue[t]) \in Items
            /\ Head(queue[t]).kind = "text" => Head(queue[t]).run \in Turns
        BY <3>1, ItemFacts DEF TypeOK, TurnTypes, QueueTypes
      <4>3. Head(queue[t]).kind = "text" => Head(queue[t]).run \in TextsOf(queue[t])
        BY <3>1, TextsHeadTail
      <4>4. Head(queue[t]).kind = "text" =>
               RunsIn(Append(yielded[t], Head(queue[t]).run))
                 = RunsIn(yielded[t]) \cup {Head(queue[t]).run}
        BY <4>2, RunsFacts
      <4> QED BY <4>1, <4>3, <4>4
    <3>4. \A u \in Turns \ {t} :
             /\ queue'[u] = queue[u] /\ yielded'[u] = yielded[u]
             /\ pc'[u] = pc[u] /\ fut'[u] = fut[u]
      BY <2>12 DEF TypeOK, TurnTypes, QueueTypes, StreamItem, StreamLeaves, Leave
    <3>5. pc[t] = "stream" /\ pc'[t] \in {"write", "ended"} /\ ackTagged' = ackTagged
      BY <2>12 DEF TypeOK, TurnTypes, StreamItem, StreamLeaves, Leave, histVars
    <3> QED
      BY <3>2, <3>3, <3>4, <3>5, TurnsAssumption, UnsharedTurns DEF EmptyBeforeAck, UnsharedReply, GonePCs
  <2>13. CASE StreamProgress(t)
    BY <2>13, TurnsAssumption, UnsharedTurns DEF TypeOK, TurnTypes, GatewayTypes,
       RunIdInv, RunIdAt, EmptyBeforeAck, UnsharedReply, GonePCs, StreamProgress, turnVars,
       capVars, histVars
  <2>14. CASE DeadlineReturns(t)
    BY <2>14, TurnsAssumption, UnsharedTurns DEF TypeOK, TurnTypes, GatewayTypes,
       RunIdInv, RunIdAt, EmptyBeforeAck, UnsharedReply, GonePCs, DeadlineReturns, StreamLeaves, Leave,
       turnVars, capVars, histVars
  <2>15. CASE RelayResumes(t)
    <3>1. t \notin Streaming /\ UNCHANGED <<ackTagged, queue>>
      BY <2>15 DEF RelayResumes, histVars
    <3>2. \A u \in Turns \ {t} : yielded'[u] = yielded[u] /\ pc'[u] = pc[u] /\ fut'[u] = fut[u]
      BY <2>15 DEF TypeOK, TurnTypes, QueueTypes, RelayResumes, Leave
    <3>3. \A u \in Streaming \cap Unshared : u \in Turns \ {t}
      BY <3>1, TurnsAssumption
    <3>4. EmptyBeforeAck'
      BY <3>1, <3>2, <3>3 DEF EmptyBeforeAck
    <3>5. UnsharedReply'
      BY <3>1, <3>2, <3>3 DEF UnsharedReply
    <3> QED BY <3>4, <3>5
  <2>16. CASE RelayReturns(t)
    <3>1. t \notin Streaming /\ UNCHANGED <<ackTagged, queue>>
      BY <2>16 DEF RelayReturns, PathInv, histVars
    <3>2. \A u \in Turns \ {t} : yielded'[u] = yielded[u] /\ pc'[u] = pc[u] /\ fut'[u] = fut[u]
      BY <2>16 DEF TypeOK, TurnTypes, QueueTypes, RelayReturns, Leave
    <3>3. \A u \in Streaming \cap Unshared : u \in Turns \ {t}
      BY <3>1, TurnsAssumption
    <3>4. EmptyBeforeAck'
      BY <3>1, <3>2, <3>3 DEF EmptyBeforeAck
    <3>5. UnsharedReply'
      BY <3>1, <3>2, <3>3 DEF UnsharedReply
    <3> QED BY <3>4, <3>5
  <2> QED BY <1>2, <2>1, <2>2, <2>3, <2>4, <2>5, <2>6, <2>7, <2>8, <2>9, <2>10, <2>11,
       <2>12, <2>13, <2>14, <2>15, <2>16 DEF CoroutineStep
<1>3. ASSUME NEW t \in Turns, Frame(t)
      PROVE  EmptyBeforeAck' /\ UnsharedReply'
  <2>1. CASE RpcResponse(t)
    BY <2>1, TurnsAssumption, UnsharedTurns DEF TypeOK, TurnTypes, GatewayTypes, RunIdInv, RunIdAt,
       EmptyBeforeAck, UnsharedReply, GonePCs, RpcResponse, turnVars, capVars, histVars
  <2>2. CASE ChatSendAck(t)
    <3>1. /\ pc[t] = "sent" /\ fut[t] = "pending" /\ UNCHANGED <<pc, yielded, queue>>
          /\ fut' = [fut EXCEPT ![t] = "ok"] /\ ackTagged' \subseteq ackTagged \cup {t}
      BY <2>2 DEF ChatSendAck
    <3>2. t \in Streaming \cap Unshared => yielded[t] = <<>> /\ TextsOf(queue[t]) = {}
      BY <3>1 DEF EmptyBeforeAck, GonePCs
    <3>3. EmptyBeforeAck'
      BY <3>1, TurnsAssumption DEF TypeOK, TurnTypes, EmptyBeforeAck
    <3>4. UnsharedReply'
      BY <3>1, <3>2, RunsFacts DEF UnsharedReply
    <3> QED BY <3>3, <3>4
  <2>3. CASE ChatSendRejected(t)
    BY <2>3, TurnsAssumption, UnsharedTurns DEF TypeOK, TurnTypes, GatewayTypes, RunIdInv, RunIdAt,
       EmptyBeforeAck, UnsharedReply, GonePCs, ChatSendRejected, turnVars, capVars, histVars
  <2>4. ASSUME NEW family \in {"chat", "session"}, NEW tagged \in BOOLEAN, NEW final \in BOOLEAN,
               AssistantEvent(t, family, tagged, final)
        PROVE  EmptyBeforeAck' /\ UnsharedReply'
    <3>1. CASE UNCHANGED queue
      BY <2>4, <3>1 DEF EmptyBeforeAck, UnsharedReply, GonePCs, AssistantEvent, turnVars
    <3>2. CASE UNCHANGED queue => FALSE
      <4> DEFINE w == queueReg[Key(t)]
      <4>1. /\ w # None
            /\ ~Stale(t, Key(t), family, tagged)
            /\ queue' = [queue EXCEPT ![w] = Put(@, <<TextItem(t), CloseItem>>)]
        BY <2>4, <3>2 DEF AssistantEvent, Capture
      <4>2. w \in Streaming /\ w \in Turns
        BY <4>1, TurnsAssumption, UnsharedTurns DEF TypeOK, CaptureTypes, TurnOrNone,
           NothingStranded, Key
      <4>3. (w \in Unshared /\ pc[w] \notin GonePCs) =>
               /\ pc[w] \in {"stream", "write"} \/ (pc[w] = "sent" /\ fut[w] = "ok")
               /\ w \in ackTagged => t = w
        <5> SUFFICES ASSUME w \in Unshared, pc[w] \notin GonePCs
                     PROVE  /\ pc[w] \in {"stream", "write"} \/ (pc[w] = "sent" /\ fut[w] = "ok")
                            /\ w \in ackTagged => t = w
          OBVIOUS
        <5> HIDE DEF w
        <5>1. queueReg[Key(t)] = w
          BY DEF w
        <5> QED BY <2>4, <4>1, <4>2, <5>1, CapturedIsOwn
      <4>4. queue[w] \in Seq(Items) /\ <<TextItem(t), CloseItem>> \in Seq(Items)
        BY <4>2, ItemFacts DEF TypeOK, QueueTypes
      <4>5. TextsOf(queue'[w]) \subseteq TextsOf(queue[w]) \cup {t}
        <5>1. queue'[w] = Put(queue[w], <<TextItem(t), CloseItem>>)
          BY <4>1, <4>2 DEF TypeOK, QueueTypes
        <5>2. TextsOf(Put(queue[w], <<TextItem(t), CloseItem>>))
                \subseteq TextsOf(queue[w]) \cup TextsOf(<<TextItem(t), CloseItem>>)
          BY <4>4, TextsPut
        <5> QED BY <5>1, <5>2, TextsOfItems
      <4>6. \A v \in Turns \ {w} : queue'[v] = queue[v]
        BY <4>1 DEF TypeOK, QueueTypes
      <4>7. UNCHANGED <<pc, fut, yielded, ackTagged>>
        BY <2>4 DEF AssistantEvent, turnVars
      <4>8. EmptyBeforeAck'
        BY <4>2, <4>3, <4>6, <4>7, TurnsAssumption, UnsharedTurns DEF EmptyBeforeAck, GonePCs
      <4>9. UnsharedReply'
        BY <4>2, <4>3, <4>5, <4>6, <4>7, TurnsAssumption, UnsharedTurns DEF UnsharedReply, GonePCs
      <4> QED BY <4>8, <4>9
    <3> QED BY <3>1, <3>2
  <2> QED BY <1>3, <2>1, <2>2, <2>3, <2>4 DEF Frame
<1>4. ASSUME NEW t \in Turns, Begin(t)
      PROVE  EmptyBeforeAck' /\ UnsharedReply'
  BY <1>4, TurnsAssumption, UnsharedTurns DEF TypeOK, TurnTypes, GatewayTypes, RunIdInv, RunIdAt,
     EmptyBeforeAck, UnsharedReply, GonePCs, Begin, GetLock, turnVars, capVars, histVars
<1>5. ASSUME NEW t \in Turns, Cancel(t)
      PROVE  EmptyBeforeAck' /\ UnsharedReply'
  BY <1>5, TurnsAssumption, UnsharedTurns DEF TypeOK, TurnTypes, GatewayTypes, RunIdInv, RunIdAt,
     EmptyBeforeAck, UnsharedReply, GonePCs, Cancel, CleanupPendingTurn, StreamLeaves, Leave,
     PathInv, turnVars, capVars, histVars
<1>6. CASE Reset
  <2>1. \A u \in Turns : queue[u] \in Seq(Items) /\ <<ErrorItem>> \in Seq(Items)
    BY ItemFacts DEF TypeOK, QueueTypes
  <2>2. \A u \in Turns : TextsOf(queue'[u]) \subseteq TextsOf(queue[u])
    BY <1>6, <2>1, TextsPut, TextsOfItems DEF Reset, Disconnect
  <2>3. UNCHANGED <<pc, yielded, ackTagged>> /\ \A u \in Turns : fut'[u] = "ok" <=> fut[u] = "ok"
    BY <1>6 DEF Reset, histVars
  <2> QED BY <2>2, <2>3, TurnsAssumption, UnsharedTurns DEF EmptyBeforeAck, UnsharedReply, GonePCs
<1>7. CASE Background
  BY <1>7 DEF TypeOK, TurnTypes, GatewayTypes, RunIdInv, RunIdAt, EmptyBeforeAck,
       UnsharedReply, GonePCs, Background, BackgroundAsks, BackgroundAnswered, turnVars,
       capVars, histVars
<1>8. CASE Finished
  BY <1>8, <1>1 DEF Finished
<1>9. ASSUME NEW t \in Turns, StreamHandler(t)
      PROVE  EmptyBeforeAck' /\ UnsharedReply'
  <2>1. CASE WriteReturns(t) \/ WriteFails(t)
    BY <2>1, TurnsAssumption, UnsharedTurns DEF TypeOK, TurnTypes, GatewayTypes, RunIdInv, RunIdAt,
       EmptyBeforeAck, UnsharedReply, GonePCs, WriteReturns, WriteFails, turnVars, capVars, histVars
  <2>2. CASE OuterCloses(t)
    BY <2>2, TurnsAssumption, UnsharedTurns DEF TypeOK, TurnTypes, GatewayTypes, RunIdInv, RunIdAt,
       EmptyBeforeAck, UnsharedReply, GonePCs, OuterCloses, turnVars, capVars, histVars
  <2>3. CASE InnerCloses(t)
    BY <2>3, TurnsAssumption, UnsharedTurns DEF TypeOK, TurnTypes, GatewayTypes, RunIdInv, RunIdAt,
       EmptyBeforeAck, UnsharedReply, GonePCs, InnerCloses, turnVars, capVars, histVars
  <2> QED BY <1>9, <2>1, <2>2, <2>3 DEF StreamHandler
<1> QED
  BY <1>1, <1>2, <1>3, <1>4, <1>5, <1>6, <1>7, <1>8, <1>9 DEF Next

-----------------------------------------------------------------------------
(***************************************************************************)
(* The theorems.                                                           *)
(***************************************************************************)

\* _active_turns names exactly the turns in flight, however turns fail, are
\* cancelled or interleave, until the connection is lost.
THEOREM Registry == Spec => []RegistryExact
<1> DEFINE Inv == TypeOK /\ LocksShared /\ RegistryExact
<1>1. Init => LocksShared /\ RegistryExact
  BY SentinelAssumption DEF Init, LocksShared, RegistryExact, LockedPCs
<1>2. Init => Inv
  BY <1>1, TypeInit
<1>3. Inv /\ [Next]_vars => Inv'
  BY TypeStep, LockStep
<1> QED BY <1>2, <1>3, PTL DEF Spec

\* No turn leaves its pending-run sentinel or its stream queue behind, on any
\* failure, timeout, cancellation or disconnect.
THEOREM NoStranding == Spec => []NothingStranded
<1> DEFINE Inv == TypeOK /\ PathInv /\ NothingStranded
<1>1. Init => PathInv /\ NothingStranded
  BY SentinelAssumption DEF Init, PathInv, NothingStranded
<1>2. Init => Inv
  BY <1>1, TypeInit
<1>3. Inv /\ [Next]_vars => Inv'
  BY TypeStep, StrandStep
<1> QED BY <1>2, <1>3, PTL DEF Spec

\* The conjunction that is inductive for the results about replies.
ReplyInv ==
    /\ TypeOK /\ LocksShared /\ RegistryExact
    /\ PathInv /\ NothingStranded /\ UnsharedOwned
    /\ RunIdInv /\ RunOrderInv
    /\ EmptyBeforeAck /\ UnsharedReply

\* ReplyInv is an invariant of the relay, whatever keys meet in a session.
LEMMA ReplyInvariant == Spec => []ReplyInv
<1>1. Init => ReplyInv
  <2> SUFFICES ASSUME Init PROVE ReplyInv
    OBVIOUS
  <2>1. TypeOK
    BY TypeInit
  <2>2. LocksShared /\ RegistryExact /\ PathInv /\ NothingStranded /\ UnsharedOwned
    BY UnsharedTurns, SentinelAssumption DEF Init, LocksShared, RegistryExact, LockedPCs,
       PathInv, NothingStranded, UnsharedOwned, CapturePCs
  <2>3. RunIdInv /\ RunOrderInv
    BY UnsharedTurns DEF Init, RunIdInv, RunIdAt, RunOrderInv, CapturePCs
  <2>4. EmptyBeforeAck /\ UnsharedReply
    BY TurnsAssumption, RunsFacts DEF Init, EmptyBeforeAck, UnsharedReply, TextsOf
  <2> QED BY <2>1, <2>2, <2>3, <2>4 DEF ReplyInv
<1>2. ReplyInv /\ [Next]_vars => ReplyInv'
  <2> SUFFICES ASSUME ReplyInv, [Next]_vars PROVE ReplyInv'
    OBVIOUS
  <2> USE DEF ReplyInv
  <2>1. TypeOK'
    BY TypeStep
  <2>2. LocksShared' /\ RegistryExact'
    BY LockStep
  <2>3. PathInv' /\ NothingStranded'
    BY StrandStep
  <2>4. UnsharedExclusive
    BY Exclusion
  <2>5. UnsharedExclusive'
    BY <2>1, <2>2, ExclusionNext
  <2>6. UnsharedOwned'
    BY <2>4, <2>5, OwnStep
  <2>7. RunIdInv'
    BY <2>4, <2>5, RunIdStep
  <2>8. RunOrderInv'
    BY <2>4, <2>5, RunOrderStep
  <2>9. EmptyBeforeAck' /\ UnsharedReply'
    BY ReplyStep
  <2> QED BY <2>1, <2>2, <2>3, <2>6, <2>7, <2>8, <2>9
<1> QED BY <1>1, <1>2, PTL DEF Spec

\* While the connection lives, the turn lock keeps every other turn of an
\* unshared session out of it.
THEOREM Exclusive == Spec => []UnsharedExclusive
<1>1. ReplyInv => UnsharedExclusive
  BY Exclusion DEF ReplyInv
<1> QED BY <1>1, ReplyInvariant, PTL

\* While the connection lives, the late finally of an abandoned stream of the
\* session is the only thing that takes an unshared turn's queue away, and
\* nothing takes its reply event, also when other sessions of the same
\* connection are reached by several raw keys.
THEOREM OwnershipUnshared == Spec => []UnsharedOwned
<1>1. ReplyInv => UnsharedOwned
  BY DEF ReplyInv
<1> QED BY <1>1, ReplyInvariant, PTL

\* An unshared stream turn whose ack carried a run id never shows another
\* run's text.
THEOREM OwnReplyUnshared == Spec => []UnsharedReply
<1>1. ReplyInv => UnsharedReply
  BY DEF ReplyInv
<1> QED BY <1>1, ReplyInvariant, PTL

\* When all canonical keys are distinct, a capturing turn has its own queue or
\* reply event while the connection lives, unless the late finally of an
\* abandoned stream popped the queue.
THEOREM Ownership ==
    ASSUME KeysDistinct
    PROVE  Spec => []OwnedUnlessRobbed
<1>1. UnsharedOwned => OwnedUnlessRobbed
  BY AllUnshared DEF UnsharedOwned, OwnedUnlessRobbed
<1> QED BY <1>1, OwnershipUnshared, PTL

\* When all canonical keys are distinct, no stream turn whose ack carried a
\* run id shows another run's text.
THEOREM OwnReply ==
    ASSUME KeysDistinct
    PROVE  Spec => []ReplyFromOwnRun
<1>1. UnsharedReply => ReplyFromOwnRun
  BY AllUnshared, TurnsAssumption DEF UnsharedReply, ReplyFromOwnRun
<1> QED BY <1>1, OwnReplyUnshared, PTL

-----------------------------------------------------------------------------
(***************************************************************************)
(* What a turn is given: a stream is closed cleanly only after a reply,    *)
(* and a turn's own final reply is not lost.                               *)
(***************************************************************************)

\* In a queue whose consumer has been given the texts y, the clean close comes
\* after a text.
Announced(q, y) ==
    \A i \in DOMAIN q : q[i].kind = "close" =>
        y # <<>> \/ \E j \in DOMAIN q : j < i /\ q[j].kind = "text"
ClosedByReply == \A t \in Turns : Announced(queue[t], yielded[t])

\* A queue nobody put a disconnect on.
Undisturbed(q) == \A i \in DOMAIN q : q[i].kind # "error"
ErrorsAfterReset == link = "up" => \A t \in Turns : Undisturbed(queue[t])

\* The items past the end of q are those that were put.
LEMMA PutBeyond ==
    ASSUME NEW q \in Seq(Items), NEW s \in Seq(Items), NEW i \in DOMAIN (q \o s),
           i \notin DOMAIN q
    PROVE  /\ Len(q) \in Nat /\ i \in Nat /\ Len(q) < i /\ i <= Len(q) + Len(s)
           /\ (q \o s)[i] = s[i - Len(q)]
<1>1. Len(q) \in Nat /\ Len(s) \in Nat /\ DOMAIN q = 1 .. Len(q)
  OBVIOUS
<1>2. i \in 1 .. (Len(q) + Len(s))
  OBVIOUS
<1>3. Len(q) < i
  BY <1>1, <1>2
<1> QED BY <1>1, <1>2, <1>3

\* What handle_event and reset put keeps the close after a text.
LEMMA PutAnnounced ==
    ASSUME NEW q \in Seq(Items), NEW y, Announced(q, y), NEW r \in Turns
    PROVE  /\ Announced(Put(q, <<TextItem(r), CloseItem>>), y)
           /\ Announced(Put(q, <<ErrorItem>>), y)
<1>1. CASE Closed(q)
  BY <1>1 DEF Put
<1>2. CASE ~Closed(q)
  <2> DEFINE s == <<TextItem(r), CloseItem>>
             e == <<ErrorItem>>
  <2>0. s \in Seq(Items) /\ e \in Seq(Items) /\ Len(s) = 2 /\ Len(e) = 1
    BY ItemFacts
  <2>1. s[1].kind = "text" /\ e[1].kind = "error"
    BY DEF TextItem, ErrorItem
  <2>2. Put(q, s) = q \o s /\ Put(q, e) = q \o e
    BY <1>2 DEF Put
  <2> HIDE DEF s, e
  <2>3. ASSUME NEW i \in DOMAIN (q \o s), (q \o s)[i].kind = "close"
        PROVE  \E j \in DOMAIN (q \o s) : j < i /\ (q \o s)[j].kind = "text"
    <3>1. i \notin DOMAIN q
      BY <1>2, <2>0, <2>3 DEF Closed
    <3>2. Len(q) \in Nat /\ i \in Nat /\ Len(q) < i
      BY <2>0, <3>1, PutBeyond
    <3>3. Len(q) + 1 \in DOMAIN (q \o s) /\ (q \o s)[Len(q) + 1] = s[1]
      BY <2>0, <3>2
    <3>4. i # Len(q) + 1
      BY <2>1, <2>3, <3>3
    <3>5. Len(q) + 1 < i
      BY <3>2, <3>4
    <3> QED BY <2>1, <3>3, <3>5
  <2>4. ASSUME NEW i \in DOMAIN (q \o e)
        PROVE  (q \o e)[i].kind # "close"
    <3>1. CASE i \in DOMAIN q
      BY <1>2, <2>0, <3>1 DEF Closed
    <3>2. CASE i \notin DOMAIN q
      <4>1. /\ Len(q) \in Nat /\ i \in Nat /\ Len(q) < i /\ i <= Len(q) + Len(e)
            /\ (q \o e)[i] = e[i - Len(q)]
        BY <2>0, <3>2, PutBeyond
      <4>2. i - Len(q) = 1
        BY <2>0, <4>1
      <4> QED BY <2>1, <4>1, <4>2
    <3> QED BY <3>1, <3>2
  <2>5. Announced(q \o s, y) /\ Announced(q \o e, y)
    BY <2>3, <2>4 DEF Announced
  <2> QED BY <2>2, <2>5 DEF s, e
<1> QED BY <1>1, <1>2

\* A reply, and no disconnect, is what handle_event puts.
LEMMA PutUndisturbed ==
    ASSUME NEW q \in Seq(Items), Undisturbed(q), NEW r \in Turns
    PROVE  Undisturbed(Put(q, <<TextItem(r), CloseItem>>))
<1>1. CASE Closed(q)
  BY <1>1 DEF Put
<1>2. CASE ~Closed(q)
  <2> DEFINE s == <<TextItem(r), CloseItem>>
  <2>0. s \in Seq(Items) /\ Len(s) = 2
    BY ItemFacts
  <2>1. s[1].kind # "error" /\ s[2].kind # "error" /\ Put(q, s) = q \o s
    BY <1>2 DEF TextItem, CloseItem, Put
  <2> HIDE DEF s
  <2>2. ASSUME NEW i \in DOMAIN (q \o s) PROVE (q \o s)[i].kind # "error"
    <3>1. CASE i \in DOMAIN q
      BY <2>0, <3>1 DEF Undisturbed
    <3>2. CASE i \notin DOMAIN q
      <4>1. /\ Len(q) \in Nat /\ i \in Nat /\ Len(q) < i /\ i <= Len(q) + Len(s)
            /\ (q \o s)[i] = s[i - Len(q)]
        BY <2>0, <3>2, PutBeyond
      <4>2. i - Len(q) = 1 \/ i - Len(q) = 2
        BY <2>0, <4>1
      <4> QED BY <2>1, <4>1, <4>2
    <3> QED BY <3>1, <3>2
  <2> QED BY <2>1, <2>2 DEF Undisturbed, s
<1> QED BY <1>1, <1>2

\* put_nowait takes no text away, and an open queue gets the reply.
LEMMA TextsKept ==
    ASSUME NEW q \in Seq(Items), NEW s \in Seq(Items)
    PROVE  /\ TextsOf(q) \subseteq TextsOf(Put(q, s))
           /\ ~Closed(q) => TextsOf(s) \subseteq TextsOf(Put(q, s))
<1>1. \A i \in DOMAIN q : i \in DOMAIN (q \o s) /\ (q \o s)[i] = q[i]
  OBVIOUS
<1>2. \A i \in DOMAIN s : Len(q) + i \in DOMAIN (q \o s) /\ (q \o s)[Len(q) + i] = s[i]
  OBVIOUS
<1> QED BY <1>1, <1>2 DEF TextsOf, Put

\* The stream loop takes one item.
LEMMA TextsTaken ==
    ASSUME NEW q \in Seq(Items), q # <<>>, Head(q).kind = "text"
    PROVE  TextsOf(q) \subseteq TextsOf(Tail(q)) \cup {Head(q).run}
<1> SUFFICES ASSUME NEW i \in DOMAIN q, q[i].kind = "text", i # 1
             PROVE  q[i].run \in TextsOf(Tail(q))
  BY DEF TextsOf
<1>1. i - 1 \in DOMAIN Tail(q) /\ Tail(q)[i - 1] = q[i]
  OBVIOUS
<1> QED BY <1>1 DEF TextsOf

\* A closed queue of a living connection has given or holds a text.
LEMMA ClosedHasText ==
    ASSUME NEW q \in Seq(Items), NEW y \in Seq(Turns), Announced(q, y), Undisturbed(q), Closed(q)
    PROVE  RunsIn(y) \cup TextsOf(q) # {}
<1>1. y # <<>> \/ \E j \in DOMAIN q : q[j].kind = "text"
  BY DEF Announced, Undisturbed, Closed
<1>2. (\E j \in DOMAIN q : q[j].kind = "text") => TextsOf(q) # {}
  BY DEF TextsOf
<1>3. y # <<>> => RunsIn(y) # {}
  BY RunsFacts
<1> QED BY <1>1, <1>2, <1>3

\* The steps that put on a queue, take from one, or hand a reply over.
Event(t) ==
    \E family \in {"chat", "session"}, tagged, final \in BOOLEAN :
        AssistantEvent(t, family, tagged, final)
Delivers(t) ==
    StreamItem(t) \/ RelayResumes(t) \/ RelayReturns(t) \/ Event(t)

\* No other step touches a queue or a reply, or ends a turn as done.
LEMMA QuietStep ==
    ASSUME TypeOK, [Next]_vars, ~Reset, \A t \in Turns : ~Delivers(t)
    PROVE  /\ UNCHANGED <<queue, yielded, finalIn>> /\ link' = link
           /\ \A u \in Turns : outcome'[u] = "done" => outcome[u] = "done"
<1>1. CASE UNCHANGED vars
  BY <1>1 DEF vars, turnVars, capVars, histVars
<1>2. ASSUME NEW t \in Turns, CoroutineStep(t)
      PROVE  /\ UNCHANGED <<queue, yielded, finalIn>> /\ link' = link
             /\ \A u \in Turns : outcome'[u] = "done" => outcome[u] = "done"
  <2>1. CASE EnterInventory(t) \/ LeaveInventory(t) \/ InventorySendFails(t)
    BY <2>1 DEF TypeOK, TurnTypes, EnterInventory, LeaveInventory, InventorySendFails,
       OwnerDecision, capVars, histVars
  <2>2. CASE EnterTurn(t) \/ Subscribed(t)
    BY <2>2 DEF EnterTurn, Subscribed, InstallTurn, capVars, histVars
  <2>3. CASE \/ Created(t) \/ OptInRefused(t) \/ ChatSendSent(t) \/ StreamResumes(t)
             \/ StreamProgress(t)
    BY <2>3 DEF Created, OptInRefused, ChatSendSent, StreamResumes, StreamProgress, capVars,
       histVars
  <2>4. CASE SessionRpcFails(t) \/ ChatSendFails(t) \/ DeadlineReturns(t)
    BY <2>4 DEF TypeOK, TurnTypes, SessionRpcFails, FailEarly, ChatSendFails, DeadlineReturns,
       StreamLeaves, Leave, capVars, histVars
  <2> QED BY <1>2, <2>1, <2>2, <2>3, <2>4 DEF CoroutineStep, Delivers
<1>3. ASSUME NEW t \in Turns, RpcResponse(t) \/ ChatSendAck(t) \/ ChatSendRejected(t) \/ Begin(t)
      PROVE  UNCHANGED <<queue, yielded, finalIn, outcome>> /\ link' = link
  BY <1>3 DEF RpcResponse, ChatSendAck, ChatSendRejected, Begin, capVars, histVars
<1>4. ASSUME NEW t \in Turns, Cancel(t)
      PROVE  /\ UNCHANGED <<queue, yielded, finalIn>> /\ link' = link
             /\ \A u \in Turns : outcome'[u] = "done" => outcome[u] = "done"
  BY <1>4 DEF TypeOK, TurnTypes, Cancel, StreamLeaves, Leave, histVars
<1>5. CASE Background
  BY <1>5 DEF Background, BackgroundAsks, BackgroundAnswered, turnVars, capVars, histVars
<1>6. CASE Finished
  BY <1>1, <1>6 DEF Finished
<1>7. ASSUME NEW t \in Turns, Frame(t)
      PROVE  UNCHANGED <<queue, yielded, finalIn, outcome>> /\ link' = link
  BY <1>3, <1>7 DEF Frame, Delivers, Event
<1>8. ASSUME NEW t \in Turns, StreamHandler(t)
      PROVE  /\ UNCHANGED <<queue, yielded, finalIn>> /\ link' = link
             /\ \A u \in Turns : outcome'[u] = "done" => outcome[u] = "done"
  BY <1>8 DEF TypeOK, TurnTypes, StreamHandler, WriteReturns, WriteFails, OuterCloses, InnerCloses,
     capVars, histVars
<1> QED BY <1>1, <1>2, <1>3, <1>4, <1>5, <1>6, <1>7, <1>8 DEF Next

\* An event puts a reply and its close on the registered queue, or nothing.
LEMMA EventPuts ==
    ASSUME TypeOK, NEW t \in Turns, Event(t)
    PROVE  /\ UNCHANGED <<turnVars, link, ackTagged, robbed>> /\ link = "up"
           /\ \A u \in Turns :
                 queue'[u] = queue[u] \/ queue'[u] = Put(queue[u], <<TextItem(t), CloseItem>>)
<1>1. PICK family \in {"chat", "session"}, tagged \in BOOLEAN, final \in BOOLEAN :
           AssistantEvent(t, family, tagged, final)
  BY DEF Event
<1>2. Key(t) \in Canonicals /\ queueReg[Key(t)] \in TurnOrNone
  BY TurnsAssumption DEF Key, TypeOK, CaptureTypes
<1>3. \/ UNCHANGED queue
      \/ /\ queueReg[Key(t)] # None
         /\ queue' = [queue EXCEPT ![queueReg[Key(t)]] = Put(@, <<TextItem(t), CloseItem>>)]
  BY <1>1 DEF AssistantEvent, Capture
<1>4. ASSUME NEW u \in Turns
      PROVE  queue'[u] = queue[u] \/ queue'[u] = Put(queue[u], <<TextItem(t), CloseItem>>)
  BY <1>2, <1>3 DEF TypeOK, QueueTypes
<1> QED BY <1>1, <1>4 DEF AssistantEvent

\* Every step keeps the clean close behind a reply, and ends as done only a
\* turn that has one.
LEMMA CloseStep ==
    ASSUME TypeOK, ClosedByReply, CleanCloseHasReply, [Next]_vars
    PROVE  ClosedByReply' /\ CleanCloseHasReply'
<1>0. \A u \in Turns : queue[u] \in Seq(Items) /\ Announced(queue[u], yielded[u])
  BY DEF TypeOK, QueueTypes, ClosedByReply
<1>1. ASSUME NEW t \in Turns, StreamItem(t)
      PROVE  ClosedByReply' /\ CleanCloseHasReply'
  <2>1. queue[t] # <<>> /\ queue[t] \in Seq(Items)
    BY <1>0, <1>1 DEF StreamItem
  <2>2. \A u \in Turns \ {t} :
           queue'[u] = queue[u] /\ yielded'[u] = yielded[u] /\ outcome'[u] = outcome[u]
    BY <1>1 DEF TypeOK, TurnTypes, QueueTypes, StreamItem, StreamLeaves, Leave
  <2>3. CASE Head(queue[t]).kind = "text"
    <3>1. /\ yielded'[t] = Append(yielded[t], Head(queue[t]).run) /\ yielded[t] \in Seq(Turns)
          /\ Head(queue[t]) \in Items
      BY <1>1, <2>1, <2>3 DEF TypeOK, TurnTypes, QueueTypes, StreamItem
    <3>2. yielded'[t] # <<>>
      BY <2>3, <3>1, ItemFacts, RunsFacts
    <3>3. Announced(queue'[t], yielded'[t])
      BY <3>2 DEF Announced
    <3>4. ClosedByReply'
      BY <1>0, <2>2, <3>3 DEF ClosedByReply
    <3> QED BY <2>2, <3>2, <3>4 DEF CleanCloseHasReply
  <2>4. CASE Head(queue[t]).kind # "text"
    <3>1. queue'[t] = queue[t] /\ yielded'[t] = yielded[t]
      BY <1>1, <2>4 DEF StreamItem
    <3>2. 1 \in DOMAIN queue[t] /\ queue[t][1] = Head(queue[t])
      BY <2>1
    <3>3. Head(queue[t]).kind = "close" => yielded[t] # <<>>
      <4>1. \A j \in DOMAIN queue[t] : ~(j < 1)
        BY <2>1
      <4> QED BY <1>0, <3>2, <4>1 DEF Announced
    <3>4. outcome'[t] = "done" => Head(queue[t]).kind = "close"
      BY <1>1, <2>4 DEF TypeOK, TurnTypes, StreamItem, StreamLeaves, Leave
    <3> QED BY <1>0, <2>2, <3>1, <3>3, <3>4 DEF ClosedByReply, CleanCloseHasReply
  <2> QED BY <2>3, <2>4
<1>3. ASSUME NEW t \in Turns, RelayResumes(t) \/ RelayReturns(t)
      PROVE  ClosedByReply' /\ CleanCloseHasReply'
  <2>0. \/ UNCHANGED yielded
        \/ \E r : yielded' = [yielded EXCEPT ![t] = <<r>>]
    BY <1>3 DEF RelayResumes, RelayReturns
  <2>1. queue' = queue /\ \A u \in Turns : yielded'[u] = yielded[u] \/ yielded'[u] # <<>>
    <3>1. CASE UNCHANGED yielded
      BY <1>3, <3>1 DEF RelayResumes, RelayReturns
    <3>2. ASSUME NEW r, yielded' = [yielded EXCEPT ![t] = <<r>>]
          PROVE  \A u \in Turns : yielded'[u] = yielded[u] \/ yielded'[u] # <<>>
      <4>1. <<r>> # <<>>
        OBVIOUS
      <4>2. yielded'[t] = <<r>> /\ \A u \in Turns \ {t} : yielded'[u] = yielded[u]
        BY <3>2 DEF TypeOK, QueueTypes
      <4> QED BY <4>1, <4>2
    <3> QED BY <1>3, <2>0, <3>1, <3>2 DEF RelayResumes, RelayReturns
  <2>2. \A u \in Turns : outcome'[u] = "done" => outcome[u] = "done" \/ yielded'[u] # <<>>
    <3>1. \/ UNCHANGED outcome
          \/ outcome' = [outcome EXCEPT ![t] = "noreply"]
          \/ /\ outcome' = [outcome EXCEPT ![t] = "done"]
             /\ \E r : yielded' = [yielded EXCEPT ![t] = <<r>>]
      BY <1>3 DEF RelayResumes, RelayReturns, Leave
    <3>2. CASE UNCHANGED outcome \/ outcome' = [outcome EXCEPT ![t] = "noreply"]
      BY <3>2 DEF TypeOK, TurnTypes
    <3>3. CASE /\ outcome' = [outcome EXCEPT ![t] = "done"]
               /\ \E r : yielded' = [yielded EXCEPT ![t] = <<r>>]
      <4>1. yielded'[t] # <<>> /\ \A u \in Turns \ {t} : outcome'[u] = outcome[u]
        BY <3>3 DEF TypeOK, TurnTypes, QueueTypes
      <4> QED BY <4>1
    <3> QED BY <3>1, <3>2, <3>3
  <2> QED BY <1>0, <2>1, <2>2 DEF ClosedByReply, CleanCloseHasReply, Announced
<1>4. ASSUME NEW t \in Turns, Event(t)
      PROVE  ClosedByReply' /\ CleanCloseHasReply'
  <2>1. /\ yielded' = yielded /\ outcome' = outcome
        /\ \A u \in Turns :
              queue'[u] = queue[u] \/ queue'[u] = Put(queue[u], <<TextItem(t), CloseItem>>)
    BY <1>4, EventPuts DEF turnVars
  <2>2. \A u \in Turns : Announced(Put(queue[u], <<TextItem(t), CloseItem>>), yielded[u])
    BY <1>0, PutAnnounced
  <2>3. ClosedByReply'
    BY <1>0, <2>1, <2>2 DEF ClosedByReply
  <2> QED BY <2>1, <2>3 DEF CleanCloseHasReply
<1>5. CASE Reset
  <2>1. /\ yielded' = yielded /\ outcome' = outcome
        /\ \A u \in Turns : queue'[u] = queue[u] \/ queue'[u] = Put(queue[u], <<ErrorItem>>)
    BY <1>5 DEF Reset, Disconnect
  <2>2. \A u \in Turns : Announced(Put(queue[u], <<ErrorItem>>), yielded[u])
    BY <1>0, PutAnnounced
  <2>3. ClosedByReply'
    BY <1>0, <2>1, <2>2 DEF ClosedByReply
  <2> QED BY <2>1, <2>3 DEF CleanCloseHasReply
<1>6. CASE ~Reset /\ \A t \in Turns : ~Delivers(t)
  BY <1>6, QuietStep DEF ClosedByReply, CleanCloseHasReply
<1> QED BY <1>1, <1>3, <1>4, <1>5, <1>6 DEF Delivers

\* The clean close of a stream, and the end of a relay turn as done, mean that
\* the user was given a reply: a lost connection never looks like a finished
\* turn, also when different raw keys share a canonical session.
THEOREM CleanClose == Spec => []CleanCloseHasReply
<1> DEFINE Inv == TypeOK /\ ClosedByReply /\ CleanCloseHasReply
<1>1. Init => ClosedByReply /\ CleanCloseHasReply
  BY DEF Init, ClosedByReply, Announced, CleanCloseHasReply
<1>2. Init => Inv
  BY <1>1, TypeInit
<1>3. Inv /\ [Next]_vars => Inv'
  BY TypeStep, CloseStep
<1> QED BY <1>2, <1>3, PTL DEF Spec

-----------------------------------------------------------------------------
\* chat.send of t has been acknowledged.
Acked(t) ==
    pc[t] \in {"stream", "write", "wait"} \cup GonePCs \/ (pc[t] = "sent" /\ fut[t] = "ok")
FinalAfterAck == \A t \in finalIn : Acked(t)

\* The own final reply of an unshared stream turn that was not robbed is in its
\* queue or handed over, that of a relay turn is the captured terminal text and its event is set, from
\* the moment it is handled and before the coroutine resumes.
StreamKept ==
    \A t \in (Streaming \cap Unshared \cap finalIn \cap ackTagged) \ robbed :
        t \in RunsIn(yielded[t]) \cup TextsOf(queue[t])
RelayKept ==
    link = "up" =>
        \A t \in (Unshared \cap finalIn \cap ackTagged) \ Streaming : pc[t] \in {"sent", "wait"} =>
            termText[Key(t)] = t /\ t \in replySet
KeptInv == ErrorsAfterReset /\ FinalAfterAck /\ StreamKept /\ RelayKept

\* What an acknowledged turn does next: it gets no second ack, does not go
\* back to an earlier await, and once abandoned or ended stays so.
Settled(t) ==
    /\ Acked(t)'
    /\ pc'[t] \in {"sent", "wait"} => pc[t] \in {"sent", "wait"}
    /\ pc[t] \in {"stream", "write"} \cup GonePCs => pc'[t] \in {"stream", "write"} \cup GonePCs
    /\ pc[t] \in GonePCs => pc'[t] \in GonePCs
    /\ t \in ackTagged' => t \in ackTagged

LEMMA AckedStays ==
    ASSUME TypeOK, [Next]_vars, NEW t \in Turns, Acked(t)
    PROVE  Settled(t)
<1> USE DEF TypeOK, TurnTypes, GatewayTypes, Acked, Settled, GonePCs
<1>1. CASE UNCHANGED vars
  BY <1>1 DEF vars, turnVars, histVars
<1>2. ASSUME NEW u \in Turns, CoroutineStep(u)
      PROVE  Settled(t)
  <2>1. CASE EnterInventory(u) \/ LeaveInventory(u) \/ InventorySendFails(u)
    BY <2>1 DEF EnterInventory, LeaveInventory, InventorySendFails, OwnerDecision, GetLock, Call,
       histVars
  <2>2. CASE EnterTurn(u) \/ Subscribed(u)
    BY <2>2 DEF EnterTurn, Subscribed, InstallTurn, Call, histVars
  <2>3. CASE Created(u) \/ OptInRefused(u) \/ ChatSendSent(u) \/ StreamResumes(u)
    BY <2>3 DEF Created, OptInRefused, Call, ChatSendSent, StreamResumes, histVars
  <2>4. CASE SessionRpcFails(u) \/ ChatSendFails(u) \/ DeadlineReturns(u)
    BY <2>4 DEF SessionRpcFails, FailEarly, ChatSendFails, DeadlineReturns,
       StreamLeaves, Leave, histVars
  <2>5. CASE StreamItem(u) \/ StreamProgress(u)
    BY <2>5 DEF StreamItem, StreamProgress, StreamLeaves, Leave, histVars
  <2>6. CASE RelayResumes(u) \/ RelayReturns(u)
    BY <2>6 DEF RelayResumes, RelayReturns, Leave, histVars
  <2> QED BY <1>2, <2>1, <2>2, <2>3, <2>4, <2>5, <2>6 DEF CoroutineStep
<1>3. ASSUME NEW u \in Turns, RpcResponse(u) \/ ChatSendAck(u) \/ ChatSendRejected(u) \/ Begin(u)
      PROVE  Settled(t)
  BY <1>3 DEF RpcResponse, ChatSendAck, ChatSendRejected, Begin, GetLock, histVars
<1>4. ASSUME NEW u \in Turns, Event(u)
      PROVE  Settled(t)
  BY <1>4, EventPuts DEF turnVars
<1>5. ASSUME NEW u \in Turns, Cancel(u)
      PROVE  Settled(t)
  BY <1>5 DEF Cancel, StreamLeaves, Leave, histVars
<1>6. CASE Background
  BY <1>6 DEF Background, BackgroundAsks, BackgroundAnswered, turnVars, histVars
<1>7. CASE Reset
  BY <1>7 DEF Reset, histVars
<1>8. CASE Finished
  BY <1>1, <1>8 DEF Finished
<1>9. ASSUME NEW u \in Turns, StreamHandler(u)
      PROVE  Settled(t)
  BY <1>9 DEF StreamHandler, WriteReturns, WriteFails, OuterCloses, InnerCloses, histVars
<1> QED BY <1>1, <1>2, <1>3, <1>4, <1>5, <1>6, <1>7, <1>8, <1>9 DEF Next, Frame, Event

\* Only an event and an install change a captured terminal text while the
\* connection lives, and no step unsets a reply event.
LEMMA TermSteps ==
    ASSUME [Next]_vars, ~Reset, \A u \in Turns : ~Event(u)
    PROVE  /\ finalIn' = finalIn /\ link' = link /\ replySet \subseteq replySet' /\ robbed \subseteq robbed'
           /\ \/ termText' = termText
              \/ \E u \in Turns : (EnterTurn(u) \/ Subscribed(u)) /\ InstallTurn(u)
<1>1. CASE UNCHANGED vars
  BY <1>1 DEF vars, capVars, histVars
<1>2. ASSUME NEW u \in Turns, CoroutineStep(u)
      PROVE  /\ finalIn' = finalIn /\ link' = link /\ replySet \subseteq replySet' /\ robbed \subseteq robbed'
             /\ termText' = termText \/ ((EnterTurn(u) \/ Subscribed(u)) /\ InstallTurn(u))
  <2>1. CASE EnterInventory(u) \/ LeaveInventory(u) \/ InventorySendFails(u)
    BY <2>1 DEF EnterInventory, LeaveInventory, InventorySendFails, capVars, histVars
  <2>2. CASE EnterTurn(u) \/ Subscribed(u)
    BY <2>2 DEF EnterTurn, Subscribed, InstallTurn, capVars, histVars
  <2>3. CASE Created(u) \/ OptInRefused(u) \/ ChatSendSent(u) \/ StreamResumes(u)
    BY <2>3 DEF Created, OptInRefused, ChatSendSent, StreamResumes, capVars, histVars
  <2>4. CASE SessionRpcFails(u) \/ ChatSendFails(u) \/ DeadlineReturns(u) \/ StreamProgress(u)
    BY <2>4 DEF SessionRpcFails, FailEarly, ChatSendFails, DeadlineReturns, StreamProgress,
       capVars, histVars
  <2>5. CASE StreamItem(u) \/ RelayResumes(u) \/ RelayReturns(u)
    BY <2>5 DEF StreamItem, RelayResumes, RelayReturns, histVars
  <2> QED BY <1>2, <2>1, <2>2, <2>3, <2>4, <2>5 DEF CoroutineStep
<1>3. ASSUME NEW u \in Turns, RpcResponse(u) \/ ChatSendAck(u) \/ ChatSendRejected(u) \/ Begin(u)
                               \/ Cancel(u)
      PROVE  UNCHANGED <<finalIn, link, replySet, termText, robbed>>
  BY <1>3 DEF RpcResponse, ChatSendAck, ChatSendRejected, Begin, Cancel, capVars, histVars
<1>4. CASE Background
  BY <1>4 DEF Background, BackgroundAsks, BackgroundAnswered, capVars, histVars
<1>5. CASE Finished
  BY <1>1, <1>5 DEF Finished
<1>6. ASSUME NEW u \in Turns, StreamHandler(u)
      PROVE  UNCHANGED <<finalIn, link, replySet, termText>> /\ robbed \subseteq robbed'
  BY <1>6 DEF StreamHandler, WriteReturns, WriteFails, OuterCloses, InnerCloses, capVars, histVars
<1> QED BY <1>1, <1>2, <1>3, <1>4, <1>5, <1>6 DEF Next, Frame, Event

\* The staleness filter lets the own tagged reply of an acknowledged turn
\* through, and the turn's own queue or event is there to take it.
LEMMA OwnFinalCaptured ==
    ASSUME TypeOK, UnsharedOwned, RunIdInv, PathInv, NEW t \in Unshared, t \in ackTagged,
           Acked(t), pc[t] \notin GonePCs, t \notin robbed \cap Streaming,
           NEW family \in {"chat", "session"},
           AssistantEvent(t, family, TRUE, TRUE)
    PROVE  /\ t \in Streaming =>
                 queue'[t] = Put(queue[t], <<TextItem(t), CloseItem>>)
           /\ t \notin Streaming => termText'[Key(t)] = t /\ t \in replySet'
<1> DEFINE c == Key(t)
<1>0. t \in Turns
  BY UnsharedTurns
<1>1. link = "up" /\ c \in Canonicals /\ pc[t] \in CapturePCs /\ t # None
  BY <1>0, TurnsAssumption, SentinelAssumption DEF AssistantEvent, Key, CapturePCs, Acked, GonePCs
<1>2. runId[c] = t
  BY <1>1 DEF RunIdInv, RunIdAt, Acked, GonePCs
<1>3. IF t \in Streaming THEN queueReg[c] = t ELSE replyReg[c] = t
  BY <1>1 DEF UnsharedOwned, Owns
<1>4. Listening(c) /\ ~Stale(t, c, family, TRUE)
  BY <1>1, <1>2, <1>3, SentinelAssumption DEF Listening, Stale
<1>5. Capture(t, c, TRUE, TRUE)
  BY <1>4 DEF AssistantEvent
<1>6. CASE t \in Streaming
  BY <1>0, <1>1, <1>3, <1>5, <1>6 DEF Capture, TypeOK, QueueTypes
<1>7. CASE t \notin Streaming
  BY <1>0, <1>1, <1>3, <1>5, <1>7 DEF Capture, TypeOK, CaptureTypes
<1> QED BY <1>6, <1>7

\* A later event of the session does not replace the captured terminal text of
\* a turn that has not returned it.
LEMMA FinalNotReplaced ==
    ASSUME TypeOK, RunIdInv, NEW t \in Unshared, t \in ackTagged, Acked(t), pc[t] \notin GonePCs,
           termText[Key(t)] = t, NEW u \in Turns, NEW family \in {"chat", "session"},
           NEW tagged \in BOOLEAN, NEW final \in BOOLEAN,
           AssistantEvent(u, family, tagged, final)
    PROVE  termText'[Key(t)] = t
<1>1. link = "up" /\ Key(t) \in Canonicals /\ Key(u) \in Canonicals /\ t # None /\ t # Pending
  BY UnsharedTurns, TurnsAssumption, SentinelAssumption DEF AssistantEvent, Key
<1>2. runId[Key(t)] = t
  BY <1>1 DEF RunIdInv, RunIdAt, Acked, GonePCs
<1>3. CASE Key(u) # Key(t)
  BY <1>1, <1>3 DEF AssistantEvent, Capture, TypeOK, CaptureTypes
<1>4. CASE Key(u) = Key(t) /\ u # t
  <2>1. Stale(u, Key(u), family, tagged)
    BY <1>1, <1>2, <1>4 DEF Stale
  <2> QED BY <2>1 DEF AssistantEvent
<1>5. CASE u = t
  BY <1>1, <1>5 DEF AssistantEvent, Capture, TypeOK, CaptureTypes
<1> QED BY <1>3, <1>4, <1>5

\* An event makes a reply final only for the turn of its own run, once that
\* turn is acknowledged.
LEMMA EventFinals ==
    ASSUME NEW t \in Turns, NEW family, NEW tagged \in BOOLEAN, NEW final \in BOOLEAN,
           AssistantEvent(t, family, tagged, final)
    PROVE  finalIn' = finalIn \/ (/\ finalIn' = finalIn \cup {t} /\ final = TRUE /\ tagged = TRUE
                                 /\ Acked(t) /\ pc[t] \notin GonePCs)
BY DEF AssistantEvent, Acked, GonePCs

\* An event keeps every handled final reply, and the one it brings.
LEMMA EventKeeps ==
    ASSUME ReplyInv, ClosedByReply, KeptInv, NEW u \in Turns, Event(u)
    PROVE  KeptInv'
<1> USE DEF KeptInv
<1>0. TypeOK /\ RunIdInv /\ UnsharedOwned /\ PathInv /\ UnsharedReply
  BY DEF ReplyInv
<1>1. PICK family \in {"chat", "session"}, tagged \in BOOLEAN, final \in BOOLEAN :
           AssistantEvent(u, family, tagged, final)
  BY DEF Event
<1>2. /\ UNCHANGED <<pc, fut, yielded, link, ackTagged, robbed>> /\ link = "up"
      /\ \A t \in Turns :
            queue'[t] = queue[t] \/ queue'[t] = Put(queue[t], <<TextItem(u), CloseItem>>)
  BY <1>0, EventPuts DEF turnVars
<1>3. \/ finalIn' = finalIn
      \/ /\ finalIn' = finalIn \cup {u} /\ AssistantEvent(u, family, TRUE, TRUE)
         /\ Acked(u) /\ pc[u] \notin GonePCs
  BY <1>1, EventFinals
<1>4. \A t \in Turns : queue[t] \in Seq(Items)
  BY <1>0 DEF TypeOK, QueueTypes
<1>5. <<TextItem(u), CloseItem>> \in Seq(Items)
  BY ItemFacts
<1>6. ErrorsAfterReset'
  BY <1>2, <1>4, PutUndisturbed DEF ErrorsAfterReset
<1>7. FinalAfterAck'
  BY <1>2, <1>3 DEF FinalAfterAck, Acked
<1>8. ASSUME NEW t \in Streaming, t \in Unshared, t \in finalIn', t \in ackTagged,
             t \notin robbed
      PROVE  t \in RunsIn(yielded[t]) \cup TextsOf(queue'[t])
  <2>0. t \in Turns
    BY <1>8, TurnsAssumption
  <2>1. TextsOf(queue[t]) \subseteq TextsOf(queue'[t])
    BY <1>2, <1>4, <1>5, <2>0, TextsKept
  <2>2. CASE t \in finalIn
    BY <1>8, <2>1, <2>2 DEF StreamKept
  <2>3. CASE t \notin finalIn
    <3>1. t = u /\ AssistantEvent(t, family, TRUE, TRUE) /\ Acked(t) /\ pc[t] \notin GonePCs
      BY <1>3, <1>8, <2>3
    <3>2. queue'[t] = Put(queue[t], <<TextItem(t), CloseItem>>)
      BY <1>0, <1>8, <2>0, <3>1, OwnFinalCaptured
    <3>3. CASE ~Closed(queue[t])
      <4>1. TextsOf(<<TextItem(t), CloseItem>>) \subseteq TextsOf(queue'[t])
        BY <1>4, <1>5, <2>0, <3>1, <3>2, <3>3, TextsKept
      <4>2. TextsOf(<<TextItem(t), CloseItem>>) = {t}
        BY <2>0, TextsOfItems
      <4> QED BY <4>1, <4>2
    <3>4. CASE Closed(queue[t])
      <4>1. RunsIn(yielded[t]) \cup TextsOf(queue[t]) # {}
        BY <1>0, <1>2, <1>4, <2>0, <3>4, ClosedHasText DEF ClosedByReply, ErrorsAfterReset,
           TypeOK, TurnTypes, QueueTypes
      <4>2. RunsIn(yielded[t]) \cup TextsOf(queue[t]) \subseteq {t}
        BY <1>0, <1>8, <3>1 DEF UnsharedReply
      <4> QED BY <2>1, <4>1, <4>2
    <3> QED BY <3>3, <3>4
  <2> QED BY <2>2, <2>3
<1>9. StreamKept'
  BY <1>2, <1>8 DEF StreamKept
<1>10. ASSUME NEW t \in Unshared, t \in finalIn', t \in ackTagged, t \notin Streaming,
              pc[t] \in {"sent", "wait"}
       PROVE  termText'[Key(t)] = t /\ t \in replySet'
  <2>0. t \in Turns
    BY UnsharedTurns
  <2>1. CASE t \in finalIn
    <3>1. termText[Key(t)] = t /\ t \in replySet /\ Acked(t) /\ pc[t] \notin GonePCs
      BY <1>2, <1>10, <2>1 DEF RelayKept, FinalAfterAck, GonePCs
    <3>2. replySet \subseteq replySet'
      BY <1>1 DEF AssistantEvent, Capture
    <3> QED BY <1>0, <1>1, <1>10, <2>0, <3>1, <3>2, FinalNotReplaced
  <2>2. CASE t \notin finalIn
    <3>1. t = u /\ AssistantEvent(t, family, TRUE, TRUE) /\ Acked(t) /\ pc[t] \notin GonePCs
      BY <1>3, <1>10, <2>2
    <3> QED BY <1>0, <1>10, <2>0, <3>1, OwnFinalCaptured
  <2> QED BY <2>1, <2>2
<1>11. RelayKept'
  BY <1>2, <1>10 DEF RelayKept, Key
<1> QED BY <1>6, <1>7, <1>9, <1>11

\* Every other step keeps the replies that were handled.
LEMMA KeptStep ==
    ASSUME ReplyInv, UnsharedExclusive', ClosedByReply, KeptInv, [Next]_vars
    PROVE  KeptInv'
<1> USE DEF KeptInv
<1> DEFINE Texts(t) == RunsIn(yielded[t]) \cup TextsOf(queue[t])
<1>0. /\ TypeOK /\ \A t \in Turns : queue[t] \in Seq(Items)
      /\ \A t \in finalIn : t \in Turns /\ Settled(t)
  BY AckedStays DEF ReplyInv, TypeOK, QueueTypes, GatewayTypes, FinalAfterAck
<1>1. CASE \E u \in Turns : Event(u)
  BY <1>1, EventKeeps
<1>2. CASE Reset
  <2>1. /\ link' = "down" /\ UNCHANGED <<yielded, finalIn, robbed>>
        /\ \A t \in Turns : queue'[t] = queue[t] \/ queue'[t] = Put(queue[t], <<ErrorItem>>)
    BY <1>2 DEF Reset, Disconnect, histVars
  <2>2. \A t \in Turns : TextsOf(queue[t]) \subseteq TextsOf(queue'[t])
    <3>1. <<ErrorItem>> \in Seq(Items)
      BY ItemFacts
    <3> QED BY <1>0, <2>1, <3>1, TextsKept
  <2>3. FinalAfterAck'
    BY <1>0, <2>1 DEF FinalAfterAck, Settled
  <2>4. StreamKept'
    BY <1>0, <2>1, <2>2 DEF StreamKept, Settled
  <2> QED BY <2>1, <2>3, <2>4 DEF ErrorsAfterReset, RelayKept
<1>3. CASE ~Reset /\ \A u \in Turns : ~Event(u)
  <2>1. /\ finalIn' = finalIn /\ link' = link /\ replySet \subseteq replySet' /\ robbed \subseteq robbed'
        /\ \/ termText' = termText
           \/ \E u \in Turns : (EnterTurn(u) \/ Subscribed(u)) /\ InstallTurn(u)
    BY <1>3, TermSteps
  <2>2. ASSUME NEW t \in Turns
        PROVE  /\ t \in Streaming => Texts(t) \subseteq Texts(t)'
               /\ Undisturbed(queue[t]) => Undisturbed(queue'[t])
    <3>1. CASE UNCHANGED <<queue, yielded>>
      BY <3>1
    <3>2. ASSUME NEW u \in Turns, StreamItem(u)
          PROVE  /\ Texts(t) \subseteq Texts(t)'
                 /\ Undisturbed(queue[t]) => Undisturbed(queue'[t])
      <4>1. \/ queue'[t] = queue[t] /\ yielded'[t] = yielded[t]
            \/ /\ queue[t] # <<>> /\ Head(queue[t]).kind = "text"
               /\ queue'[t] = Tail(queue[t])
               /\ yielded'[t] = Append(yielded[t], Head(queue[t]).run)
        BY <1>0, <3>2 DEF StreamItem, TypeOK, TurnTypes, QueueTypes
      <4>2. CASE /\ queue[t] # <<>> /\ Head(queue[t]).kind = "text"
                 /\ queue'[t] = Tail(queue[t])
                 /\ yielded'[t] = Append(yielded[t], Head(queue[t]).run)
        <5>1. TextsOf(queue[t]) \subseteq TextsOf(queue'[t]) \cup {Head(queue[t]).run}
          BY <1>0, <4>2, TextsTaken
        <5>2. \A i \in DOMAIN Tail(queue[t]) :
                 i + 1 \in DOMAIN queue[t] /\ Tail(queue[t])[i] = queue[t][i + 1]
          BY <1>0, <4>2
        <5>3. Head(queue[t]) \in Items /\ Head(queue[t]).run \in Turns /\ yielded[t] \in Seq(Turns)
          BY <1>0, <4>2, ItemFacts DEF TypeOK, TurnTypes, QueueTypes
        <5>4. RunsIn(yielded'[t]) = RunsIn(yielded[t]) \cup {Head(queue[t]).run}
          BY <4>2, <5>3, RunsFacts
        <5> QED BY <4>2, <5>1, <5>2, <5>4 DEF Undisturbed
      <4> QED BY <4>1, <4>2
    <3>4. ASSUME NEW u \in Turns, RelayResumes(u) \/ RelayReturns(u)
          PROVE  queue' = queue /\ (t \in Streaming => yielded'[t] = yielded[t])
      BY <1>0, <3>4 DEF RelayResumes, RelayReturns, TypeOK, TurnTypes, QueueTypes, ReplyInv, PathInv
    <3>5. CASE \A u \in Turns : ~Delivers(u)
      BY <1>0, <1>3, <3>1, <3>5, QuietStep
    <3> QED BY <1>3, <3>2, <3>4, <3>5 DEF Delivers
  <2>3. ErrorsAfterReset'
    BY <2>1, <2>2 DEF ErrorsAfterReset
  <2>4. FinalAfterAck'
    BY <1>0, <2>1 DEF FinalAfterAck, Settled
  <2>5. StreamKept'
    BY <1>0, <2>1, <2>2 DEF StreamKept, Settled
  <2>6. ASSUME link = "up", NEW t \in finalIn, t \in Unshared, t \in ackTagged', t \notin Streaming,
               pc'[t] \in {"sent", "wait"}
        PROVE  termText'[Key(t)] = t /\ t \in replySet'
    <3>1. termText[Key(t)] = t /\ t \in replySet /\ t \in Turns /\ pc[t] \in {"sent", "wait"}
      BY <1>0, <2>6 DEF RelayKept, Settled
    <3>2. ASSUME NEW u \in Turns, EnterTurn(u) \/ Subscribed(u), InstallTurn(u)
          PROVE  termText'[Key(t)] = termText[Key(t)]
      <4>1. pc'[u] = "sending" /\ u # t
        BY <1>0, <3>1, <3>2 DEF EnterTurn, Subscribed, InstallTurn, TypeOK, TurnTypes
      <4>2. Key(u) # Key(t)
        BY <2>1, <2>6, <3>1, <4>1 DEF UnsharedExclusive, LockedPCs, Key
      <4> QED BY <1>0, <3>2, <4>2 DEF InstallTurn, TypeOK, CaptureTypes
    <3> QED BY <2>1, <3>1, <3>2
  <2>7. RelayKept'
    BY <2>1, <2>6 DEF RelayKept, Key
  <2> QED BY <2>3, <2>4, <2>5, <2>7
<1> QED BY <1>1, <1>2, <1>3

\* An unshared turn's own final reply, handled after an ack that carried the run id, is
\* kept until the turn ends: in the window in which the coroutine has not
\* resumed, behind other frames of the session, and for a stream also through
\* the loss of the connection.  Only a stream whose queue an abandoned stream
\* of the session popped is excepted.
THEOREM NothingLostUnshared == Spec => []UnsharedNoLoss
<1> DEFINE Inv == ReplyInv /\ ClosedByReply /\ CleanCloseHasReply /\ KeptInv
<1>1. Init => ClosedByReply /\ CleanCloseHasReply /\ KeptInv
  BY DEF Init, ClosedByReply, Announced, CleanCloseHasReply, KeptInv, ErrorsAfterReset,
     Undisturbed, FinalAfterAck, StreamKept, RelayKept
<1>2. /\ ReplyInv /\ ReplyInv' /\ ClosedByReply /\ CleanCloseHasReply /\ KeptInv /\ [Next]_vars
      => (ClosedByReply /\ CleanCloseHasReply /\ KeptInv)'
  <2> SUFFICES ASSUME ReplyInv, ReplyInv', ClosedByReply, CleanCloseHasReply, KeptInv, [Next]_vars
               PROVE  (ClosedByReply /\ CleanCloseHasReply /\ KeptInv)'
    OBVIOUS
  <2>1. UnsharedExclusive'
    BY ExclusionNext DEF ReplyInv
  <2>2. ClosedByReply' /\ CleanCloseHasReply'
    BY CloseStep DEF ReplyInv
  <2>3. KeptInv'
    BY <2>1, KeptStep
  <2> QED BY <2>2, <2>3
<1>3. KeptInv => UnsharedNoLoss
  BY TurnsAssumption DEF KeptInv, StreamKept, RelayKept, UnsharedNoLoss
<1> QED BY <1>1, <1>2, <1>3, ReplyInvariant, PTL DEF Spec

\* When all canonical keys are distinct, no turn's own final reply, handled
\* after an ack that carried the run id, is lost before the turn ends, unless
\* an abandoned stream of the session popped the turn's queue.
THEOREM NothingLost ==
    ASSUME KeysDistinct
    PROVE  Spec => []NoLostReply
<1>1. TypeOK /\ UnsharedNoLoss => NoLostReply
  BY AllUnshared DEF TypeOK, GatewayTypes, UnsharedNoLoss, NoLostReply
<1> QED BY <1>1, TypeCorrect, NothingLostUnshared, PTL

-----------------------------------------------------------------------------
(***************************************************************************)
(* The relay implements RelayService.                                      *)
(***************************************************************************)

\* All a queue can hold beside what its consumer was given: handle_event puts
\* the reply with its close, reset puts an error, and only the first of them
\* counts.
OneReply(q, y) ==
    \/ q \in {<<>>, <<ErrorItem>>} /\ y = <<>>
    \/ \E r \in Turns :
          \/ q = <<TextItem(r), CloseItem>> /\ y = <<>>
          \/ q = <<CloseItem>> /\ y = <<r>>
Shaped ==
    \A t \in Turns :
        /\ pc[t] \notin GonePCs => OneReply(queue[t], yielded[t])
        /\ yielded[t] # <<>> => pc[t] \in {"stream", "write"} \cup GonePCs

\* What is put keeps a queue in one of these shapes.
LEMMA OneReplyPut ==
    ASSUME NEW q, NEW y, OneReply(q, y), NEW r \in Turns
    PROVE  /\ OneReply(Put(q, <<TextItem(r), CloseItem>>), y)
           /\ OneReply(Put(q, <<ErrorItem>>), y)
<1>1. CASE q = <<>>
  <2>1. ~Closed(q)
    BY <1>1 DEF Closed
  <2>2. Put(q, <<TextItem(r), CloseItem>>) = <<TextItem(r), CloseItem>>
    BY <1>1, <2>1 DEF Put
  <2>3. Put(q, <<ErrorItem>>) = <<ErrorItem>>
    BY <1>1, <2>1 DEF Put
  <2>4. y = <<>>
    BY <1>1 DEF OneReply
  <2> QED BY <2>2, <2>3, <2>4 DEF OneReply
<1>2. CASE q # <<>>
  <2>1. Closed(q)
    BY <1>2 DEF OneReply, Closed, CloseItem, ErrorItem
  <2> QED BY <2>1 DEF Put
<1> QED BY <1>1, <1>2

\* What the stream loop takes: the reply first, and the close after it.
LEMMA OneReplyTaken ==
    ASSUME NEW q, NEW y, OneReply(q, y), q # <<>>
    PROVE  /\ Head(q).kind = "text" =>
                /\ y = <<>> /\ Head(q).run \in Turns
                /\ OneReply(Tail(q), <<Head(q).run>>)
           /\ Head(q).kind = "close" => y # <<>>
<1>1. CASE q = <<ErrorItem>>
  BY <1>1 DEF ErrorItem
<1>2. ASSUME NEW r \in Turns, q = <<TextItem(r), CloseItem>>, y = <<>>
      PROVE  /\ Head(q).kind = "text" /\ Head(q).run = r
             /\ Tail(q) = <<CloseItem>>
  BY <1>2 DEF TextItem
<1>3. ASSUME NEW r \in Turns, q = <<CloseItem>>, y = <<r>>
      PROVE  Head(q).kind = "close" /\ y # <<>>
  BY <1>3 DEF CloseItem
<1> QED BY <1>1, <1>2, <1>3 DEF OneReply

\* Every step leaves the queue of an open turn in one of these shapes.
LEMMA ShapeStep ==
    ASSUME TypeOK, PathInv, NothingStranded, Shaped, [Next]_vars
    PROVE  Shaped'
<1>0. \A t \in Turns :
         /\ pc[t] \in {"stream", "write"} \cup GonePCs => pc'[t] \in {"stream", "write"} \cup GonePCs
         /\ pc[t] \in GonePCs => pc'[t] \in GonePCs
  BY AckedStays DEF Acked, Settled
<1>1. ASSUME NEW t \in Turns, StreamItem(t)
      PROVE  Shaped'
  <2>1. \A u \in Turns \ {t} : queue'[u] = queue[u] /\ yielded'[u] = yielded[u]
    BY <1>1 DEF TypeOK, TurnTypes, QueueTypes, StreamItem
  <2>2. pc[t] = "stream" /\ queue[t] # <<>> /\ OneReply(queue[t], yielded[t])
    BY <1>1 DEF StreamItem, Shaped, GonePCs
  <2>3. \/ queue'[t] = queue[t] /\ yielded'[t] = yielded[t]
        \/ /\ Head(queue[t]).kind = "text"
           /\ queue'[t] = Tail(queue[t]) /\ yielded'[t] = Append(yielded[t], Head(queue[t]).run)
    BY <1>1 DEF TypeOK, TurnTypes, QueueTypes, StreamItem
  <2>4. OneReply(queue'[t], yielded'[t])
    <3>1. CASE Head(queue[t]).kind = "text" /\ queue'[t] = Tail(queue[t])
               /\ yielded'[t] = Append(yielded[t], Head(queue[t]).run)
      <4>1. yielded[t] = <<>> /\ OneReply(Tail(queue[t]), <<Head(queue[t]).run>>)
        BY <2>2, <3>1, OneReplyTaken
      <4>2. yielded'[t] = <<Head(queue[t]).run>>
        BY <3>1, <4>1
      <4> QED BY <3>1, <4>1, <4>2
    <3> QED BY <2>2, <2>3, <3>1
  <2> QED BY <1>0, <2>1, <2>2, <2>4 DEF Shaped
<1>3. ASSUME NEW t \in Turns, RelayResumes(t) \/ RelayReturns(t)
      PROVE  Shaped'
  <2>1. /\ queue' = queue /\ \A u \in Turns \ {t} : yielded'[u] = yielded[u]
        /\ pc'[t] \in GonePCs \/ yielded'[t] = yielded[t]
        /\ pc[t] \in {"sent", "wait"}
    BY <1>3 DEF TypeOK, TurnTypes, QueueTypes, RelayResumes, RelayReturns, Leave, GonePCs
  <2>2. yielded[t] = <<>> /\ OneReply(queue[t], yielded[t])
    BY <2>1 DEF Shaped, GonePCs
  <2> QED BY <1>0, <2>1, <2>2 DEF Shaped
<1>4. ASSUME NEW t \in Turns, Event(t)
      PROVE  Shaped'
  <2>1. /\ pc' = pc /\ yielded' = yielded
        /\ \A u \in Turns :
              queue'[u] = queue[u] \/ queue'[u] = Put(queue[u], <<TextItem(t), CloseItem>>)
    BY <1>4, EventPuts DEF turnVars
  <2>2. \A u \in Turns : pc[u] \notin GonePCs => OneReply(queue'[u], yielded[u])
    BY <2>1, OneReplyPut DEF Shaped
  <2> QED BY <2>1, <2>2 DEF Shaped
<1>5. CASE Reset
  <2>1. /\ pc' = pc /\ yielded' = yielded
        /\ \A u \in Turns : queue'[u] = queue[u] \/ queue'[u] = Put(queue[u], <<ErrorItem>>)
    BY <1>5 DEF Reset, Disconnect
  <2>2. \A u \in Turns : pc[u] \notin GonePCs => OneReply(queue'[u], yielded[u])
    BY <2>1, OneReplyPut DEF Shaped
  <2> QED BY <2>1, <2>2 DEF Shaped
<1>6. CASE ~Reset /\ \A t \in Turns : ~Delivers(t)
  <2>1. UNCHANGED <<queue, yielded>>
    BY <1>6, QuietStep
  <2> QED BY <1>0, <2>1 DEF Shaped
<1> QED BY <1>1, <1>3, <1>4, <1>5, <1>6 DEF Delivers

\* A step of t moves the phase of t.
LEMMA PhaseMoves ==
    ASSUME NEW t \in Turns, NEW p, pc' = [pc EXCEPT ![t] = p], TypeOK
    PROVE  Phase' = [Phase EXCEPT ![t] = PhaseOf(p)]
BY DEF Phase, TypeOK, TurnTypes

\* A step between two awaits of one call is none of the caller's business, nor
\* is one of the finalisers after it has gone.
LEMMA SilentRefines ==
    ASSUME TypeOK, NEW t \in Turns, NEW p, pc' = [pc EXCEPT ![t] = p],
           PhaseOf(p) = PhaseOf(pc[t]), UNCHANGED <<outcome, yielded, ackTagged>>
    PROVE  UNCHANGED Service!vars
<1>1. Phase' = Phase
  BY PhaseMoves DEF Phase
<1> QED BY <1>1 DEF Service!vars

\* A call that raises, or is cancelled or abandoned, or runs into its deadline
\* ends with what its caller has.
LEMMA FailureRefines ==
    ASSUME TypeOK, NEW t \in Turns, NEW as \in Service!Ends \ {"done"},
           NEW p \in {"ended", "dropped"},
           pc[t] \notin {"idle"} \cup GonePCs, pc' = [pc EXCEPT ![t] = p],
           outcome' = [outcome EXCEPT ![t] = as], UNCHANGED <<yielded, ackTagged>>
    PROVE  Service!Next
<1>1. Phase[t] = "open" /\ Phase' = [Phase EXCEPT ![t] = "ended"]
  BY PhaseMoves DEF Phase, PhaseOf, GonePCs
<1>2. Service!End(t, as)
  BY <1>1 DEF Service!End
<1> QED BY <1>2 DEF Service!Next

\* A reply is the own run's if the run is known and the session unshared.
LEMMA GiveRefines ==
    ASSUME UnsharedReply', NEW t \in Turns, NEW r \in Turns, yielded[t] = <<>>, TypeOK,
           yielded' = [yielded EXCEPT ![t] = <<r>>], UNCHANGED ackTagged
    PROVE  Service!Give(t, r)
<1>1. yielded'[t] = <<r>>
  BY DEF TypeOK, TurnTypes, QueueTypes
<1>2. RunsIn(yielded'[t]) = {r}
  BY <1>1, RunsFacts
<1>3. t \in Streaming \cap Unshared \cap ackTagged => r = t
  BY <1>2 DEF UnsharedReply
<1> QED BY <1>3 DEF Service!Give

\* The stream loop yields the reply, ends on its close, or raises the error.
LEMMA StreamItemRefines ==
    ASSUME TypeOK, PathInv, Shaped, UnsharedReply', NEW t \in Turns, StreamItem(t)
    PROVE  Service!Next
<1>0. /\ pc[t] = "stream" /\ queue[t] # <<>> /\ OneReply(queue[t], yielded[t])
      /\ t \in Streaming /\ ackTagged' = ackTagged /\ Phase[t] = "open"
  BY DEF StreamItem, Shaped, PathInv, histVars, Phase, PhaseOf, GonePCs
<1>1. CASE Head(queue[t]).kind = "text"
  <2> DEFINE r == Head(queue[t]).run
  <2>1. /\ yielded' = [yielded EXCEPT ![t] = Append(@, r)]
        /\ pc' = [pc EXCEPT ![t] = "write"] /\ UNCHANGED outcome
    BY <1>1 DEF StreamItem
  <2>2. yielded[t] = <<>> /\ r \in Turns
    <3>1. Head(queue[t]) \in Items
      BY <1>0 DEF TypeOK, QueueTypes
    <3>2. r \in Turns
      BY <1>1, <3>1, ItemFacts
    <3>3. OneReply(queue[t], yielded[t]) /\ queue[t] # <<>>
      BY <1>0
    <3>4. yielded[t] = <<>>
      BY <1>1, <3>3, OneReplyTaken, Zenon
    <3> QED BY <3>2, <3>4
  <2>3. yielded' = [yielded EXCEPT ![t] = <<r>>]
    <3>1. Append(yielded[t], r) = <<r>>
      BY <2>2
    <3> QED BY <2>1, <3>1
  <2>4. Service!Give(t, r)
    BY <1>0, <2>2, <2>3, GiveRefines
  <2>5. UNCHANGED Phase
    BY <1>0, <2>1, PhaseMoves DEF Phase, PhaseOf, GonePCs
  <2>6. Service!Yield(t)
    BY <1>0, <2>1, <2>2, <2>4, <2>5 DEF Service!Yield
  <2> QED BY <2>6 DEF Service!Next
<1>2. CASE Head(queue[t]).kind = "close"
  <2>1. /\ pc' = [pc EXCEPT ![t] = "ended"] /\ outcome' = [outcome EXCEPT ![t] = "done"]
        /\ UNCHANGED yielded
    BY <1>2 DEF StreamItem, StreamLeaves, Leave
  <2>2. yielded'[t] # <<>>
    BY <1>0, <1>2, <2>1, OneReplyTaken
  <2>3. Phase' = [Phase EXCEPT ![t] = "ended"]
    BY <2>1, PhaseMoves DEF PhaseOf, GonePCs
  <2>4. Service!End(t, "done")
    BY <1>0, <2>1, <2>2, <2>3 DEF Service!End
  <2> QED BY <2>4 DEF Service!Next, Service!Ends
<1>3. CASE Head(queue[t]).kind = "error"
  <2>1. /\ pc' = [pc EXCEPT ![t] = "ended"] /\ outcome' = [outcome EXCEPT ![t] = "error"]
        /\ UNCHANGED yielded
    BY <1>3 DEF StreamItem, StreamLeaves, Leave
  <2> QED BY <1>0, <2>1, FailureRefines DEF Service!Ends, GonePCs
<1> QED BY <1>1, <1>2, <1>3 DEF StreamItem

\* A relay turn returns the captured reply, or raises.
LEMMA RelayRefines ==
    ASSUME TypeOK, PathInv, Shaped, UnsharedReply', NEW t \in Turns,
           RelayResumes(t) \/ RelayReturns(t)
    PROVE  [Service!Next]_(Service!vars)
<1>0. /\ pc[t] \in {"sent", "wait"} /\ ackTagged' = ackTagged
      /\ Key(t) \in Canonicals
  BY TurnsAssumption DEF RelayResumes, RelayReturns, histVars, Key
<1>1. yielded[t] = <<>> /\ Phase[t] = "open" /\ t \notin Streaming
  BY <1>0 DEF Shaped, Phase, PhaseOf, GonePCs, PathInv, RelayResumes, RelayReturns
<1>2. ASSUME NEW r \in Turns, pc' = [pc EXCEPT ![t] = "ended"],
             outcome' = [outcome EXCEPT ![t] = "done"], yielded' = [yielded EXCEPT ![t] = <<r>>]
      PROVE  Service!Next
  <2>1. Service!Give(t, r)
    BY <1>0, <1>1, <1>2, GiveRefines
  <2>2. Phase' = [Phase EXCEPT ![t] = "ended"]
    BY <1>2, PhaseMoves DEF PhaseOf, GonePCs
  <2>3. yielded'[t] = <<r>>
    BY <1>2 DEF TypeOK, TurnTypes, QueueTypes
  <2>4. Service!End(t, "done")
    BY <1>0, <1>1, <1>2, <2>1, <2>2, <2>3 DEF Service!End
  <2> QED BY <2>4 DEF Service!Next, Service!Ends
<1>3. CASE RelayResumes(t)
  <2>1. CASE termText[Key(t)] # None
    BY <1>0, <1>2, <1>3, <2>1 DEF RelayResumes, Leave, TypeOK, CaptureTypes, TurnOrNone
  <2>2. CASE termText[Key(t)] = None
    <3>1. pc' = [pc EXCEPT ![t] = "wait"] /\ UNCHANGED <<outcome, yielded>>
      BY <1>3, <2>2 DEF RelayResumes
    <3> QED BY <1>0, <3>1, SilentRefines DEF PhaseOf, GonePCs
  <2> QED BY <2>1, <2>2
<1>4. CASE RelayReturns(t)
  <2> DEFINE r == IF termText[Key(t)] # None THEN termText[Key(t)] ELSE lastText[Key(t)]
  <2>0. pc' = [pc EXCEPT ![t] = "ended"] /\ r \in TurnOrNone
    BY <1>0, <1>4 DEF RelayReturns, Leave, TypeOK, CaptureTypes
  <2>1. CASE r # None
    <3>1. r \in Turns /\ yielded' = [yielded EXCEPT ![t] = <<r>>]
          /\ outcome' = [outcome EXCEPT ![t] = "done"]
      BY <1>4, <2>0, <2>1 DEF RelayReturns, Leave, TurnOrNone
    <3> QED BY <1>2, <2>0, <3>1
  <2>2. CASE r = None
    <3>1. outcome' = [outcome EXCEPT ![t] = "noreply"] /\ UNCHANGED yielded
      BY <1>4, <2>2 DEF RelayReturns, Leave
    <3> QED BY <1>0, <2>0, <3>1, FailureRefines DEF Service!Ends, GonePCs
  <2> QED BY <2>1, <2>2
<1> QED BY <1>3, <1>4

\* The inventory steps of a turn end it, as refused or on an error, or are silent.
LEMMA OwnerRefines ==
    ASSUME TypeOK, NEW t \in Turns,
           EnterInventory(t) \/ LeaveInventory(t) \/ InventorySendFails(t)
    PROVE  [Service!Next]_(Service!vars)
<1>0. pc[t] \in {"owner", "agents"} /\ UNCHANGED <<yielded, ackTagged>>
  BY DEF EnterInventory, LeaveInventory, InventorySendFails, histVars
<1>1. \/ /\ pc' = [pc EXCEPT ![t] = "ended"]
         /\ outcome' = [outcome EXCEPT ![t] = "refused"]
      \/ /\ pc' = [pc EXCEPT ![t] = "ended"]
         /\ outcome' = [outcome EXCEPT ![t] = "error"]
      \/ /\ pc' = [pc EXCEPT ![t] = "lock"] \/ pc' = [pc EXCEPT ![t] = "agents"]
         /\ UNCHANGED outcome
  BY DEF EnterInventory, LeaveInventory, InventorySendFails, OwnerDecision, GetLock, Call
<1>2. {"refused", "error"} \subseteq Service!Ends \ {"done"}
  BY DEF Service!Ends
<1> QED BY <1>0, <1>1, <1>2, FailureRefines, SilentRefines DEF PhaseOf, GonePCs

\* The awaits up to the ack, the resumption after it, a yield without text and
\* the return of a write are silent.
LEMMA AwaitRefines ==
    ASSUME TypeOK, NEW t \in Turns,
           \/ EnterTurn(t) \/ Created(t) \/ OptInRefused(t) \/ Subscribed(t)
           \/ ChatSendSent(t) \/ StreamResumes(t) \/ StreamProgress(t) \/ WriteReturns(t)
    PROVE  UNCHANGED Service!vars
<1>1. pc[t] \notin {"idle"} \cup GonePCs /\ UNCHANGED <<outcome, yielded, ackTagged>>
  BY DEF EnterTurn, Created, OptInRefused, Subscribed, ChatSendSent, StreamResumes, StreamProgress,
     WriteReturns, histVars, GonePCs
<1>2. \/ pc' = [pc EXCEPT ![t] = "sending"] \/ pc' = [pc EXCEPT ![t] = "create"]
      \/ pc' = [pc EXCEPT ![t] = "subscribe"] \/ pc' = [pc EXCEPT ![t] = "resubscribe"]
      \/ pc' = [pc EXCEPT ![t] = "sent"] \/ pc' = [pc EXCEPT ![t] = "stream"]
      \/ pc' = [pc EXCEPT ![t] = "write"]
  BY DEF EnterTurn, Created, OptInRefused, Subscribed, ChatSendSent, StreamResumes, StreamProgress,
     WriteReturns, InstallTurn, Call
<1> QED BY <1>1, <1>2, SilentRefines DEF PhaseOf, GonePCs

\* So are the finalisers of an abandoned stream.
LEMMA CloseRefines ==
    ASSUME TypeOK, NEW t \in Turns, OuterCloses(t) \/ InnerCloses(t)
    PROVE  UNCHANGED Service!vars
<1>1. /\ pc[t] \in GonePCs /\ UNCHANGED <<outcome, yielded, ackTagged>>
      /\ pc' = [pc EXCEPT ![t] = "closing"] \/ pc' = [pc EXCEPT ![t] = "ended"]
  BY DEF OuterCloses, InnerCloses, histVars, GonePCs
<1> QED BY <1>1, SilentRefines DEF PhaseOf, GonePCs

\* Failures, the deadline, cancellation and a failed write end the call.
LEMMA LeaveRefines ==
    ASSUME TypeOK, NEW t \in Turns,
           SessionRpcFails(t) \/ ChatSendFails(t) \/ DeadlineReturns(t) \/ Cancel(t) \/ WriteFails(t)
    PROVE  Service!Next
<1>1. pc[t] \notin {"idle"} \cup GonePCs /\ UNCHANGED <<yielded, ackTagged>>
  BY DEF SessionRpcFails, FailEarly, ChatSendFails, DeadlineReturns, Cancel, WriteFails,
     histVars, GonePCs
<1>2. \E p \in {"ended", "dropped"} : pc' = [pc EXCEPT ![t] = p]
  BY DEF SessionRpcFails, FailEarly, ChatSendFails, DeadlineReturns, Cancel, WriteFails,
     StreamLeaves, Leave
<1>3. \E as \in {"error", "deadline", "cancelled"} : outcome' = [outcome EXCEPT ![t] = as]
  BY DEF SessionRpcFails, FailEarly, ChatSendFails, DeadlineReturns, Cancel, WriteFails,
     StreamLeaves, Leave
<1>4. {"error", "deadline", "cancelled"} \subseteq Service!Ends \ {"done"}
  BY DEF Service!Ends
<1> QED BY <1>1, <1>2, <1>3, <1>4, FailureRefines

\* The ack that carries a run id identifies the run; other frames are silent.
LEMMA FrameRefines ==
    ASSUME TypeOK, Shaped, NEW t \in Turns, Frame(t)
    PROVE  [Service!Next]_(Service!vars)
<1>1. UNCHANGED <<pc, outcome, yielded>>
  <2>1. CASE Event(t)
    BY <2>1, EventPuts DEF turnVars
  <2>2. CASE RpcResponse(t) \/ ChatSendAck(t) \/ ChatSendRejected(t)
    BY <2>2 DEF RpcResponse, ChatSendAck, ChatSendRejected
  <2> QED BY <2>1, <2>2 DEF Frame, Event
<1>2. UNCHANGED Phase
  BY <1>1 DEF Phase
<1>3. CASE UNCHANGED ackTagged
  BY <1>1, <1>2, <1>3 DEF Service!vars
<1>4. CASE ChatSendAck(t)
  <2>1. pc[t] = "sent" /\ (ackTagged' = ackTagged \/ ackTagged' = ackTagged \cup {t})
    BY <1>4 DEF ChatSendAck
  <2>2. Phase[t] = "open" /\ yielded[t] = <<>>
    BY <2>1 DEF Phase, PhaseOf, GonePCs, Shaped
  <2>3. CASE ackTagged' = ackTagged \cup {t}
    <3>1. Service!Identify(t)
      BY <1>1, <1>2, <2>2, <2>3 DEF Service!Identify
    <3> QED BY <3>1 DEF Service!Next
  <2> QED BY <1>3, <2>1, <2>3
<1>5. CASE ~ChatSendAck(t)
  <2>1. UNCHANGED ackTagged
    <3>1. CASE Event(t)
      BY <3>1, EventPuts
    <3>2. CASE RpcResponse(t) \/ ChatSendRejected(t)
      BY <3>2 DEF RpcResponse, ChatSendRejected, histVars
    <3> QED BY <1>5, <3>1, <3>2 DEF Frame, Event
  <2> QED BY <1>3, <2>1
<1> QED BY <1>4, <1>5

\* Every step is one of the service's, or none.
LEMMA ServiceStep ==
    ASSUME ReplyInv, ReplyInv', Shaped, [Next]_vars
    PROVE  [Service!Next]_(Service!vars)
<1>0. TypeOK /\ PathInv /\ UnsharedReply'
  BY DEF ReplyInv
<1>1. CASE UNCHANGED <<pc, outcome, yielded, ackTagged>>
  BY <1>1 DEF Phase, Service!vars
<1>2. ASSUME NEW t \in Turns, CoroutineStep(t)
      PROVE  [Service!Next]_(Service!vars)
  BY <1>0, <1>2, OwnerRefines, AwaitRefines, LeaveRefines, StreamItemRefines, RelayRefines
     DEF CoroutineStep
<1>3. ASSUME NEW t \in Turns, Begin(t)
      PROVE  Service!Next
  <2>1. /\ pc[t] = "idle" /\ UNCHANGED <<outcome, yielded, ackTagged>>
        /\ pc' = [pc EXCEPT ![t] = "lock"] \/ pc' = [pc EXCEPT ![t] = "owner"]
    BY <1>3 DEF Begin, GetLock, histVars
  <2>2. Phase[t] = "idle" /\ Phase' = [Phase EXCEPT ![t] = "open"]
    BY <1>0, <2>1, PhaseMoves DEF Phase, PhaseOf, GonePCs
  <2>3. Service!Call(t)
    BY <2>1, <2>2 DEF Service!Call
  <2> QED BY <2>3 DEF Service!Next
<1>4. ASSUME NEW t \in Turns, Frame(t)
      PROVE  [Service!Next]_(Service!vars)
  BY <1>0, <1>4, FrameRefines
<1>5. ASSUME NEW t \in Turns, Cancel(t)
      PROVE  Service!Next
  BY <1>0, <1>5, LeaveRefines
<1>6. CASE Background
  BY <1>1, <1>6 DEF Background, BackgroundAsks, BackgroundAnswered, turnVars, histVars
<1>7. CASE Reset
  BY <1>1, <1>7 DEF Reset, histVars
<1>8. CASE UNCHANGED vars
  BY <1>1, <1>8 DEF vars, turnVars, histVars
<1>9. CASE Finished
  BY <1>8, <1>9 DEF Finished
<1>10. ASSUME NEW t \in Turns, StreamHandler(t)
       PROVE  [Service!Next]_(Service!vars)
  BY <1>0, <1>10, AwaitRefines, CloseRefines, LeaveRefines DEF StreamHandler
<1> QED BY <1>2, <1>3, <1>4, <1>5, <1>6, <1>7, <1>8, <1>9, <1>10 DEF Next

\* To their HTTP handlers the turns are a service that answers each call with
\* one reply at most: stream_turn yields "the final reply text ... once" (a
\* second reply is no step of the service, also when it repeats the first), a
\* call ends as done only if its caller has the reply, a caller that is gone
\* is given nothing, and an unshared stream turn that knows its run yields no
\* other run's.
THEOREM Implements == Spec => ImplementsService
<1>1. Init => Shaped /\ Service!Init
  BY DEF Init, Shaped, OneReply, Phase, PhaseOf, GonePCs, Service!Init
<1>2. ReplyInv /\ Shaped /\ [Next]_vars => Shaped'
  BY ShapeStep DEF ReplyInv
<1>3. ReplyInv /\ ReplyInv' /\ Shaped /\ [Next]_vars => [Service!Next]_(Service!vars)
  BY ServiceStep
<1> QED
  BY <1>1, <1>2, <1>3, ReplyInvariant, PTL DEF Spec, ImplementsService, Service!Spec

=============================================================================
