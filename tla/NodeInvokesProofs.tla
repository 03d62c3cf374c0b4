-------------------------- MODULE NodeInvokesProofs --------------------------
(***************************************************************************)
(* Theorems about NodeInvokes, for any number of invokes and turns and for *)
(* any keys, however the gateway and the lower case map them.              *)
(***************************************************************************)
EXTENDS NodeInvokes, FiniteSetTheorems, TLAPS

(* On the wire an acknowledgement comes after its result.                  *)
ResultFirst ==
    \A k \in 1..Len(up) : \A i \in Invokes : up[k] = Ack(i) =>
        gw[i] # "new" /\ (i \in got \/ \E j \in 1..(k - 1) : up[j] = Result(i))

(* What is on its way to the node, or in its hands, is the gateway's.      *)
InHand == node.pc \in {"handle", "running", "reply", "ack"}
FromGateway ==
    /\ \A k \in 1..Len(down) : \A i \in down[k].items : gw[i] # "new"
    /\ \A i \in node.todo : gw[i] # "new"
    /\ InHand => node.cur \in Invokes /\ gw[node.cur] # "new"

(* An invoke's turn had its canonical key recorded, and has it while it is *)
(* active.                                                                 *)
Traced ==
    \A i \in Invokes : gw[i] # "new" /\ Issuer[i] # None =>
        /\ turn[Issuer[i]] # "new"
        /\ turn[Issuer[i]] = "active" => Key[Issuer[i]] \in canon

IInv == TypeOK /\ RetiredMeansAnswered /\ ResultFirst /\ FromGateway /\ Traced

USE ConstantAssumption
-----------------------------------------------------------------------------
LEMMA TailFacts ==
  ASSUME NEW S, NEW s \in Seq(S), s # <<>>
  PROVE  /\ Tail(s) \in Seq(S) /\ Len(s) \in Nat \ {0}
         /\ Len(Tail(s)) = Len(s) - 1 /\ Head(s) = s[1] /\ Head(s) \in S
         /\ \A k \in 1..Len(Tail(s)) : k + 1 \in 1..Len(s) /\ Tail(s)[k] = s[k + 1]
  OBVIOUS

LEMMA AppendFacts ==
  ASSUME NEW S, NEW s \in Seq(S), NEW e \in S
  PROVE  /\ Append(s, e) \in Seq(S) /\ Len(s) \in Nat /\ Len(Append(s, e)) = Len(s) + 1
         /\ \A k \in 1..Len(s) : Append(s, e)[k] = s[k]
         /\ Append(s, e)[Len(s) + 1] = e
  OBVIOUS

LEMMA FrameFacts ==
  ASSUME NEW i \in Invokes
  PROVE  /\ Result(i) \in UpFrames /\ Ack(i) \in UpFrames /\ Pull \in UpFrames
         /\ Pull # Ack(i) /\ Pull # Result(i)
         /\ \A k : Ack(k) # Result(i) /\ (Ack(k) = Ack(i) => k = i)
  BY DEF Result, Ack, Pull, UpFrames

LEMMA PullTyped == Pull \in UpFrames BY DEF Pull, UpFrames

(* The gateway never forgets an invoke.                                    *)
Kept == \A i \in Invokes : gw[i] # "new" => gw'[i] # "new"

LEMMA DownItems == IInv => \A k \in 1..Len(down) : down[k].items \subseteq Invokes
<1> SUFFICES ASSUME IInv, NEW k \in 1..Len(down) PROVE down[k].items \subseteq Invokes
  OBVIOUS
<1>1. down \in Seq(DownFrames) BY DEF IInv, TypeOK
<1>2. down[k] \in DownFrames BY <1>1
<1>3. QED BY <1>2 DEF DownFrames

LEMMA InitIInv == Init => IInv
<1> SUFFICES ASSUME Init PROVE IInv OBVIOUS
<1>1. TypeOK BY DEF Init, TypeOK, Nodes, Offline
<1>2. RetiredMeansAnswered /\ Traced BY DEF Init, RetiredMeansAnswered, Traced
<1>3. ResultFirst BY DEF Init, ResultFirst
<1>4. FromGateway BY DEF Init, FromGateway, InHand, Offline
<1>5. QED BY <1>1, <1>2, <1>3, <1>4 DEF IInv

LEMMA StutterKeeps == IInv /\ UNCHANGED vars => IInv'
  BY DEF IInv, TypeOK, RetiredMeansAnswered, ResultFirst, FromGateway, InHand, Traced, vars

-----------------------------------------------------------------------------
(* The relay's turns: only what is said of them is at stake.               *)
LEMMA RelayKeeps ==
  ASSUME IInv, UNCHANGED <<gw, got, conn, up, down, node, by>>,
         turn' \in [Turns -> {"new", "active", "ended", "lost"}], canon' \subseteq Keys,
         \A t \in Turns : turn[t] # "new" =>
             /\ turn'[t] # "new"
             /\ turn'[t] = "active" => turn[t] = "active" /\ (Key[t] \in canon => Key[t] \in canon')
  PROVE  IInv'
<1>1. TypeOK' BY DEF IInv, TypeOK
<1>2. RetiredMeansAnswered' /\ ResultFirst' /\ FromGateway'
  BY DEF IInv, RetiredMeansAnswered, ResultFirst, FromGateway, InHand
<1>3. Traced' BY DEF IInv, Traced
<1>4. QED BY <1>1, <1>2, <1>3 DEF IInv

LEMMA TurnsKeep ==
  ASSUME IInv,
         ResetRelay \/ \E t \in Turns : StartTurn(t) \/ LearnCanon(t) \/ EndTurn(t)
  PROVE  IInv'
<1>1. CASE ResetRelay
  <2>1. /\ UNCHANGED <<gw, got, conn, up, down, node, by>> /\ canon' = {}
        /\ turn' = [t \in Turns |-> IF turn[t] = "active" THEN "lost" ELSE turn[t]]
    BY <1>1 DEF ResetRelay, wire
  <2>2. turn' \in [Turns -> {"new", "active", "ended", "lost"}]
    BY <2>1 DEF IInv, TypeOK
  <2>3. \A t \in Turns : turn[t] # "new" => turn'[t] \notin {"new", "active"} BY <2>1
  <2>4. QED BY <2>1, <2>2, <2>3, RelayKeeps
<1>2. ASSUME NEW t \in Turns, StartTurn(t) \/ LearnCanon(t) \/ EndTurn(t) PROVE IInv'
  <2>1. /\ UNCHANGED <<gw, got, conn, up, down, node, by>>
        /\ canon \subseteq canon' /\ canon' \subseteq canon \cup {Key[t]}
        /\ turn' = turn \/ (turn[t] = "new" /\ turn' = [turn EXCEPT ![t] = "active"])
                        \/ turn' = [turn EXCEPT ![t] = "ended"]
    BY <1>2 DEF StartTurn, LearnCanon, EndTurn, wire
  <2>2. turn' \in [Turns -> {"new", "active", "ended", "lost"}] /\ canon' \subseteq Keys
    BY <2>1 DEF IInv, TypeOK
  <2>3. \A u \in Turns : turn[u] # "new" =>
            turn'[u] # "new" /\ (turn'[u] = "active" => turn[u] = "active")
    BY <2>1 DEF IInv, TypeOK
  <2>4. QED BY <2>1, <2>2, <2>3, RelayKeeps
<1>3. QED BY <1>1, <1>2

-----------------------------------------------------------------------------
(* A step of the client's task that sends nothing.                         *)
LEMMA TaskKeeps ==
  ASSUME IInv, UNCHANGED <<gw, got, conn, up, turn, canon>>,
         node' \in Nodes, by' \in [Invokes -> SUBSET Callers],
         down' = down \/ (down # <<>> /\ down' = Tail(down)),
         \A i \in node'.todo : gw[i] # "new",
         InHand' => node'.cur \in Invokes /\ gw[node'.cur] # "new"
  PROVE  IInv'
<1>1. /\ down' \in Seq(DownFrames)
      /\ \A k \in 1..Len(down') : \E j \in 1..Len(down) : down'[k] = down[j]
  <2>1. down \in Seq(DownFrames) BY DEF IInv, TypeOK
  <2>2. CASE down' = down BY <2>1, <2>2
  <2>3. CASE down # <<>> /\ down' = Tail(down) BY <2>1, <2>3, TailFacts
  <2>4. QED BY <2>2, <2>3
<1>2. TypeOK' BY <1>1 DEF IInv, TypeOK
<1>3. RetiredMeansAnswered' /\ ResultFirst' /\ Traced'
  BY DEF IInv, RetiredMeansAnswered, ResultFirst, Traced
<1>4. FromGateway' BY <1>1 DEF IInv, FromGateway
<1>5. QED BY <1>2, <1>3, <1>4 DEF IInv

(* What the first frame for the node may hold.                             *)
LEMMA FirstFrame ==
  ASSUME IInv, down # <<>>
  PROVE  /\ Head(down) \in DownFrames
         /\ \A i \in Head(down).items : i \in Invokes /\ gw[i] # "new"
<1>1. down \in Seq(DownFrames) BY DEF IInv, TypeOK
<1>2. Head(down) \in DownFrames /\ Head(down) = down[1] /\ 1 \in 1..Len(down)
  BY <1>1, TailFacts
<1>3. QED BY <1>2 DEF IInv, FromGateway, DownFrames

LEMMA WaitsKeep ==
  ASSUME IInv,
         \/ AwaitDrops \/ ReceivePull \/ PullFails \/ Drained \/ ReadFrame
         \/ \E i \in Invokes : SkipMalformed(i) \/ TakeQueued(i)
  PROVE  IInv'
<1>1. node \in Nodes /\ by \in [Invokes -> SUBSET Callers] BY DEF IInv, TypeOK
<1> USE DEF InHand, wire, relay
<1>2. CASE AwaitDrops
  BY <1>1, <1>2, TaskKeeps DEF AwaitDrops, IInv, FromGateway
<1>3. CASE ReceivePull
  <2>1. /\ node'.pc = "drain" /\ node'.todo = Head(down).items /\ node' \in Nodes
        /\ down # <<>>
    BY <1>1, <1>3, FirstFrame DEF ReceivePull, Nodes, DownFrames
  <2>2. QED BY <1>1, <1>3, <2>1, FirstFrame, TaskKeeps DEF ReceivePull
<1>4. CASE PullFails \/ Drained
  <2>1. node'.pc = "loop" /\ node'.todo = node.todo /\ node' \in Nodes
    BY <1>1, <1>4 DEF PullFails, Drained, Nodes
  <2>2. QED BY <1>1, <1>4, <2>1, TaskKeeps DEF PullFails, Drained, IInv, FromGateway
<1>5. CASE ReadFrame
  <2>1. down # <<>> /\ down' = Tail(down) /\ UNCHANGED <<gw, got, conn, up, by, turn, canon>>
    BY <1>5 DEF ReadFrame
  <2>2. CASE UNCHANGED node
    BY <1>1, <2>1, <2>2, TaskKeeps DEF IInv, FromGateway
  <2>3. ASSUME NEW i \in Head(down).items,
               node' = [node EXCEPT !.pc = "handle", !.cur = i, !.live = TRUE]
        PROVE  IInv'
    <3>1. i \in Invokes /\ gw[i] # "new" BY <2>1, <2>3, FirstFrame
    <3>2. node' \in Nodes /\ node'.todo = node.todo /\ node'.cur = i
      BY <1>1, <2>3, <3>1 DEF Nodes
    <3>3. QED BY <1>1, <2>1, <3>1, <3>2, TaskKeeps DEF IInv, FromGateway
  <2>4. QED BY <1>5, <2>2, <2>3 DEF ReadFrame
<1>6. ASSUME NEW i \in Invokes, SkipMalformed(i) PROVE IInv'
  <2>1. /\ node.pc = "drain" /\ node' = [node EXCEPT !.todo = @ \ {i}]
        /\ UNCHANGED <<gw, got, conn, up, down, by, turn, canon>>
    BY <1>6 DEF SkipMalformed
  <2>2. node' \in Nodes /\ node'.todo = node.todo \ {i} /\ node'.pc = "drain"
    BY <1>1, <2>1 DEF Nodes
  <2>3. QED BY <1>1, <2>1, <2>2, TaskKeeps DEF IInv, FromGateway
<1>7. ASSUME NEW i \in Invokes, TakeQueued(i) PROVE IInv'
  <2>1. /\ i \in node.todo
        /\ node' = [node EXCEPT !.todo = @ \ {i}, !.pc = "handle", !.cur = i, !.live = FALSE]
        /\ UNCHANGED <<gw, got, conn, up, down, by, turn, canon>>
    BY <1>7 DEF TakeQueued
  <2>2. node' \in Nodes /\ node'.todo = node.todo \ {i} /\ node'.cur = i
    BY <1>1, <2>1 DEF Nodes
  <2>3. QED BY <1>1, <2>1, <2>2, TaskKeeps DEF IInv, FromGateway
<1>8. QED BY <1>2, <1>3, <1>4, <1>5, <1>6, <1>7

LEMMA HandlingKeeps ==
  ASSUME IInv, Refuse \/ Dispatch \/ Finished \/ ReadAck \/ AckUnanswered
  PROVE  IInv'
<1>1. node \in Nodes /\ by \in [Invokes -> SUBSET Callers] BY DEF IInv, TypeOK
<1> USE DEF InHand, wire, relay
<1>2. CASE Refuse \/ Finished
  <2>1. /\ node.pc \in {"handle", "running"} /\ node' = [node EXCEPT !.pc = "reply"]
        /\ UNCHANGED <<gw, got, conn, up, down, by, turn, canon>>
    BY <1>2 DEF Refuse, Finished
  <2>2. node' \in Nodes /\ node'.todo = node.todo /\ node'.cur = node.cur
    BY <1>1, <2>1 DEF Nodes
  <2>3. QED BY <1>1, <2>1, <2>2, TaskKeeps DEF IInv, FromGateway
<1>3. CASE Dispatch
  <2>1. /\ node.pc = "handle" /\ node' = [node EXCEPT !.pc = "running"]
        /\ CallerOf(node.cur) \in Allowed[node.cur]
        /\ by' = [by EXCEPT ![node.cur] = @ \cup {CallerOf(node.cur)}]
        /\ UNCHANGED <<gw, got, conn, up, down, turn, canon>>
    BY <1>3 DEF Dispatch
  <2>2. node.cur \in Invokes /\ gw[node.cur] # "new" BY <2>1 DEF IInv, FromGateway
  <2>3. CallerOf(node.cur) \in Callers BY <2>1, <2>2 DEF Callers
  <2>4. by' \in [Invokes -> SUBSET Callers] BY <1>1, <2>1, <2>2, <2>3
  <2>5. node' \in Nodes /\ node'.todo = node.todo /\ node'.cur = node.cur
    BY <1>1, <2>1 DEF Nodes
  <2>6. QED BY <2>1, <2>2, <2>4, <2>5, TaskKeeps DEF IInv, FromGateway
<1>4. CASE ReadAck \/ AckUnanswered
  <2>1. /\ node' = [node EXCEPT !.pc = "drain", !.cur = None]
        /\ down' = down \/ (down # <<>> /\ down' = Tail(down))
        /\ UNCHANGED <<gw, got, conn, up, by, turn, canon>>
    BY <1>4 DEF ReadAck, AckUnanswered, Resume
  <2>2. node' \in Nodes /\ node'.todo = node.todo /\ node'.pc = "drain"
    BY <1>1, <2>1 DEF Nodes
  <2>3. QED BY <1>1, <2>1, <2>2, TaskKeeps DEF IInv, FromGateway
<1>5. QED BY <1>2, <1>3, <1>4

-----------------------------------------------------------------------------
(* A lost connection: what was sent live goes back into the queue.         *)
LEMMA RequeuedFacts ==
  ASSUME IInv
  PROVE  /\ Requeued \in [Invokes -> {"new", "queued", "live", "retired"}]
         /\ \A i \in Invokes : /\ gw[i] = "new" <=> Requeued[i] = "new"
                               /\ Requeued[i] = "retired" => gw[i] = "retired"
  BY DEF IInv, TypeOK, Requeued

LEMMA HangUpKeeps ==
  ASSUME IInv, HangUp, UNCHANGED <<got, by, turn, canon>> PROVE IInv'
<1>1. conn' = "down" /\ up' = <<>> /\ down' = <<>> /\ node' = Offline /\ gw' = Requeued
  BY DEF HangUp
<1>2. node' \in Nodes /\ node'.pc = "offline" /\ node'.todo = {}
  BY <1>1 DEF Offline, Nodes
<1>3. TypeOK' BY <1>1, <1>2, RequeuedFacts DEF IInv, TypeOK
<1>4. RetiredMeansAnswered' /\ Traced'
  BY <1>1, RequeuedFacts DEF IInv, RetiredMeansAnswered, Traced
<1>5. ResultFirst' /\ FromGateway'
  BY <1>1, <1>2 DEF ResultFirst, FromGateway, InHand
<1>6. QED BY <1>3, <1>4, <1>5 DEF IInv

LEMMA LoseKeeps == ASSUME IInv, Lose PROVE IInv'
<1>1. /\ conn' = "dead" /\ up' = <<>> /\ down' \in {down, <<>>} /\ gw' = Requeued
      /\ UNCHANGED <<got, node, by, turn, canon>>
  BY DEF Lose, relay
<1>2. TypeOK'
  <2>1. up' \in Seq(UpFrames) BY <1>1
  <2>2. down' \in Seq(DownFrames)
    <3>1. down \in Seq(DownFrames) BY DEF IInv, TypeOK
    <3>2. CASE down' = down BY <3>1, <3>2
    <3>3. CASE down' = <<>> BY <3>3
    <3>4. QED BY <1>1, <3>2, <3>3
  <2>3. QED BY <1>1, <2>1, <2>2, RequeuedFacts DEF IInv, TypeOK
<1>3. RetiredMeansAnswered' /\ Traced'
  BY <1>1, RequeuedFacts DEF IInv, RetiredMeansAnswered, Traced
<1>4. ResultFirst' BY <1>1 DEF ResultFirst
<1>5. FromGateway'
  <2>1. node.todo \subseteq Invokes BY DEF IInv, TypeOK, Nodes
  <2>2. \A k \in 1..Len(down) : down[k].items \subseteq Invokes BY DownItems
  <2>3. CASE down' = down
    BY <1>1, <2>1, <2>2, <2>3, RequeuedFacts DEF IInv, FromGateway, InHand
  <2>4. CASE down' = <<>>
    BY <1>1, <2>1, <2>4, RequeuedFacts DEF IInv, FromGateway, InHand
  <2>5. QED BY <1>1, <2>3, <2>4
<1>6. QED BY <1>2, <1>3, <1>4, <1>5 DEF IInv

LEMMA ConnectKeeps == ASSUME IInv, Connect PROVE IInv'
<1>1. /\ conn' = "up" /\ up' = <<Pull>> /\ down' = <<>>
      /\ node' = [Offline EXCEPT !.pc = "pull"]
      /\ UNCHANGED <<gw, got, by, turn, canon>>
  BY DEF Connect, relay
<1>2. node' \in Nodes /\ node'.pc = "pull" /\ node'.todo = {}
  BY <1>1 DEF Offline, Nodes
<1>3. up' \in Seq(UpFrames) /\ Len(up') = 1 /\ up'[1] = Pull BY <1>1, PullTyped
<1>4. TypeOK' BY <1>1, <1>2, <1>3 DEF IInv, TypeOK
<1>5. RetiredMeansAnswered' /\ Traced' BY <1>1 DEF IInv, RetiredMeansAnswered, Traced
<1>6. ResultFirst' BY <1>3, FrameFacts DEF ResultFirst
<1>7. FromGateway' BY <1>1, <1>2 DEF FromGateway, InHand
<1>8. QED BY <1>4, <1>5, <1>6, <1>7 DEF IInv

-----------------------------------------------------------------------------
(* The gateway sends a frame about invokes it has.                         *)
LEMMA DownGrows ==
  ASSUME IInv, Kept, gw' \in [Invokes -> {"new", "queued", "live", "retired"}],
         NEW d \in DownFrames, down' = Append(down, d),
         \A i \in d.items : gw'[i] # "new", UNCHANGED node
  PROVE  FromGateway' /\ down' \in Seq(DownFrames)
<1>1. down \in Seq(DownFrames) BY DEF IInv, TypeOK
<1>2. /\ down' \in Seq(DownFrames) /\ Len(down) \in Nat /\ Len(down') = Len(down) + 1
      /\ \A k \in 1..Len(down) : down'[k] = down[k]
      /\ down'[Len(down) + 1] = d
  BY <1>1, AppendFacts
<1>3. \A k \in 1..Len(down) : down[k].items \subseteq Invokes BY DownItems
<1>4. ASSUME NEW k \in 1..Len(down') PROVE \A i \in down'[k].items : gw'[i] # "new"
  <2>1. CASE k \in 1..Len(down)
    BY <1>2, <1>3, <2>1 DEF IInv, FromGateway, Kept
  <2>2. CASE k = Len(down) + 1 BY <1>2, <2>2
  <2>3. QED BY <1>2, <1>4, <2>1, <2>2
<1>5. node.todo \subseteq Invokes BY DEF IInv, TypeOK, Nodes
<1>6. QED BY <1>2, <1>4, <1>5 DEF IInv, FromGateway, InHand, Kept

(* The gateway takes a frame; if it is a result it has it now.             *)
LEMMA UpShrinks ==
  ASSUME IInv, Kept, up # <<>>, up' = Tail(up), got \subseteq got',
         \A i \in Invokes : Head(up) = Result(i) => i \in got'
  PROVE  ResultFirst' /\ up' \in Seq(UpFrames)
<1>1. up \in Seq(UpFrames) BY DEF IInv, TypeOK
<1>2. /\ up' \in Seq(UpFrames) /\ Head(up) = up[1] /\ Len(up) \in Nat
      /\ Len(up') = Len(up) - 1
      /\ \A k \in 1..Len(up') : k + 1 \in 1..Len(up) /\ up'[k] = up[k + 1]
  BY <1>1, TailFacts
<1>3. ASSUME NEW k \in 1..Len(up'), NEW i \in Invokes, up'[k] = Ack(i), i \notin got'
      PROVE  \E j \in 1..(k - 1) : up'[j] = Result(i)
  <2>1. PICK j \in 1..k : up[j] = Result(i)
    <3>1. k + 1 \in 1..Len(up) /\ up[k + 1] = Ack(i) /\ i \notin got BY <1>2, <1>3
    <3>2. \E j \in 1..((k + 1) - 1) : up[j] = Result(i)
      BY <3>1 DEF IInv, ResultFirst
    <3>3. QED BY <1>2, <3>2
  <2>2. j # 1 BY <1>2, <1>3, <2>1
  <2>3. j - 1 \in 1..(k - 1) /\ j - 1 \in 1..Len(up') /\ (j - 1) + 1 = j
    BY <1>2, <2>1, <2>2
  <2>4. up'[j - 1] = up[(j - 1) + 1] BY <1>2, <2>3
  <2>5. up'[j - 1] = up[j] BY <2>3, <2>4
  <2>6. up'[j - 1] = Result(i) BY <2>1, <2>5
  <2>7. QED BY <2>3, <2>6
<1>4. ASSUME NEW k \in 1..Len(up'), NEW i \in Invokes, up'[k] = Ack(i) PROVE gw'[i] # "new"
  BY <1>2, <1>4 DEF IInv, ResultFirst, Kept
<1>5. QED BY <1>2, <1>3, <1>4 DEF ResultFirst

(* The first frame of the connection: an acknowledgement is of an invoke   *)
(* the gateway has a result for.                                           *)
LEMMA HeadAck ==
  ASSUME IInv, up # <<>>, NEW i \in Invokes, Head(up) = Ack(i) PROVE i \in got /\ gw[i] # "new"
<1>1. up \in Seq(UpFrames) BY DEF IInv, TypeOK
<1>2. up[1] = Ack(i) /\ 1 \in 1..Len(up) BY <1>1, TailFacts
<1>3. 1..(1 - 1) = {} OBVIOUS
<1>4. QED BY <1>2, <1>3 DEF IInv, ResultFirst

LEMMA LiveKeeps == ASSUME IInv, NEW i \in Invokes, Live(i) PROVE IInv'
<1> DEFINE d == [type |-> "invoke", items |-> {i}]
<1>1. /\ gw[i] = "new" /\ Issued(i) /\ gw' = [gw EXCEPT ![i] = "live"]
      /\ down' = Append(down, d) /\ UNCHANGED <<got, conn, up, node, by, turn, canon>>
  BY DEF Live, relay
<1>2. d \in DownFrames /\ d.items = {i} BY DEF DownFrames
<1>3. /\ gw' \in [Invokes -> {"new", "queued", "live", "retired"}] /\ gw'[i] = "live"
      /\ \A k \in Invokes \ {i} : gw'[k] = gw[k]
  BY <1>1 DEF IInv, TypeOK
<1>4. Kept BY <1>1, <1>3 DEF Kept
<1> HIDE DEF d
<1>5. FromGateway' /\ down' \in Seq(DownFrames) BY <1>1, <1>2, <1>3, <1>4, DownGrows
<1>6. TypeOK' BY <1>1, <1>3, <1>5 DEF IInv, TypeOK
<1>7. RetiredMeansAnswered' /\ ResultFirst'
  BY <1>1, <1>3 DEF IInv, RetiredMeansAnswered, ResultFirst
<1>8. Traced' BY <1>1, <1>3 DEF IInv, Traced, Issued
<1>9. QED BY <1>5, <1>6, <1>7, <1>8 DEF IInv

LEMMA EnqueueKeeps == ASSUME IInv, NEW i \in Invokes, Enqueue(i) PROVE IInv'
<1>1. /\ gw[i] = "new" /\ Issued(i) /\ gw' = [gw EXCEPT ![i] = "queued"]
      /\ UNCHANGED <<got, conn, up, down, node, by, turn, canon>>
  BY DEF Enqueue, wire, relay
<1>2. /\ gw' \in [Invokes -> {"new", "queued", "live", "retired"}] /\ gw'[i] = "queued"
      /\ \A k \in Invokes \ {i} : gw'[k] = gw[k]
  BY <1>1 DEF IInv, TypeOK
<1>3. TypeOK' BY <1>1, <1>2 DEF IInv, TypeOK
<1>4. RetiredMeansAnswered' /\ ResultFirst'
  BY <1>1, <1>2 DEF IInv, RetiredMeansAnswered, ResultFirst
<1>5. Traced' BY <1>1, <1>2 DEF IInv, Traced, Issued
<1>6. \A k \in 1..Len(down) : down[k].items \subseteq Invokes BY DownItems
<1>7. node.todo \subseteq Invokes BY DEF IInv, TypeOK, Nodes
<1>8. FromGateway' BY <1>1, <1>2, <1>6, <1>7 DEF IInv, FromGateway, InHand
<1>9. QED BY <1>3, <1>4, <1>5, <1>8 DEF IInv

LEMMA AnswerPullKeeps == ASSUME IInv, AnswerPull PROVE IInv'
<1> DEFINE d == [type |-> "pull", items |-> {i \in Invokes : gw[i] = "queued"}]
<1>1. /\ up # <<>> /\ Head(up) = Pull /\ up' = Tail(up) /\ down' = Append(down, d)
      /\ UNCHANGED <<gw, got, conn, node, by, turn, canon>>
  BY DEF AnswerPull, relay
<1>2. d \in DownFrames /\ \A i \in d.items : gw[i] # "new" BY DEF DownFrames
<1>3. Kept BY <1>1 DEF Kept
<1>4. gw' \in [Invokes -> {"new", "queued", "live", "retired"}] BY <1>1 DEF IInv, TypeOK
<1> HIDE DEF d
<1>5. FromGateway' /\ down' \in Seq(DownFrames) BY <1>1, <1>2, <1>3, <1>4, DownGrows
<1>6. ResultFirst' /\ up' \in Seq(UpFrames) BY <1>1, <1>3, FrameFacts, UpShrinks
<1>7. TypeOK' BY <1>1, <1>5, <1>6 DEF IInv, TypeOK
<1>8. RetiredMeansAnswered' /\ Traced' BY <1>1 DEF IInv, RetiredMeansAnswered, Traced
<1>9. QED BY <1>5, <1>6, <1>7, <1>8 DEF IInv

LEMMA TakeResultKeeps == ASSUME IInv, NEW i \in Invokes, TakeResult(i) PROVE IInv'
<1>1. /\ up # <<>> /\ Head(up) = Result(i) /\ up' = Tail(up) /\ got' = got \cup {i}
      /\ gw' = [gw EXCEPT ![i] = IF @ = "live" THEN "retired" ELSE @]
      /\ UNCHANGED <<conn, down, node, by, turn, canon>>
  BY DEF TakeResult, relay
<1>2. /\ gw' \in [Invokes -> {"new", "queued", "live", "retired"}]
      /\ \A k \in Invokes : /\ gw'[k] = "new" <=> gw[k] = "new"
                            /\ gw'[k] = "retired" => gw[k] = "retired" \/ k = i
  BY <1>1 DEF IInv, TypeOK
<1>3. \A k \in Invokes : Result(k) = Result(i) => k = i BY DEF Result
<1>4. Kept BY <1>2 DEF Kept
<1>5. ResultFirst' /\ up' \in Seq(UpFrames) BY <1>1, <1>3, <1>4, UpShrinks
<1>6. TypeOK' BY <1>1, <1>2, <1>5 DEF IInv, TypeOK
<1>7. RetiredMeansAnswered' /\ Traced'
  BY <1>1, <1>2 DEF IInv, RetiredMeansAnswered, Traced
<1>8. \A k \in 1..Len(down) : down[k].items \subseteq Invokes BY DownItems
<1>9. node.todo \subseteq Invokes BY DEF IInv, TypeOK, Nodes
<1>10. FromGateway' BY <1>1, <1>2, <1>8, <1>9 DEF IInv, FromGateway, InHand
<1>11. QED BY <1>5, <1>6, <1>7, <1>10 DEF IInv

(* An acknowledgement that is taken retires an invoke with a result.       *)
LEMMA AckKeeps ==
  ASSUME IInv, NEW i \in Invokes, TakeAck(i) \/ RejectAck(i) PROVE IInv'
<1> DEFINE d == [type |-> "ack", items |-> {i}]
<1>1. /\ up # <<>> /\ Head(up) = Ack(i) /\ up' = Tail(up) /\ down' = Append(down, d)
      /\ gw' = gw \/ gw' = [gw EXCEPT ![i] = "retired"]
      /\ UNCHANGED <<got, conn, node, by, turn, canon>>
  BY DEF TakeAck, RejectAck, relay
<1>2. i \in got /\ gw[i] # "new" BY <1>1, HeadAck
<1>3. /\ gw' \in [Invokes -> {"new", "queued", "live", "retired"}]
      /\ \A k \in Invokes : /\ gw'[k] = "new" <=> gw[k] = "new"
                            /\ gw'[k] = "retired" => gw[k] = "retired" \/ k = i
  BY <1>1, <1>2 DEF IInv, TypeOK
<1>4. Kept BY <1>3 DEF Kept
<1>5. d \in DownFrames /\ d.items = {i} BY DEF DownFrames
<1> HIDE DEF d
<1>6. FromGateway' /\ down' \in Seq(DownFrames)
  BY <1>1, <1>2, <1>3, <1>4, <1>5, DownGrows
<1>7. ResultFirst' /\ up' \in Seq(UpFrames) BY <1>1, <1>4, FrameFacts, UpShrinks
<1>8. TypeOK' BY <1>1, <1>3, <1>6, <1>7 DEF IInv, TypeOK
<1>9. RetiredMeansAnswered' /\ Traced'
  BY <1>1, <1>2, <1>3 DEF IInv, RetiredMeansAnswered, Traced
<1>10. QED BY <1>6, <1>7, <1>8, <1>9 DEF IInv

-----------------------------------------------------------------------------
(* The answer: the result, and after it the acknowledgement.               *)
LEMMA FramesFacts ==
  ASSUME IInv, node.pc = "reply"
  PROVE  /\ Frames \in Seq(UpFrames) /\ Len(Frames) \in {1, 2} /\ Frames[1] = Result(node.cur)
         /\ Len(Frames) = 2 => Frames[2] = Ack(node.cur)
<1>1. Result(node.cur) \in UpFrames /\ Ack(node.cur) \in UpFrames
  BY FrameFacts DEF IInv, FromGateway, InHand
<1>2. CASE node.live
  <2>1. Frames = <<Result(node.cur)>> \o <<>> BY <1>2 DEF Frames
  <2>2. QED BY <1>1, <2>1
<1>3. CASE ~node.live
  <2>1. Frames = <<Result(node.cur)>> \o <<Ack(node.cur)>> BY <1>3 DEF Frames
  <2>2. QED BY <1>1, <2>1
<1>4. QED BY <1>2, <1>3

LEMMA AnswerSent ==
  ASSUME IInv, node.pc = "reply", up' = up \o Frames, UNCHANGED <<gw, got>>
  PROVE  ResultFirst' /\ up' \in Seq(UpFrames)
<1>1. up \in Seq(UpFrames) BY DEF IInv, TypeOK
<1>2. /\ up' \in Seq(UpFrames) /\ Len(up) \in Nat /\ Len(up') = Len(up) + Len(Frames)
      /\ \A k \in 1..Len(up) : up'[k] = up[k]
      /\ up'[Len(up) + 1] = Result(node.cur)
      /\ Len(Frames) = 2 => up'[Len(up) + 2] = Ack(node.cur)
  BY <1>1, FramesFacts
<1>3. node.cur \in Invokes /\ gw[node.cur] # "new" BY DEF IInv, FromGateway, InHand
<1> SUFFICES ASSUME NEW k \in 1..Len(up'), NEW i \in Invokes, up'[k] = Ack(i)
             PROVE  gw[i] # "new" /\ (i \in got \/ \E j \in 1..(k - 1) : up'[j] = Result(i))
  BY <1>2 DEF ResultFirst
<1>4. CASE k \in 1..Len(up)
  <2>1. gw[i] # "new" /\ (i \in got \/ \E j \in 1..(k - 1) : up[j] = Result(i))
    BY <1>2, <1>4 DEF IInv, ResultFirst
  <2>2. \A j \in 1..(k - 1) : up'[j] = up[j] BY <1>2, <1>4
  <2>3. QED BY <2>1, <2>2
<1>5. CASE k = Len(up) + 1 BY <1>2, <1>3, <1>5, FrameFacts
<1>6. CASE k = Len(up) + 2
  <2>1. Len(Frames) = 2 BY <1>2, <1>6, FramesFacts
  <2>2. i = node.cur BY <1>2, <1>3, <1>6, <2>1, FrameFacts
  <2>3. Len(up) + 1 \in 1..(k - 1) BY <1>2, <1>6
  <2>4. QED BY <1>2, <1>3, <2>2, <2>3
<1>7. QED BY <1>2, <1>4, <1>5, <1>6, FramesFacts

LEMMA ReplyKeeps == ASSUME IInv, Reply PROVE IInv'
<1>1. node.pc = "reply" /\ UNCHANGED <<got, by, turn, canon>> BY DEF Reply, relay
<1>2. CASE HangUp BY <1>1, <1>2, HangUpKeeps
<1>3. CASE UNCHANGED <<gw, conn, down>> /\ node' = After /\ (up' = up \o Frames \/ up' = up)
  <2>1. ResultFirst' /\ up' \in Seq(UpFrames)
    <3>1. CASE up' = up \o Frames BY <1>1, <1>3, <3>1, AnswerSent
    <3>2. CASE up' = up BY <1>1, <1>3, <3>2 DEF IInv, TypeOK, ResultFirst
    <3>3. QED BY <1>3, <3>1, <3>2
  <2>2. node \in Nodes BY DEF IInv, TypeOK
  <2>3. /\ node' \in Nodes /\ node'.todo = node.todo
        /\ InHand' => node'.cur = node.cur
    <3>1. CASE node.live BY <1>3, <2>2, <3>1 DEF After, Nodes, InHand
    <3>2. CASE ~node.live BY <1>3, <2>2, <3>2 DEF After, Nodes, InHand
    <3>3. QED BY <3>1, <3>2
  <2>4. TypeOK' BY <1>1, <1>3, <2>1, <2>3 DEF IInv, TypeOK
  <2>5. RetiredMeansAnswered' /\ Traced'
    BY <1>1, <1>3 DEF IInv, RetiredMeansAnswered, Traced
  <2>6. FromGateway'
    <3>1. InHand BY <1>1 DEF InHand
    <3>2. QED BY <1>3, <2>3, <3>1 DEF IInv, FromGateway
  <2>7. QED BY <2>1, <2>4, <2>5, <2>6 DEF IInv
<1>4. QED BY <1>2, <1>3 DEF Reply, wire

LEMMA NextKeeps == IInv /\ [Next]_vars => IInv'
<1> SUFFICES ASSUME IInv, Next PROVE IInv' BY StutterKeeps
<1>1. CASE NoticeClosed \/ Crash
  BY <1>1, HangUpKeeps DEF NoticeClosed, Crash, relay
<1>2. CASE Client
  BY <1>1, <1>2, WaitsKeep, HandlingKeeps, ReplyKeeps DEF Client
<1>3. CASE Gateway
  BY <1>3, AnswerPullKeeps, TakeResultKeeps, AckKeeps DEF Gateway
<1>4. QED
  BY <1>1, <1>2, <1>3, ConnectKeeps, LoseKeeps, TurnsKeep, LiveKeeps, EnqueueKeeps DEF Next

(* The values keep their types: what is on the wire are frames, and what   *)
(* runs has a caller.                                                      *)
THEOREM TypeCorrect == Spec => []TypeOK
<1>1. IInv => TypeOK BY DEF IInv
<1>2. QED BY <1>1, InitIInv, NextKeeps, PTL DEF Spec

(* _drain_pending acknowledges what it has answered: however connections   *)
(* are lost and whatever the gateway makes of the acknowledgements, an     *)
(* invoke is let go of only with a result.                                 *)
THEOREM NothingLetGo == Spec => []RetiredMeansAnswered
<1>1. IInv => RetiredMeansAnswered BY DEF IInv
<1>2. QED BY <1>1, InitIInv, NextKeeps, PTL DEF Spec
-----------------------------------------------------------------------------
(* active_caller gives one of the turns the hint names, or nobody.         *)
LEMMA OneNamed ==
  ASSUME NEW h, ActiveCaller(h) # None
  PROVE  Named(h) = {ActiveCaller(h)} /\ ActiveCaller(h) \in Turns
<1>1. Cardinality(Named(h)) = 1 /\ ActiveCaller(h) = CHOOSE t \in Named(h) : TRUE
  BY DEF ActiveCaller
<1>2. IsFiniteSet(Named(h)) BY FS_Subset DEF Named
<1>3. PICK t : Named(h) = {t} BY <1>1, <1>2, FS_Singleton
<1>4. ActiveCaller(h) = t BY <1>1, <1>3
<1>5. t \in Turns BY <1>3 DEF Named
<1>6. QED BY <1>3, <1>4, <1>5

(* Only the dispatch makes an invoke run.                                  *)
LEMMA OnlyDispatch == ASSUME [Next]_vars, ~Dispatch PROVE UNCHANGED by
  BY DEF Next, Client, Gateway, vars, AnswerPull, TakeResult, TakeAck, RejectAck,
         NoticeClosed, AwaitDrops, ReceivePull, PullFails, Drained, ReadFrame, Refuse,
         Finished, Reply, ReadAck, AckUnanswered, SkipMalformed, TakeQueued, Connect,
         Lose, Crash, ResetRelay, Live, Enqueue, StartTurn, LearnCanon, EndTurn

LEMMA DispatchOwn ==
  ASSUME IInv, [Next]_vars, NEW i \in Invokes, NEW c \in by'[i] \ by[i]
  PROVE  /\ Issuer[i] = None <=> c = Operator
         /\ Issuer[i] # None /\ turn[Issuer[i]] = "active" => c = Issuer[i]
<1>1. Dispatch BY OnlyDispatch
<1>2. /\ node.pc = "handle" /\ CallerOf(node.cur) \in Allowed[node.cur]
      /\ by' = [by EXCEPT ![node.cur] = @ \cup {CallerOf(node.cur)}]
  BY <1>1 DEF Dispatch
<1>3. node.cur \in Invokes /\ gw[node.cur] # "new" BY <1>2 DEF IInv, FromGateway, InHand
<1>4. i = node.cur /\ c = CallerOf(i) BY <1>2, <1>3 DEF IInv, TypeOK
<1>5. c # None BY <1>2, <1>3, <1>4
<1>6. CASE Issuer[i] = None BY <1>4, <1>6 DEF CallerOf
<1>7. CASE Issuer[i] # None
  <2>1. Issuer[i] \in Turns /\ c = ActiveCaller(Hint(i)) BY <1>4, <1>7 DEF CallerOf
  <2>2. Named(Hint(i)) = {c} /\ c \in Turns BY <1>5, <2>1, OneNamed
  <2>3. ASSUME turn[Issuer[i]] = "active" PROVE Issuer[i] \in Named(Hint(i))
    <3>1. Key[Issuer[i]] \in canon BY <1>3, <1>4, <1>7, <2>3 DEF IInv, Traced
    <3>2. Hint(i) \in KnownAs(Issuer[i]) BY <3>1 DEF Hint, KnownAs
    <3>3. QED BY <2>1, <2>3, <3>2 DEF Named
  <2>4. QED BY <1>7, <2>2, <2>3
<1>8. QED BY <1>6, <1>7

(* active_caller: an invoke with a caller hint never runs as the operator, *)
(* nor as another turn while the turn it comes from is active, for all     *)
(* names of sessions and however turns begin, end and are reset meanwhile. *)
THEOREM OwnCaller == Spec => OwnAuthority
<1>1. IInv /\ [Next]_vars =>
        [\A i \in Invokes : \A c \in by'[i] \ by[i] :
            /\ Issuer[i] = None <=> c = Operator
            /\ Issuer[i] # None /\ turn[Issuer[i]] = "active" => c = Issuer[i]]_vars
  BY DispatchOwn
<1>2. QED BY <1>1, InitIInv, NextKeeps, PTL DEF Spec, OwnAuthority
=============================================================================
