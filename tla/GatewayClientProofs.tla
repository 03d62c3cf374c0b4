------------------------- MODULE GatewayClientProofs -------------------------
(***************************************************************************)
(* Proofs about GatewayClient, for any number of pairings, closes and      *)
(* crashes, any fault kinds and either answer carrying both tokens.        *)
(* RoleOK follows a token from the gateway's record through the connect    *)
(* response into memory and file; ShownOK ties the pairing state the HTTP  *)
(* API shows to the node's phase; KeptOK says that only the client that is *)
(* about to write a device token holds one without a file.  PromiseOK,     *)
(* RejectOK and StaleOK, further down, say what the gateway's answer is    *)
(* still worth when the client acts on it, FreshOK that a new pairing's    *)
(* tokens are new.                                                         *)
(***************************************************************************)
EXTENDS GatewayClient, TLAPS

RoleOK ==
    \A r \in Roles :
        /\ file[r] # None => file[r].role = r
        /\ mem[r] # PairingToken => mem[r].role = r
        /\ accepted[r] # None => accepted[r].role = r
        /\ ans[r].own # None => ans[r].own.role = r
        /\ ans[r].sibling # None => ans[r].sibling.role = Other(r)
        /\ phase[r] = "own" => mem[r] # PairingToken
        /\ phase[r] = "sibling" => ans[r].sibling # None

ShownOK ==
    /\ StatusTruthful
    /\ phase["node"] \in {"own", "sibling", "drain", "serving"}
          => runtime.pairing_state = "PAIRED"

KeptOK ==
    "io_error" \notin Faults =>
        \A r \in Roles : mem[r] # PairingToken => file[r] # None \/ phase[r] = "own"

IInv == TypeOK /\ RoleOK /\ ShownOK /\ KeptOK

Runtimes == [node_connected : BOOLEAN, operator_connected : BOOLEAN,
             pairing_state : PairingStates, chat_relay : BOOLEAN]

USE TokenAssumption, SeedAssumption, FaultAssumption, BoundAssumption

LEMMA RoleFacts ==
  /\ None \notin Tokens /\ None \notin Roles
  /\ \A r \in Roles : Other(r) \in Roles /\ Other(r) # r
  BY DEF Roles, Other, Tokens

LEMMA DelayType ==
  ASSUME TypeOK, NEW r \in Roles, NEW given \in BOOLEAN
  PROVE  NextDelay(r, given) \in {0, 30, 60, 120, 240, 300}
  BY DEF TypeOK, NextDelay, BackoffBase, BackoffFactor, BackoffMax

LEMMA InitInv == Init => IInv
  <1> SUFFICES ASSUME Init PROVE IInv
    OBVIOUS
  <1>1. TypeOK
    BY DEF Init, TypeOK, Phases, Tokens, PairingStates, Answers, NoAnswer, Answer, Codes,
           Fresh, Records
  <1>2. RoleOK /\ ShownOK /\ KeptOK
    BY DEF Init, RoleOK, ShownOK, StatusTruthful, KeptOK, NoAnswer, Answer, Fresh, Roles
  <1> QED BY <1>1, <1>2 DEF IInv

(* The flags and the pairing state after a client is shown up or down.     *)
LEMMA UpFacts ==
  ASSUME NEW rt \in Runtimes, NEW r \in Roles
  PROVE  /\ Connected(r, rt, TRUE) \in Runtimes
         /\ Connected(r, rt, TRUE).pairing_state = rt.pairing_state
         /\ r = "node" =>
               /\ Connected(r, rt, TRUE).node_connected = TRUE
               /\ Connected(r, rt, TRUE).operator_connected = rt.operator_connected
               /\ Connected(r, rt, TRUE).chat_relay = rt.chat_relay
         /\ r = "operator" =>
               /\ Connected(r, rt, TRUE).node_connected = rt.node_connected
               /\ Connected(r, rt, TRUE).operator_connected = TRUE
               /\ Connected(r, rt, TRUE).chat_relay = TRUE
  BY DEF Connected, Runtimes, Roles

LEMMA DownFacts ==
  ASSUME NEW rt \in Runtimes, NEW r \in Roles
  PROVE  /\ Connected(r, rt, FALSE) \in Runtimes
         /\ Connected(r, rt, FALSE).pairing_state = rt.pairing_state
         /\ r = "node" =>
               /\ Connected(r, rt, FALSE).node_connected = FALSE
               /\ Connected(r, rt, FALSE).operator_connected = rt.operator_connected
               /\ Connected(r, rt, FALSE).chat_relay = rt.chat_relay
         /\ r = "operator" =>
               /\ Connected(r, rt, FALSE).node_connected = rt.node_connected
               /\ Connected(r, rt, FALSE).operator_connected = FALSE
               /\ Connected(r, rt, FALSE).chat_relay = FALSE
  BY DEF Connected, Runtimes, Roles

LEMMA NotifiedFacts ==
  ASSUME NEW rt \in Runtimes, NEW r \in Roles, NEW s \in PairingStates
  PROVE  LET n == Notified(r, rt, s)
         IN /\ n \in Runtimes
            /\ n.node_connected = rt.node_connected
            /\ n.operator_connected = rt.operator_connected
            /\ n.chat_relay = rt.chat_relay
            /\ r = "node" => n.pairing_state = s
            /\ r = "operator" => n.pairing_state = rt.pairing_state
  BY DEF Notified, Runtimes, Roles

(* A handshake that goes on keeps the shown state true, provided the node  *)
(* is already shown as paired.                                             *)
LEMMA ProceedFacts ==
  ASSUME TypeOK, ShownOK, NEW r \in Roles, NEW rt \in Runtimes, Proceed(r, rt),
         phase[r] # "serving",
         rt.node_connected = runtime.node_connected,
         rt.operator_connected = runtime.operator_connected,
         rt.chat_relay = runtime.chat_relay,
         r = "node" => rt.pairing_state = "PAIRED",
         r = "operator" => rt.pairing_state = runtime.pairing_state
  PROVE  /\ phase' \in [Roles -> Phases] /\ runtime' \in Runtimes /\ busy' \in Roles \cup {None}
         /\ \A q \in Roles : q # r => phase'[q] = phase[q]
         /\ phase'[r] \in {"drain", "serving"}
         /\ ShownOK'
  <1>1. CASE r = "node"
    <2>1. phase' = [phase EXCEPT !["node"] = "drain"] /\ runtime' = rt /\ busy' = None
      BY <1>1 DEF Proceed, GoTo
    <2> QED BY <1>1, <2>1 DEF TypeOK, ShownOK, StatusTruthful, Phases, Roles
  <1>2. CASE r = "operator"
    <2>1. /\ phase' = [phase EXCEPT !["operator"] = "serving"] /\ busy' = None
          /\ runtime' = Connected("operator", rt, TRUE)
      BY <1>2 DEF Proceed, GoTo
    <2> QED BY <1>2, <2>1, UpFacts DEF TypeOK, ShownOK, StatusTruthful, Phases, Roles
  <1> QED BY <1>1, <1>2 DEF Roles

(* A client that is down is shown as down; the other one's state stays.    *)
LEMMA ShownDown ==
  ASSUME TypeOK, ShownOK, NEW r \in Roles, NEW ph \in Phases,
         ph \notin {"own", "sibling", "drain", "serving"},
         GoTo(r, ph),
         r = "node" => /\ runtime'.node_connected = FALSE
                       /\ runtime'.operator_connected = runtime.operator_connected
                       /\ runtime'.chat_relay = runtime.chat_relay,
         r = "operator" => /\ runtime'.node_connected = runtime.node_connected
                           /\ runtime'.pairing_state = runtime.pairing_state
                           /\ runtime'.operator_connected = FALSE
                           /\ runtime'.chat_relay = FALSE
  PROVE  ShownOK'
  <1>1. phase' = [phase EXCEPT ![r] = ph]
    BY DEF GoTo
  <1>2. CASE r = "node"
    <2>1. phase'["node"] = ph /\ phase'["operator"] = phase["operator"]
      BY <1>1, <1>2 DEF TypeOK, Roles
    <2> QED BY <1>2, <2>1 DEF ShownOK, StatusTruthful
  <1>3. CASE r = "operator"
    <2>1. phase'["operator"] = ph /\ phase'["node"] = phase["node"]
      BY <1>1, <1>3 DEF TypeOK, Roles
    <2> QED BY <1>3, <2>1 DEF ShownOK, StatusTruthful
  <1> QED BY <1>2, <1>3 DEF Roles

(* A client that is not serving and changes no flag is shown as down.      *)
LEMMA ShownQuiet ==
  ASSUME TypeOK, ShownOK, NEW r \in Roles, NEW ph \in Phases,
         ph \notin {"own", "sibling", "drain", "serving"},
         GoTo(r, ph), phase[r] # "serving",
         runtime'.node_connected = runtime.node_connected,
         runtime'.operator_connected = runtime.operator_connected,
         runtime'.chat_relay = runtime.chat_relay,
         r = "operator" => runtime'.pairing_state = runtime.pairing_state
  PROVE  ShownOK'
  <1>1. /\ runtime \in Runtimes
        /\ r = "node" => runtime.node_connected = FALSE
        /\ r = "operator" => runtime.operator_connected = FALSE /\ runtime.chat_relay = FALSE
    BY DEF TypeOK, ShownOK, StatusTruthful, Runtimes
  <1> QED BY <1>1, ShownDown

LEMMA ConnectInv == ASSUME IInv, NEW r \in Roles, Connect(r) PROVE IInv'
  <1> USE DEF IInv
  <1>1. TypeOK'
    BY DEF Connect, TypeOK, GoTo, Phases, Tokens, Answers, NoAnswer, Answer, Codes,
           gatewayVars
  <1>2. RoleOK'
    BY DEF Connect, TypeOK, RoleOK, GoTo, NoAnswer, Answer, gatewayVars
  <1>3. ShownOK'
    BY ShownQuiet DEF Connect, Phases
  <1>4. KeptOK'
    BY DEF Connect, TypeOK, KeptOK, GoTo
  <1> QED BY <1>1, <1>2, <1>3, <1>4

LEMMA AcceptedInv == ASSUME IInv, NEW r \in Roles, Accepted(r) PROVE IInv'
  <1> USE DEF IInv
  <1> DEFINE rt == Notified(r, runtime, "PAIRED")
  <1>0. /\ runtime \in Runtimes /\ "PAIRED" \in PairingStates
        /\ phase[r] = "sent" /\ ans[r] \in Answers
    BY DEF Accepted, TypeOK, Runtimes, PairingStates
  <1>1. /\ rt \in Runtimes
        /\ rt.node_connected = runtime.node_connected
        /\ rt.operator_connected = runtime.operator_connected
        /\ rt.chat_relay = runtime.chat_relay
        /\ r = "node" => rt.pairing_state = "PAIRED"
        /\ r = "operator" => rt.pairing_state = runtime.pairing_state
    BY <1>0, NotifiedFacts
  <1> HIDE DEF rt
  <1>2. /\ pairing' \in [Roles -> PairingStates]
        /\ backoff' \in [Roles -> {0, 30, 60, 120, 240, 300}]
        /\ UNCHANGED <<file, ans, record, accepted, gen, upsets>>
    BY DEF Accepted, TypeOK, PairingStates, gatewayVars
  <1>3. CASE ans[r].own \notin {None, mem[r]}
    <2>1. /\ mem' = [mem EXCEPT ![r] = ans[r].own]
          /\ phase' = [phase EXCEPT ![r] = "own"] /\ busy' = r /\ runtime' = rt
      BY <1>3 DEF Accepted, GoTo, rt
    <2>2. TypeOK'
      BY <1>0, <1>1, <1>2, <1>3, <2>1 DEF TypeOK, Phases, Tokens, Answers, Runtimes
    <2>3. RoleOK'
      BY <1>0, <1>2, <1>3, <2>1 DEF TypeOK, RoleOK, Answers
    <2>4. ShownOK'
      BY <1>0, <1>1, <2>1 DEF TypeOK, ShownOK, StatusTruthful, Roles
    <2>5. KeptOK'
      BY <1>2, <2>1 DEF TypeOK, KeptOK
    <2> QED BY <2>2, <2>3, <2>4, <2>5
  <1>4. CASE ans[r].own \in {None, mem[r]} /\ ans[r].sibling # None
    <2>1. /\ phase' = [phase EXCEPT ![r] = "sibling"] /\ busy' = r /\ runtime' = rt
          /\ UNCHANGED mem
      BY <1>4 DEF Accepted, GoTo, rt
    <2>2. TypeOK'
      BY <1>1, <1>2, <2>1 DEF TypeOK, Phases, Runtimes
    <2>3. RoleOK'
      BY <1>2, <1>4, <2>1 DEF TypeOK, RoleOK
    <2>4. ShownOK'
      BY <1>0, <1>1, <2>1 DEF TypeOK, ShownOK, StatusTruthful, Roles
    <2>5. KeptOK'
      BY <1>0, <1>2, <2>1 DEF TypeOK, KeptOK
    <2> QED BY <2>2, <2>3, <2>4, <2>5
  <1>5. CASE ans[r].own \in {None, mem[r]} /\ ans[r].sibling = None
    <2>1. Proceed(r, rt) /\ UNCHANGED mem
      BY <1>5 DEF Accepted, rt
    <2>2. /\ phase' \in [Roles -> Phases] /\ runtime' \in Runtimes /\ busy' \in Roles \cup {None}
          /\ \A q \in Roles : q # r => phase'[q] = phase[q]
          /\ phase'[r] \in {"drain", "serving"}
          /\ ShownOK'
      BY <1>0, <1>1, <2>1, ProceedFacts
    <2>3. TypeOK'
      BY <1>2, <2>1, <2>2 DEF TypeOK, Runtimes
    <2>4. RoleOK' /\ KeptOK'
      BY <1>0, <1>2, <2>1, <2>2 DEF TypeOK, RoleOK, KeptOK
    <2> QED BY <2>2, <2>3, <2>4
  <1> QED BY <1>3, <1>4, <1>5

LEMMA MustWaitInv == ASSUME IInv, NEW r \in Roles, MustWait(r) PROVE IInv'
  <1> USE DEF IInv
  <1>0. runtime \in Runtimes /\ "PENDING" \in PairingStates
    BY DEF TypeOK, Runtimes, PairingStates
  <1>1. TypeOK'
    BY <1>0, NotifiedFacts DEF MustWait, TypeOK, GoTo, Phases, PairingStates, gatewayVars, Runtimes
  <1>2. RoleOK' /\ KeptOK'
    BY DEF MustWait, TypeOK, RoleOK, KeptOK, GoTo, gatewayVars
  <1>3. ShownOK'
    <2>1. runtime' = Notified(r, runtime, "PENDING")
      BY DEF MustWait
    <2> QED BY <1>0, <2>1, NotifiedFacts, ShownQuiet DEF MustWait, Phases, Roles
  <1> QED BY <1>1, <1>2, <1>3

LEMMA RejectedInv == ASSUME IInv, NEW r \in Roles, Rejected(r) PROVE IInv'
  <1> USE DEF IInv
  <1>1. TypeOK'
    BY DEF Rejected, TypeOK, GoTo, Phases, PairingStates, gatewayVars
  <1>2. RoleOK' /\ KeptOK'
    BY DEF Rejected, TypeOK, RoleOK, KeptOK, GoTo, gatewayVars
  <1>3. ShownOK'
    BY ShownQuiet DEF Rejected, Phases
  <1> QED BY <1>1, <1>2, <1>3

(* A connection that ends changes only the code of its answer.             *)
LEMMA AnswerCode ==
  ASSUME TypeOK, NEW r \in Roles, NEW c \in Codes, ans' = [ans EXCEPT ![r].code = c]
  PROVE  /\ ans' \in [Roles -> Answers]
         /\ \A q \in Roles : ans'[q].own = ans[q].own /\ ans'[q].sibling = ans[q].sibling
  <1>1. ans[r] \in Answers /\ ans \in [Roles -> Answers]
    BY DEF TypeOK
  <1>2. /\ [ans[r] EXCEPT !.code = c] \in Answers
        /\ [ans[r] EXCEPT !.code = c].own = ans[r].own
        /\ [ans[r] EXCEPT !.code = c].sibling = ans[r].sibling
    BY <1>1 DEF Answers
  <1>3. ans' = [ans EXCEPT ![r] = [ans[r] EXCEPT !.code = c]]
    OBVIOUS
  <1> QED BY <1>1, <1>2, <1>3

(* A step of the client that writes files and then goes on.                *)
LEMMA WriteProceeds ==
  ASSUME IInv, NEW r \in Roles, phase[r] \in {"own", "sibling", "pending"},
         Proceed(r, runtime), r = "node" => runtime.pairing_state = "PAIRED"
  PROVE  /\ phase' \in [Roles -> Phases] /\ runtime' \in Runtimes /\ busy' \in Roles \cup {None}
         /\ \A q \in Roles : q # r => phase'[q] = phase[q]
         /\ phase'[r] \in {"drain", "serving"}
         /\ ShownOK'
  <1>1. runtime \in Runtimes
    BY DEF IInv, TypeOK, Runtimes
  <1> QED BY <1>1, ProceedFacts DEF IInv

LEMMA WriteOwnInv == ASSUME IInv, NEW r \in Roles, WriteOwn(r) PROVE IInv'
  <1> USE DEF IInv
  <1>0. /\ phase[r] = "own" /\ mem[r] \in DeviceTokens /\ mem[r].role = r
        /\ r = "node" => runtime.pairing_state = "PAIRED"
        /\ UNCHANGED <<mem, pairing, backoff, record, accepted, gen, upsets>>
    BY DEF WriteOwn, TypeOK, RoleOK, ShownOK, Tokens, gatewayVars
  <1>1. CASE /\ file' = [file EXCEPT ![r] = mem[r]]
             /\ ans[r].sibling # None
             /\ phase' = [phase EXCEPT ![r] = "sibling"] /\ UNCHANGED <<busy, runtime, ans>>
    <2>1. TypeOK'
      BY <1>0, <1>1 DEF TypeOK, Phases
    <2>2. RoleOK' /\ KeptOK'
      BY <1>0, <1>1 DEF TypeOK, RoleOK, KeptOK
    <2>3. ShownOK'
      BY <1>0, <1>1 DEF TypeOK, ShownOK, StatusTruthful, Roles
    <2> QED BY <2>1, <2>2, <2>3
  <1>2. CASE file' = [file EXCEPT ![r] = mem[r]] /\ Proceed(r, runtime) /\ UNCHANGED ans
    <2>1. /\ phase' \in [Roles -> Phases] /\ runtime' \in Runtimes /\ busy' \in Roles \cup {None}
          /\ \A q \in Roles : q # r => phase'[q] = phase[q]
          /\ phase'[r] \in {"drain", "serving"}
          /\ ShownOK'
      BY <1>0, <1>2, WriteProceeds
    <2>2. TypeOK'
      BY <1>0, <1>2, <2>1 DEF TypeOK, Runtimes
    <2>3. RoleOK' /\ KeptOK'
      BY <1>0, <1>2, <2>1 DEF TypeOK, RoleOK, KeptOK
    <2> QED BY <2>1, <2>2, <2>3
  <1>3. CASE /\ "io_error" \in Faults /\ GoTo(r, "failing") /\ busy' = None
             /\ ans' = [ans EXCEPT ![r].code = "oserror"] /\ UNCHANGED <<file, runtime>>
    <2>0. phase' = [phase EXCEPT ![r] = "failing"]
      BY <1>3 DEF GoTo
    <2>4. /\ ans' \in [Roles -> Answers]
          /\ \A q \in Roles : ans'[q].own = ans[q].own /\ ans'[q].sibling = ans[q].sibling
      BY <1>3, AnswerCode DEF Codes
    <2>1. TypeOK'
      BY <1>0, <1>3, <2>0, <2>4 DEF TypeOK, Phases
    <2>2. RoleOK' /\ KeptOK'
      BY <1>0, <1>3, <2>0, <2>4 DEF TypeOK, RoleOK, KeptOK
    <2>3. ShownOK'
      BY <1>0, <1>3, ShownQuiet DEF Phases
    <2> QED BY <2>1, <2>2, <2>3
  <1> QED BY <1>1, <1>2, <1>3 DEF WriteOwn, GoTo

LEMMA WriteSiblingInv == ASSUME IInv, NEW r \in Roles, WriteSibling(r) PROVE IInv'
  <1> USE DEF IInv
  <1>0. /\ phase[r] = "sibling" /\ Proceed(r, runtime)
        /\ ans[r].sibling \in DeviceTokens /\ ans[r].sibling.role = Other(r)
        /\ r = "node" => runtime.pairing_state = "PAIRED"
        /\ UNCHANGED <<mem, pairing, backoff, ans, record, accepted, gen, upsets>>
        /\ file' = [file EXCEPT ![Other(r)] = ans[r].sibling] \/ UNCHANGED file
    BY DEF WriteSibling, TypeOK, RoleOK, ShownOK, Answers, gatewayVars
  <1>1. /\ phase' \in [Roles -> Phases] /\ runtime' \in Runtimes /\ busy' \in Roles \cup {None}
        /\ \A q \in Roles : q # r => phase'[q] = phase[q]
        /\ phase'[r] \in {"drain", "serving"}
        /\ ShownOK'
    BY <1>0, WriteProceeds
  <1>2. TypeOK'
    BY <1>0, <1>1, RoleFacts DEF TypeOK, Runtimes
  <1>3. RoleOK' /\ KeptOK'
    BY <1>0, <1>1, RoleFacts DEF TypeOK, RoleOK, KeptOK
  <1> QED BY <1>1, <1>2, <1>3

LEMMA PendingInv == ASSUME IInv, NEW r \in Roles, Pending(r) PROVE IInv'
  <1> USE DEF IInv
  <1>1. CASE Approved(r)
    <2> DEFINE rt == Notified(r, runtime, "PAIRED")
    <2>0. /\ phase[r] = "pending" /\ Proceed(r, rt)
          /\ runtime \in Runtimes /\ "PAIRED" \in PairingStates
          /\ pairing' \in [Roles -> PairingStates]
          /\ UNCHANGED <<mem, file, backoff, ans, record, accepted, gen, upsets>>
      BY <1>1 DEF Approved, TypeOK, Runtimes, PairingStates, gatewayVars
    <2>1. /\ rt \in Runtimes
          /\ rt.node_connected = runtime.node_connected
          /\ rt.operator_connected = runtime.operator_connected
          /\ rt.chat_relay = runtime.chat_relay
          /\ r = "node" => rt.pairing_state = "PAIRED"
          /\ r = "operator" => rt.pairing_state = runtime.pairing_state
      BY <2>0, NotifiedFacts
    <2> HIDE DEF rt
    <2>2. /\ phase' \in [Roles -> Phases] /\ runtime' \in Runtimes /\ busy' \in Roles \cup {None}
          /\ \A q \in Roles : q # r => phase'[q] = phase[q]
          /\ phase'[r] \in {"drain", "serving"}
          /\ ShownOK'
      BY <2>0, <2>1, ProceedFacts
    <2>3. TypeOK'
      BY <2>0, <2>2 DEF TypeOK, Runtimes
    <2>4. RoleOK' /\ KeptOK'
      BY <2>0, <2>2 DEF TypeOK, RoleOK, KeptOK
    <2> QED BY <2>2, <2>3, <2>4
  <1>2. CASE PendingCloses(r)
    <2>0. /\ phase[r] = "pending" /\ phase' = [phase EXCEPT ![r] = "failing"]
          /\ ans' = [ans EXCEPT ![r].code = "closed"]
          /\ UNCHANGED <<mem, file, pairing, backoff, busy, runtime, record, accepted, gen, upsets>>
      BY <1>2 DEF PendingCloses, GoTo, gatewayVars
    <2>1. /\ ans' \in [Roles -> Answers]
          /\ \A q \in Roles : ans'[q].own = ans[q].own /\ ans'[q].sibling = ans[q].sibling
      BY <2>0, AnswerCode DEF Codes
    <2>2. TypeOK'
      BY <2>0, <2>1 DEF TypeOK, Phases
    <2>3. RoleOK' /\ KeptOK'
      BY <2>0, <2>1 DEF TypeOK, RoleOK, KeptOK
    <2>4. ShownOK'
      BY <2>0, ShownQuiet DEF Phases, GoTo
    <2> QED BY <2>2, <2>3, <2>4
  <1> QED BY <1>1, <1>2 DEF Pending

LEMMA DrainedInv == ASSUME IInv, NEW r \in Roles, Drained(r) PROVE IInv'
  <1> USE DEF IInv
  <1>0. /\ phase[r] = "drain" /\ phase' = [phase EXCEPT ![r] = "serving"]
        /\ runtime \in Runtimes /\ runtime' = Connected(r, runtime, TRUE)
        /\ UNCHANGED <<mem, file, pairing, backoff, ans, busy, record, accepted, gen, upsets>>
    BY DEF Drained, GoTo, TypeOK, Runtimes, gatewayVars
  <1>1. TypeOK'
    BY <1>0, UpFacts DEF TypeOK, Phases, Runtimes
  <1>2. RoleOK' /\ KeptOK'
    BY <1>0 DEF TypeOK, RoleOK, KeptOK
  <1>3. ShownOK'
    <2>1. CASE r = "node"
      <3>1. /\ phase'["node"] = "serving" /\ phase'["operator"] = phase["operator"]
            /\ runtime.pairing_state = "PAIRED"
        BY <1>0, <2>1 DEF TypeOK, ShownOK, Roles
      <3> QED BY <1>0, <2>1, <3>1, UpFacts DEF ShownOK, StatusTruthful
    <2>2. CASE r = "operator"
      <3>1. phase'["operator"] = "serving" /\ phase'["node"] = phase["node"]
        BY <1>0, <2>2 DEF TypeOK, Roles
      <3> QED BY <1>0, <2>2, <3>1, UpFacts DEF ShownOK, StatusTruthful
    <2> QED BY <2>1, <2>2 DEF Roles
  <1> QED BY <1>1, <1>2, <1>3

LEMMA LoseInv ==
  ASSUME IInv, NEW r \in Roles, phase[r] \in {"sent", "drain", "serving"},
         \/ Close(r)
         \/ CleanClose(r)
  PROVE  IInv'
  <1> USE DEF IInv
  <1>0. /\ runtime \in Runtimes /\ runtime' = Connected(r, runtime, FALSE)
        /\ \E ph \in {"start", "failing"} : GoTo(r, ph) /\ phase' = [phase EXCEPT ![r] = ph]
        /\ ans' = [ans EXCEPT ![r].code = "closed"] \/ UNCHANGED ans
        /\ upsets' = upsets + 1
        /\ UNCHANGED <<mem, file, pairing, backoff, busy, record, accepted, gen>>
    BY DEF Close, CleanClose, Lose, Upset, GoTo, TypeOK, Runtimes, gatewayVars
  <1>1. PICK ph \in {"start", "failing"} : GoTo(r, ph) /\ phase' = [phase EXCEPT ![r] = ph]
    BY <1>0
  <1>2. /\ ans' \in [Roles -> Answers]
        /\ \A q \in Roles : ans'[q].own = ans[q].own /\ ans'[q].sibling = ans[q].sibling
    BY <1>0, AnswerCode DEF TypeOK, Codes
  <1>3. runtime' \in Runtimes
    BY <1>0, DownFacts
  <1>4. TypeOK'
    <2>1. phase' \in [Roles -> Phases]
      BY <1>1 DEF TypeOK, Phases
    <2>2. upsets' \in Nat /\ UNCHANGED <<mem, file, pairing, backoff, busy, record, accepted, gen>>
      BY <1>0 DEF TypeOK
    <2> QED BY <1>2, <1>3, <2>1, <2>2 DEF TypeOK, Runtimes
  <1>5. RoleOK' /\ KeptOK'
    BY <1>0, <1>1, <1>2 DEF TypeOK, RoleOK, KeptOK
  <1>6. ShownOK'
    <2>1. /\ r = "node" => /\ runtime'.node_connected = FALSE
                           /\ runtime'.operator_connected = runtime.operator_connected
                           /\ runtime'.chat_relay = runtime.chat_relay
          /\ r = "operator" => /\ runtime'.node_connected = runtime.node_connected
                               /\ runtime'.pairing_state = runtime.pairing_state
                               /\ runtime'.operator_connected = FALSE
                               /\ runtime'.chat_relay = FALSE
      BY <1>0, DownFacts
    <2> QED BY <1>1, <2>1, ShownDown DEF Phases
  <1> QED BY <1>4, <1>5, <1>6

LEMMA HandleFailureInv == ASSUME IInv, NEW r \in Roles, HandleFailure(r) PROVE IInv'
  <1> USE DEF IInv
  <1> DEFINE state == IF pairing[r] = "ERROR" THEN "ERROR" ELSE "UNKNOWN"
             rt == Notified(r, runtime, state)
  <1>0. /\ phase[r] = "failing" /\ GoTo(r, "sleep") /\ phase' = [phase EXCEPT ![r] = "sleep"]
        /\ runtime \in Runtimes /\ state \in PairingStates
        /\ pairing' = [pairing EXCEPT ![r] = state] /\ runtime' = Connected(r, rt, FALSE)
        /\ UNCHANGED <<ans, busy, record, accepted, gen, upsets>>
    BY DEF HandleFailure, GoTo, TypeOK, Runtimes, PairingStates, gatewayVars
  <1> HIDE DEF state
  <1>1. /\ rt \in Runtimes /\ rt.node_connected = runtime.node_connected
        /\ rt.operator_connected = runtime.operator_connected
        /\ rt.chat_relay = runtime.chat_relay
        /\ r = "operator" => rt.pairing_state = runtime.pairing_state
    BY <1>0, NotifiedFacts
  <1> HIDE DEF rt
  <1>2. /\ runtime' \in Runtimes
        /\ r = "node" => /\ runtime'.node_connected = FALSE
                         /\ runtime'.operator_connected = runtime.operator_connected
                         /\ runtime'.chat_relay = runtime.chat_relay
        /\ r = "operator" => /\ runtime'.node_connected = runtime.node_connected
                             /\ runtime'.pairing_state = runtime.pairing_state
                             /\ runtime'.operator_connected = FALSE
                             /\ runtime'.chat_relay = FALSE
    BY <1>0, <1>1, DownFacts
  <1>3. backoff' \in [Roles -> {0, 30, 60, 120, 240, 300}]
    <2>1. PICK given \in BOOLEAN : backoff' = [backoff EXCEPT ![r] = NextDelay(r, given)]
      BY DEF HandleFailure
    <2> QED BY <2>1, DelayType DEF TypeOK
  <1>4. \/ UNCHANGED <<mem, file>>
        \/ /\ mem' = [mem EXCEPT ![r] = PairingToken]
           /\ file' = [file EXCEPT ![r] = None] \/ UNCHANGED file
    BY DEF HandleFailure
  <1>5. TypeOK'
    <2>1. phase' \in [Roles -> Phases] /\ pairing' \in [Roles -> PairingStates]
      BY <1>0 DEF TypeOK, Phases
    <2>2. mem' \in [Roles -> Tokens] /\ file' \in [Roles -> DeviceTokens \cup {None}]
      BY <1>4 DEF TypeOK, Tokens
    <2>3. UNCHANGED <<ans, busy, record, accepted, gen, upsets>>
      BY <1>0
    <2> QED BY <1>2, <1>3, <2>1, <2>2, <2>3 DEF TypeOK, Runtimes
  <1>6. RoleOK' /\ KeptOK'
    BY <1>0, <1>4 DEF TypeOK, RoleOK, KeptOK
  <1>7. ShownOK'
    BY <1>0, <1>2, ShownDown DEF Phases
  <1> QED BY <1>5, <1>6, <1>7

LEMMA WakeInv == ASSUME IInv, NEW r \in Roles, Wake(r) PROVE IInv'
  <1> USE DEF IInv
  <1>1. TypeOK'
    BY DEF Wake, TypeOK, GoTo, Phases, gatewayVars
  <1>2. RoleOK' /\ KeptOK'
    BY DEF Wake, TypeOK, RoleOK, KeptOK, GoTo, gatewayVars
  <1>3. ShownOK'
    BY ShownQuiet DEF Wake, Phases
  <1> QED BY <1>1, <1>2, <1>3

LEMMA RestartInv == ASSUME IInv, Restart PROVE IInv'
  <1> USE DEF IInv
  <1>0. /\ \A r \in Roles : /\ Loaded(r) \in Tokens
                            /\ Loaded(r) # PairingToken => file[r] # None /\ Loaded(r) = file[r]
        /\ UNCHANGED <<file, record, accepted, gen>> /\ upsets' = upsets + 1
    BY DEF Restart, Loaded, TypeOK, Tokens, Upset, gatewayVars
  <1>1. TypeOK'
    BY <1>0 DEF Restart, TypeOK, Phases, PairingStates, Answers, NoAnswer, Answer, Codes, Fresh
  <1>2. RoleOK' /\ KeptOK'
    BY <1>0 DEF Restart, RoleOK, KeptOK, NoAnswer, Answer
  <1>3. ShownOK'
    BY DEF Restart, ShownOK, StatusTruthful, Fresh, Roles
  <1> QED BY <1>1, <1>2, <1>3

(* An answer of the gateway is well formed and carries each role's token.  *)
LEMMA ReplyInv ==
  ASSUME IInv, NEW r \in Roles, NEW a \in Answers, Reply(r, a),
         a.own # None => a.own.role = r,
         a.sibling # None => a.sibling.role = Other(r),
         phase[r] = "sent",
         record' \in Records, accepted' \in [Roles -> DeviceTokens \cup {None}],
         \A q \in Roles : accepted'[q] # None => accepted'[q].role = q,
         gen' \in Nat, upsets' \in Nat
  PROVE  IInv'
  <1> USE DEF IInv
  <1>1. TypeOK'
    BY DEF Reply, TypeOK
  <1>2. RoleOK' /\ KeptOK'
    BY DEF Reply, TypeOK, RoleOK, KeptOK
  <1>3. ShownOK'
    BY DEF Reply, ShownOK, StatusTruthful
  <1> QED BY <1>1, <1>2, <1>3

LEMMA AnswerInv == ASSUME IInv, NEW r \in Roles, Gateway(r) \/ AnswerRefused(r) PROVE IInv'
  <1> USE DEF IInv
  <1>0. /\ \A c \in Codes : /\ Answer(c, None, None) \in Answers
                            /\ Answer(c, None, None).own = None
                            /\ Answer(c, None, None).sibling = None
        /\ \A q \in Roles : Token(q, gen) \in DeviceTokens /\ Token(q, gen).role = q
        /\ \A q \in Roles : accepted[q] # None => accepted[q] \in DeviceTokens /\ accepted[q].role = q
    BY DEF Answer, Answers, Token, DeviceTokens, TypeOK, RoleOK
  <1>1. CASE AnswerKnown(r)
    <2> DEFINE a == Answer("ok", mem[r], None)
    <2>1. /\ a \in Answers /\ a.own.role = r /\ a.sibling = None
          /\ Reply(r, a) /\ phase[r] = "sent" /\ UNCHANGED <<record, accepted, gen, upsets>>
      BY <1>0, <1>1 DEF AnswerKnown, Asks, Answer, Answers, Codes, gatewayVars
    <2> HIDE DEF a
    <2> QED BY <1>0, <2>1, ReplyInv DEF TypeOK
  <1>2. CASE AnswerRedeem(r)
    <2>0. /\ \A q \in Roles : Issued(q, gen) \in DeviceTokens /\ Issued(q, gen).role = q
          /\ phase[r] = "sent" /\ record' \in Records /\ UNCHANGED <<gen, upsets>>
      BY <1>0, <1>2 DEF AnswerRedeem, Issued, Asks, Records
    <2>1. CASE r \in Seeds
      <3> DEFINE a == Answer("ok", Token(r, gen), Issued(Other(r), gen))
      <3>1. Reply(r, a) /\ accepted' = [q \in Roles |-> Issued(q, gen)]
        BY <1>2, <2>1 DEF AnswerRedeem
      <3>2. a \in Answers /\ a.own.role = r /\ a.sibling.role = Other(r)
        BY <1>0, <2>0, RoleFacts DEF Answer, Answers, Codes
      <3> HIDE DEF a
      <3> QED BY <2>0, <3>1, <3>2, ReplyInv DEF TypeOK
    <2>2. CASE r \notin Seeds
      <3> DEFINE a == Answer("ok", Token(r, gen), None)
      <3>1. Reply(r, a) /\ accepted' = [accepted EXCEPT ![r] = Token(r, gen)]
        BY <1>2, <2>2 DEF AnswerRedeem
      <3>2. a \in Answers /\ a.own.role = r /\ a.sibling = None
        BY <1>0 DEF Answer, Answers, Codes
      <3>3. /\ accepted' \in [Roles -> DeviceTokens \cup {None}]
            /\ \A q \in Roles : accepted'[q] # None => accepted'[q].role = q
        BY <1>0, <3>1 DEF TypeOK
      <3> HIDE DEF a
      <3> QED BY <2>0, <3>1, <3>2, <3>3, ReplyInv DEF TypeOK
    <2> QED BY <2>1, <2>2
  <1>3. CASE AnswerUnpaired(r) \/ AnswerMismatch(r) \/ AnswerRefused(r)
    <2>1. /\ \E c \in Codes : Reply(r, Answer(c, None, None))
          /\ phase[r] = "sent" /\ record' \in Records /\ UNCHANGED <<accepted, gen>>
          /\ upsets' \in Nat
      BY <1>3 DEF AnswerUnpaired, AnswerMismatch, AnswerRefused, Asks, Upset, Codes, Records,
                  gatewayVars, TypeOK
    <2>2. PICK c \in Codes : Reply(r, Answer(c, None, None))
      BY <2>1
    <2> QED BY <1>0, <2>1, <2>2, ReplyInv DEF TypeOK
  <1> QED BY <1>1, <1>2, <1>3 DEF Gateway

LEMMA ApproveInv == ASSUME IInv, Approve PROVE IInv'
  <1> USE DEF IInv
  <1>1. TypeOK'
    BY DEF Approve, TypeOK, Records, clientVars
  <1>2. RoleOK' /\ ShownOK' /\ KeptOK'
    BY DEF Approve, RoleOK, ShownOK, StatusTruthful, KeptOK, clientVars
  <1> QED BY <1>1, <1>2

LEMMA EvictInv == ASSUME IInv, Evict PROVE IInv'
  <1> USE DEF IInv
  <1> DEFINE cut == {r \in Roles : phase[r] \in {"sent", "pending", "drain", "serving"}}
             gone == Answer("closed", None, None)
  <1>0. /\ phase' = [r \in Roles |-> IF r \in cut THEN "failing" ELSE phase[r]]
        /\ ans' = [r \in Roles |-> IF r \in cut THEN gone ELSE ans[r]]
        /\ runtime' = [runtime EXCEPT !.node_connected = FALSE,
                                      !.operator_connected = FALSE, !.chat_relay = FALSE]
        /\ record' = "absent" /\ accepted' = [r \in Roles |-> None]
        /\ UNCHANGED <<mem, file, pairing, backoff, busy, gen, upsets>>
    BY DEF Evict
  <1>1. gone \in Answers /\ gone.own = None /\ gone.sibling = None
    BY DEF Answer, Answers, Codes
  <1> HIDE DEF gone
  <1>2. /\ runtime' \in Runtimes /\ runtime'.node_connected = FALSE
        /\ runtime'.operator_connected = FALSE /\ runtime'.chat_relay = FALSE
        /\ runtime'.pairing_state = runtime.pairing_state
    BY <1>0 DEF TypeOK, Runtimes
  <1>3. TypeOK'
    BY <1>0, <1>1, <1>2 DEF TypeOK, Phases, Records, Runtimes
  <1>4. RoleOK' /\ KeptOK'
    BY <1>0, <1>1 DEF TypeOK, RoleOK, KeptOK
  <1>5. ShownOK'
    BY <1>0, <1>2 DEF TypeOK, ShownOK, StatusTruthful, Roles
  <1> QED BY <1>3, <1>4, <1>5

LEMMA NextInv == IInv /\ [Next]_vars => IInv'
  <1> SUFFICES ASSUME IInv, [Next]_vars PROVE IInv'
    OBVIOUS
  <1>1. ASSUME NEW r \in Roles, Handshake(r) PROVE IInv'
    BY <1>1, ConnectInv, AcceptedInv, MustWaitInv, RejectedInv, WriteOwnInv, WriteSiblingInv,
       DrainedInv DEF Handshake
  <1>2. ASSUME NEW r \in Roles, Retry(r) PROVE IInv'
    BY <1>2, HandleFailureInv, WakeInv DEF Retry
  <1>3. ASSUME NEW r \in Roles, Gateway(r) \/ AnswerRefused(r) PROVE IInv'
    BY <1>3, AnswerInv
  <1>4. ASSUME NEW r \in Roles, Close(r) \/ CleanClose(r) PROVE IInv'
    <2>1. phase[r] \in {"sent", "drain", "serving"}
      BY <1>4 DEF Close, CleanClose
    <2> QED BY <1>4, <2>1, LoseInv
  <1>5. CASE UNCHANGED vars
    BY <1>5 DEF vars, clientVars, gatewayVars, IInv, TypeOK, RoleOK, ShownOK, StatusTruthful,
                KeptOK
  <1> QED BY <1>1, <1>2, <1>3, <1>4, <1>5, PendingInv, RestartInv, ApproveInv, EvictInv DEF Next

LEMMA SpecInv == Spec => []IInv
  BY InitInv, NextInv, PTL DEF Spec

(* Types: in every behaviour the clients' fields keep their types, and the *)
(* rate-limit delay stays one of _next_reconnect_delay's steps, at most    *)
(* _RATE_LIMITED_BACKOFF_MAX_S.                                            *)
THEOREM TypeCorrect == Spec => []TypeOK
  <1>1. IInv => TypeOK
    BY DEF IInv
  <1> QED BY <1>1, SpecInv, PTL

(* _persist_device_token and _persist_dual_role_tokens never put one       *)
(* role's token into the other's file, whichever answer carries both.      *)
THEOREM Apart == Spec => []TokensKeptApart
  <1>1. IInv => TokensKeptApart
    BY DEF IInv, RoleOK, TokensKeptApart
  <1> QED BY <1>1, SpecInv, PTL

(* NodeRuntime's flags, relay and pairing state tell the HTTP API the      *)
(* truth about both connections after every step of either.                *)
THEOREM Truthful == Spec => []StatusTruthful
  <1>1. IInv => StatusTruthful
    BY DEF IInv, ShownOK
  <1> QED BY <1>1, SpecInv, PTL

(* If token files can be written, a client that serves with a device token *)
(* has one on disk.  (One that could not be written is only in memory.)    *)
THEOREM Durable ==
  ASSUME "io_error" \notin Faults
  PROVE  Spec => []ServingIsDurable
  <1>1. IInv => ServingIsDurable
    BY DEF IInv, KeptOK, ServingIsDurable
  <1> QED BY <1>1, SpecInv, PTL

-----------------------------------------------------------------------------
(* What a connect response promises while its client acts on it: a token   *)
(* it carries is the one the gateway accepts, and the gateway's record     *)
(* does not change while token files are written.                          *)
PromiseOK ==
    /\ \A r \in Roles : phase[r] \in {"own", "sibling"} => busy = r /\ ans[r].code = "ok"
    /\ \A r \in Roles : phase[r] = "own" => mem[r] = ans[r].own
    /\ \A r \in Roles : r \notin Seeds => ans[r].sibling = None
    /\ \A r \in Roles :
          phase[r] \in {"sent", "own", "sibling"} /\ ans[r].code = "ok" =>
             /\ ans[r].own # None /\ ans[r].own = accepted[r]
             /\ ans[r].sibling # None => ans[r].sibling = accepted[Other(r)]
    /\ record # "paired" => \A r \in Roles : accepted[r] = None

Rejections == {"NOT_PAIRED", "AUTH_TOKEN_MISMATCH"}

(* What a rejection of the node's token says: if only the node's answers   *)
(* carry both tokens, no one else writes the node's file, so the file it   *)
(* would remove holds the rejected token.                                  *)
RejectOK ==
    "operator" \notin Seeds =>
        /\ phase["node"] = "sent" =>
              mem["node"] = PairingToken \/ file["node"] \in {None, mem["node"]}
        /\ phase["node"] \in {"sent", "failing"} /\ ans["node"].code \in Rejections =>
              /\ mem["node"] # accepted["node"]
              /\ mem["node"] = PairingToken \/ file["node"] \in {None, mem["node"]}

KInv == IInv /\ PromiseOK /\ RejectOK

LEMMA InitKept == Init => PromiseOK /\ RejectOK
  BY DEF Init, PromiseOK, RejectOK, NoAnswer, Answer, Roles, Rejections

LEMMA ConnectKept == ASSUME KInv, NEW r \in Roles, Connect(r) PROVE PromiseOK' /\ RejectOK'
  <1> USE DEF KInv, IInv, TypeOK, Connect, GoTo, NoAnswer, Answer, gatewayVars
  <1>1. PromiseOK'
    BY DEF PromiseOK
  <1>2. RejectOK'
    BY DEF RejectOK, Rejections, Roles
  <1> QED BY <1>1, <1>2

LEMMA AcceptedKept == ASSUME KInv, NEW r \in Roles, Accepted(r) PROVE PromiseOK' /\ RejectOK'
  <1>0. /\ ans[r].code = "ok" /\ phase[r] = "sent"
        /\ UNCHANGED <<file, ans, record, accepted>>
        /\ \/ /\ phase' = [phase EXCEPT ![r] = "own"] /\ busy' = r
              /\ mem' = [mem EXCEPT ![r] = ans[r].own]
           \/ /\ phase' = [phase EXCEPT ![r] = "sibling"] /\ busy' = r /\ UNCHANGED mem
           \/ /\ \E ph \in {"drain", "serving"} : phase' = [phase EXCEPT ![r] = ph]
              /\ busy' = None /\ UNCHANGED mem
        /\ busy = None
    BY DEF Accepted, Proceed, GoTo, gatewayVars
  <1> USE DEF KInv, IInv, TypeOK
  <1>1. PromiseOK'
    BY <1>0, RoleFacts DEF PromiseOK
  <1>2. RejectOK'
    BY <1>0 DEF RejectOK, Rejections, Roles
  <1> QED BY <1>1, <1>2

(* Steps of one client that leave the tokens and the gateway alone and     *)
(* move it on, perhaps with a new exception.                               *)
LEMMA MoveKept ==
  ASSUME KInv, NEW r \in Roles, NEW ph \in Phases \ {"sent", "own", "sibling"},
         phase' = [phase EXCEPT ![r] = ph],
         ph = "failing" /\ ans'[r].code \in Rejections => phase[r] = "sent" /\ UNCHANGED ans,
         ans' \in [Roles -> Answers],
         \A q \in Roles \ {r} : ans'[q] = ans[q],
         \A q \in Roles : ans'[q].sibling = ans[q].sibling,
         busy' = busy \/ busy = r, busy = r => phase[r] \in {"own", "sibling"},
         UNCHANGED <<mem, file, record, accepted>>
  PROVE  PromiseOK' /\ RejectOK'
  <1> USE DEF KInv, IInv, TypeOK
  <1>1. PromiseOK'
    BY RoleFacts DEF PromiseOK
  <1>2. RejectOK'
    BY DEF RejectOK, Rejections, Roles
  <1> QED BY <1>1, <1>2

LEMMA QuietKept ==
  ASSUME KInv, NEW r \in Roles,
         \/ MustWait(r) \/ Rejected(r) \/ Approved(r) \/ Drained(r) \/ CleanClose(r) \/ Wake(r)
  PROVE  PromiseOK' /\ RejectOK'
  <1>0. /\ UNCHANGED <<mem, file, ans, record, accepted>> /\ busy = None /\ busy' = busy
        /\ \E ph \in {"pending", "failing", "drain", "serving", "start"} :
              /\ phase' = [phase EXCEPT ![r] = ph]
              /\ ph = "failing" => phase[r] = "sent"
    BY DEF MustWait, Rejected, Approved, Drained, CleanClose, Wake, Proceed, GoTo, gatewayVars
  <1>1. PICK ph \in {"pending", "failing", "drain", "serving", "start"} :
              /\ phase' = [phase EXCEPT ![r] = ph]
              /\ ph = "failing" => phase[r] = "sent"
    BY <1>0
  <1>2. ph \in Phases \ {"sent", "own", "sibling"} /\ ans' \in [Roles -> Answers] /\ busy # r
    BY <1>0, <1>1, RoleFacts DEF Phases, KInv, IInv, TypeOK
  <1> QED BY <1>0, <1>1, <1>2, MoveKept

(* The connection ends with an exception that is no rejection.             *)
LEMMA FailKept ==
  ASSUME KInv, NEW r \in Roles, NEW c \in {"closed", "oserror"},
         phase' = [phase EXCEPT ![r] = "failing"], ans' = [ans EXCEPT ![r].code = c],
         UNCHANGED <<mem, file, record, accepted>>,
         busy' = busy \/ busy = r, busy = r => phase[r] \in {"own", "sibling"}
  PROVE  PromiseOK' /\ RejectOK'
  <1>1. c \in Codes /\ c \notin Rejections /\ "failing" \in Phases \ {"sent", "own", "sibling"}
    BY DEF Codes, Rejections, Phases
  <1>2. /\ ans' \in [Roles -> Answers]
        /\ \A q \in Roles : ans'[q].own = ans[q].own /\ ans'[q].sibling = ans[q].sibling
    BY <1>1, AnswerCode DEF KInv, IInv
  <1>3. ans'[r].code = c /\ \A q \in Roles \ {r} : ans'[q] = ans[q]
    BY DEF KInv, IInv, TypeOK, Answers
  <1> QED BY <1>1, <1>2, <1>3, MoveKept

LEMMA CloseKept ==
  ASSUME KInv, NEW r \in Roles, Close(r) \/ PendingCloses(r)
  PROVE  PromiseOK' /\ RejectOK'
  <1>1. /\ phase' = [phase EXCEPT ![r] = "failing"] /\ ans' = [ans EXCEPT ![r].code = "closed"]
        /\ UNCHANGED <<mem, file, record, accepted, busy>> /\ busy # r
    BY RoleFacts DEF Close, PendingCloses, Lose, GoTo, gatewayVars
  <1> QED BY <1>1, FailKept

LEMMA WriteOwnKept == ASSUME KInv, NEW r \in Roles, WriteOwn(r) PROVE PromiseOK' /\ RejectOK'
  <1>0. phase[r] = "own" /\ busy = r /\ UNCHANGED <<mem, record, accepted>>
    BY DEF WriteOwn, KInv, PromiseOK, gatewayVars
  <1>1. CASE /\ file' = [file EXCEPT ![r] = mem[r]] /\ UNCHANGED ans
             /\ \/ phase' = [phase EXCEPT ![r] = "sibling"] /\ UNCHANGED busy
                \/ /\ \E ph \in {"drain", "serving"} : phase' = [phase EXCEPT ![r] = ph]
                   /\ busy' = None
    <2> USE DEF KInv, IInv, TypeOK
    <2>1. PromiseOK'
      BY <1>0, <1>1, RoleFacts DEF PromiseOK
    <2>2. RejectOK'
      BY <1>0, <1>1 DEF RejectOK, Rejections, Roles
    <2> QED BY <2>1, <2>2
  <1>2. CASE /\ phase' = [phase EXCEPT ![r] = "failing"] /\ UNCHANGED file
             /\ ans' = [ans EXCEPT ![r].code = "oserror"]
    BY <1>0, <1>2, FailKept
  <1> QED BY <1>1, <1>2 DEF WriteOwn, Proceed, GoTo

LEMMA WriteSiblingKept ==
  ASSUME KInv, NEW r \in Roles, WriteSibling(r)
  PROVE  PromiseOK' /\ RejectOK'
  <1>0. /\ phase[r] = "sibling" /\ busy = r /\ UNCHANGED <<mem, ans, record, accepted>>
        /\ \E ph \in {"drain", "serving"} : phase' = [phase EXCEPT ![r] = ph]
        /\ busy' = None /\ ans[r].sibling # None /\ r \in Seeds
        /\ file' = [file EXCEPT ![Other(r)] = ans[r].sibling] \/ UNCHANGED file
    BY DEF WriteSibling, KInv, IInv, RoleOK, PromiseOK, Proceed, GoTo, gatewayVars
  <1> USE DEF KInv, IInv, TypeOK
  <1>1. PromiseOK'
    BY <1>0, RoleFacts DEF PromiseOK
  <1>2. RejectOK'
    BY <1>0 DEF RejectOK, Rejections, Roles, Other
  <1> QED BY <1>1, <1>2

LEMMA HandleFailureKept ==
  ASSUME KInv, NEW r \in Roles, HandleFailure(r)
  PROVE  PromiseOK' /\ RejectOK'
  <1>0. /\ phase[r] = "failing" /\ phase' = [phase EXCEPT ![r] = "sleep"]
        /\ UNCHANGED <<ans, busy, record, accepted>>
        /\ mem' = [mem EXCEPT ![r] = PairingToken] \/ UNCHANGED mem
        /\ file' = [file EXCEPT ![r] = None] \/ UNCHANGED file
    BY DEF HandleFailure, GoTo, gatewayVars
  <1> USE DEF KInv, IInv, TypeOK
  <1>1. PromiseOK'
    BY <1>0 DEF PromiseOK
  <1>2. RejectOK'
    BY <1>0 DEF RejectOK, Rejections, Roles
  <1> QED BY <1>1, <1>2

LEMMA AnswerKept ==
  ASSUME KInv, NEW r \in Roles, Gateway(r) \/ AnswerRefused(r)
  PROVE  PromiseOK' /\ RejectOK'
  <1>0. /\ phase[r] = "sent" /\ UNCHANGED <<phase, mem, file, busy>> /\ mem[r] # None
        /\ \A q \in Roles : Token(q, gen) # None
        /\ \A q \in Roles \ {r} : q = Other(r)
    BY DEF Gateway, AnswerKnown, AnswerRedeem, AnswerUnpaired, AnswerMismatch, AnswerRefused,
           Asks, Reply, KInv, IInv, TypeOK, Tokens, Token, DeviceTokens, Roles, Other
  <1> USE DEF KInv, IInv, TypeOK
  <1>1. CASE AnswerKnown(r)
    <2>1. /\ ans' = [ans EXCEPT ![r] = Answer("ok", mem[r], None)]
          /\ UNCHANGED <<record, accepted>> /\ mem[r] = accepted[r]
      BY <1>1 DEF AnswerKnown, Reply, gatewayVars
    <2>2. PromiseOK'
      BY <1>0, <2>1 DEF PromiseOK, Answer
    <2>3. RejectOK'
      BY <1>0, <2>1 DEF RejectOK, Rejections, Roles, Answer
    <2> QED BY <2>2, <2>3
  <1>2. CASE AnswerRedeem(r)
    <2> DEFINE sib == IF r \in Seeds THEN Issued(Other(r), gen) ELSE None
    <2>1. /\ ans' = [ans EXCEPT ![r] = Answer("ok", Token(r, gen), sib)]
          /\ record' = "paired" /\ accepted[r] = None
          /\ r \in Seeds => accepted' = [q \in Roles |-> Issued(q, gen)]
          /\ r \notin Seeds => accepted' = [accepted EXCEPT ![r] = Token(r, gen)]
      BY <1>2 DEF AnswerRedeem, Reply, MayRedeem
    <2>2. /\ accepted'[r] = Token(r, gen)
          /\ \A q \in Roles : accepted[q] # None => accepted'[q] = accepted[q]
          /\ sib # None => r \in Seeds /\ sib = accepted'[Other(r)]
          /\ r \notin Seeds => \A q \in Roles \ {r} : accepted'[q] = accepted[q]
      BY <2>1, RoleFacts DEF Issued
    <2> HIDE DEF sib
    <2>3. PromiseOK'
      <3>1. /\ ans'[r].own = Token(r, gen) /\ ans'[r].sibling = sib /\ ans'[r].code = "ok"
            /\ \A q \in Roles \ {r} : ans'[q] = ans[q]
        BY <2>1 DEF Answer
      <3> QED BY <1>0, <2>1, <2>2, <3>1, RoleFacts DEF PromiseOK
    <2>4. RejectOK'
      BY <1>0, <2>1, <2>2 DEF RejectOK, Rejections, Roles, Answer
    <2> QED BY <2>3, <2>4
  <1>3. CASE AnswerUnpaired(r) \/ AnswerMismatch(r) \/ AnswerRefused(r)
    <2>1. PICK c \in Codes \ {"ok"} :
             /\ ans' = [ans EXCEPT ![r] = Answer(c, None, None)]
             /\ c \in Rejections => mem[r] # accepted[r]
      BY <1>0, <1>3 DEF AnswerUnpaired, AnswerMismatch, AnswerRefused, Reply, Codes, Rejections,
                        PromiseOK
    <2>2. /\ UNCHANGED accepted /\ (record' = record \/ record # "paired")
      BY <1>3 DEF AnswerUnpaired, AnswerMismatch, AnswerRefused, gatewayVars
    <2>3. PromiseOK'
      BY <1>0, <2>1, <2>2 DEF PromiseOK, Answer
    <2>4. RejectOK'
      BY <1>0, <2>1, <2>2 DEF RejectOK, Roles, Answer
    <2> QED BY <2>3, <2>4
  <1> QED BY <1>1, <1>2, <1>3 DEF Gateway

LEMMA ApproveKept == ASSUME KInv, Approve PROVE PromiseOK' /\ RejectOK'
  BY DEF KInv, Approve, PromiseOK, RejectOK, clientVars

LEMMA EvictKept == ASSUME KInv, Evict PROVE PromiseOK' /\ RejectOK'
  <1>0. /\ busy = None /\ UNCHANGED <<mem, file, busy>>
        /\ \A r \in Roles :
              /\ accepted'[r] = None
              /\ \/ phase'[r] = "failing" /\ ans'[r] = Answer("closed", None, None)
                 \/ /\ phase'[r] = phase[r] /\ ans'[r] = ans[r]
                    /\ phase[r] \notin {"sent", "own", "sibling"}
    BY RoleFacts DEF Evict, KInv, PromiseOK
  <1>1. PromiseOK'
    BY <1>0 DEF KInv, PromiseOK, Answer
  <1>2. RejectOK'
    <2>1. mem["node"] # None
      BY RoleFacts DEF KInv, IInv, TypeOK, Roles
    <2> QED BY <1>0, <2>1 DEF KInv, RejectOK, Rejections, Answer, Roles
  <1> QED BY <1>1, <1>2

LEMMA RestartKept == ASSUME KInv, Restart PROVE PromiseOK' /\ RejectOK'
  BY DEF KInv, Restart, PromiseOK, RejectOK, NoAnswer, Answer, Roles, gatewayVars

LEMMA NextKept == KInv /\ [Next]_vars => KInv'
  <1> SUFFICES ASSUME KInv, [Next]_vars PROVE PromiseOK' /\ RejectOK'
    BY NextInv DEF KInv
  <1>1. ASSUME NEW r \in Roles, Handshake(r) PROVE PromiseOK' /\ RejectOK'
    BY <1>1, ConnectKept, AcceptedKept, QuietKept, WriteOwnKept, WriteSiblingKept DEF Handshake
  <1>2. ASSUME NEW r \in Roles, Retry(r) PROVE PromiseOK' /\ RejectOK'
    BY <1>2, HandleFailureKept, QuietKept DEF Retry
  <1>3. ASSUME NEW r \in Roles, Pending(r) \/ Close(r) \/ CleanClose(r)
        PROVE  PromiseOK' /\ RejectOK'
    BY <1>3, QuietKept, CloseKept DEF Pending
  <1>4. CASE UNCHANGED vars
    BY <1>4 DEF vars, clientVars, gatewayVars, KInv, PromiseOK, RejectOK
  <1> QED BY <1>1, <1>2, <1>3, <1>4, AnswerKept, RestartKept, ApproveKept, EvictKept DEF Next

-----------------------------------------------------------------------------
(* The device tokens a role holds, is being sent, or has on record.        *)
Held(r) == {mem[r], file[r], ans[r].own, ans[Other(r)].sibling, accepted[r]} \cap DeviceTokens
Issuing == record \in {"approved", "paired"}

(* A token is from this pairing or an older one, and from an older one if  *)
(* this pairing has issued none to its role yet.                           *)
FreshOK ==
    \A r \in Roles : \A t \in Held(r) :
        t.gen <= gen /\ (Issuing /\ accepted[r] = None => t.gen # gen)

(* The node still holds the token whose rejection it is about to handle,   *)
(* and the gateway does not accept that token.                             *)
StaleOK ==
    phase["node"] \in {"sent", "failing"} /\ ans["node"].code \in Rejections =>
        mem["node"] # accepted["node"]

LEMMA InitFresh == Init => FreshOK /\ StaleOK
  BY DEF Init, FreshOK, StaleOK, Held, NoAnswer, Answer, Roles, Other, Rejections

(* Steps that issue no token and start no pairing hand around what is held. *)
LEMMA HandedAround ==
  ASSUME FreshOK, UNCHANGED <<gen, accepted>>, UNCHANGED record \/ ~Issuing',
         \A r \in Roles : Held(r)' \subseteq Held(r)
  PROVE  FreshOK'
  BY DEF FreshOK, Issuing

LEMMA ClientFresh ==
  ASSUME KInv, FreshOK, StaleOK, NEW r \in Roles,
         \/ Handshake(r) \/ Retry(r) \/ Pending(r) \/ Close(r) \/ CleanClose(r)
  PROVE  FreshOK' /\ StaleOK'
  <1>0. /\ UNCHANGED <<gen, accepted, record>> /\ Other(r) \in Roles /\ Other(r) # r
        /\ Other(Other(r)) = r /\ Roles = {r, Other(r)}
    BY DEF Handshake, Retry, Pending, Close, CleanClose, Connect, Accepted, MustWait, Rejected,
           WriteOwn, WriteSibling, Drained, HandleFailure, Wake, Approved, PendingCloses,
           gatewayVars, Roles, Other
  <1>1. /\ mem \in [Roles -> Tokens] /\ file \in [Roles -> DeviceTokens \cup {None}]
        /\ ans \in [Roles -> Answers] /\ phase \in [Roles -> Phases]
    BY DEF KInv, IInv, TypeOK
  <1>2. CASE Connect(r)
    <2>1. /\ phase' = [phase EXCEPT ![r] = "sent"] /\ UNCHANGED file
          /\ mem' = [mem EXCEPT ![r] = IF file[r] # None THEN file[r] ELSE mem[r]]
          /\ ans' = [ans EXCEPT ![r] = NoAnswer]
      BY <1>2 DEF Connect, GoTo
    <2>2. ASSUME NEW q \in Roles PROVE Held(q)' \subseteq Held(q)
      BY <1>0, <1>1, <2>1 DEF Held, NoAnswer, Answer
    <2>3. StaleOK'
      BY <1>0, <1>1, <2>1 DEF StaleOK, NoAnswer, Answer, Rejections, Roles
    <2> QED BY <1>0, <2>2, <2>3, HandedAround
  <1>3. CASE Accepted(r)
    <2>1. /\ phase[r] = "sent" /\ UNCHANGED <<file, ans>> /\ ans[r].code = "ok"
          /\ \E ph \in {"own", "sibling", "drain", "serving"} : phase' = [phase EXCEPT ![r] = ph]
          /\ mem' = [mem EXCEPT ![r] = ans[r].own] \/ UNCHANGED mem
      BY <1>3 DEF Accepted, Proceed, GoTo
    <2>2. ASSUME NEW q \in Roles PROVE Held(q)' \subseteq Held(q)
      BY <1>0, <1>1, <2>1 DEF Held
    <2>3. StaleOK'
      BY <1>0, <1>1, <2>1 DEF StaleOK, Rejections, Roles
    <2> QED BY <1>0, <2>2, <2>3, HandedAround
  <1>4. CASE WriteOwn(r) \/ WriteSibling(r)
    <2>1. /\ phase[r] \in {"own", "sibling"} /\ UNCHANGED mem
          /\ \E ph \in {"sibling", "drain", "serving", "failing"} : phase' = [phase EXCEPT ![r] = ph]
          /\ \/ file' = [file EXCEPT ![r] = mem[r]]
             \/ file' = [file EXCEPT ![Other(r)] = ans[r].sibling]
             \/ UNCHANGED file
          /\ \/ UNCHANGED ans /\ phase'[r] # "failing"
             \/ ans' = [ans EXCEPT ![r].code = "oserror"]
      BY <1>1, <1>4 DEF WriteOwn, WriteSibling, Proceed, GoTo
    <2>2. /\ \A q \in Roles : ans'[q].own = ans[q].own /\ ans'[q].sibling = ans[q].sibling
          /\ ans'[Other(r)] = ans[Other(r)]
          /\ phase'[r] = "failing" => ans'[r].code = "oserror"
      BY <1>0, <1>1, <2>1 DEF Answers
    <2>3. ASSUME NEW q \in Roles PROVE Held(q)' \subseteq Held(q)
      BY <1>0, <1>1, <2>1, <2>2 DEF Held
    <2>4. StaleOK'
      BY <1>0, <1>1, <2>1, <2>2 DEF StaleOK, Rejections, Roles
    <2> QED BY <1>0, <2>3, <2>4, HandedAround
  <1>5. CASE HandleFailure(r)
    <2>1. /\ phase' = [phase EXCEPT ![r] = "sleep"] /\ UNCHANGED ans
          /\ mem' = [mem EXCEPT ![r] = PairingToken] \/ UNCHANGED mem
          /\ file' = [file EXCEPT ![r] = None] \/ UNCHANGED file
      BY <1>5 DEF HandleFailure, GoTo
    <2>2. ASSUME NEW q \in Roles PROVE Held(q)' \subseteq Held(q)
      BY <1>0, <1>1, <2>1 DEF Held
    <2>3. StaleOK'
      BY <1>0, <1>1, <2>1 DEF StaleOK, Rejections, Roles
    <2> QED BY <1>0, <2>2, <2>3, HandedAround
  <1>6. CASE MustWait(r) \/ Rejected(r) \/ Drained(r) \/ Wake(r) \/ Approved(r) \/ CleanClose(r)
    <2>1. /\ UNCHANGED <<mem, file, ans>>
          /\ \E ph \in {"pending", "failing", "drain", "serving", "start"} :
                /\ phase' = [phase EXCEPT ![r] = ph]
                /\ ph = "failing" => phase[r] = "sent"
      BY <1>6 DEF MustWait, Rejected, Approved, Drained, CleanClose, Wake, Proceed, GoTo
    <2>2. ASSUME NEW q \in Roles PROVE Held(q)' \subseteq Held(q)
      BY <1>0, <2>1 DEF Held
    <2>3. StaleOK'
      BY <1>0, <1>1, <2>1 DEF StaleOK, Roles
    <2> QED BY <1>0, <2>2, <2>3, HandedAround
  <1>7. CASE Close(r) \/ PendingCloses(r)
    <2>1. /\ phase' = [phase EXCEPT ![r] = "failing"] /\ ans' = [ans EXCEPT ![r].code = "closed"]
          /\ UNCHANGED <<mem, file>>
      BY <1>7 DEF Close, PendingCloses, Lose, GoTo
    <2>2. /\ \A q \in Roles : ans'[q].own = ans[q].own /\ ans'[q].sibling = ans[q].sibling
          /\ ans'[Other(r)] = ans[Other(r)] /\ ans'[r].code = "closed"
      BY <1>0, <1>1, <2>1 DEF Answers
    <2>3. ASSUME NEW q \in Roles PROVE Held(q)' \subseteq Held(q)
      BY <1>0, <2>1, <2>2 DEF Held
    <2>4. StaleOK'
      BY <1>0, <1>1, <2>1, <2>2 DEF StaleOK, Rejections, Roles
    <2> QED BY <1>0, <2>3, <2>4, HandedAround
  <1> QED BY <1>2, <1>3, <1>4, <1>5, <1>6, <1>7 DEF Handshake, Retry, Pending

(* The one step that issues tokens issues them from this pairing, which    *)
(* the node's rejected token is not from.                                  *)
LEMMA RedeemFresh ==
  ASSUME KInv, FreshOK, StaleOK, NEW r \in Roles, AnswerRedeem(r)
  PROVE  FreshOK' /\ StaleOK'
  <1> DEFINE o == Other(r)
             sib == IF r \in Seeds THEN Issued(o, gen) ELSE None
  <1>0. o \in Roles /\ o # r /\ Other(o) = r /\ Roles = {r, o}
    BY DEF Roles, Other
  <1>1. /\ ans' = [ans EXCEPT ![r] = Answer("ok", Token(r, gen), sib)]
        /\ record' = "paired" /\ accepted[r] = None /\ Issuing
        /\ r \in Seeds => accepted' = [q \in Roles |-> Issued(q, gen)]
        /\ r \notin Seeds => accepted' = [accepted EXCEPT ![r] = Token(r, gen)]
        /\ UNCHANGED <<phase, mem, file, gen>>
    BY DEF AnswerRedeem, Reply, MayRedeem, Asks, Issuing
  <1>2. /\ mem \in [Roles -> Tokens] /\ file \in [Roles -> DeviceTokens \cup {None}]
        /\ ans \in [Roles -> Answers] /\ gen \in Nat
        /\ accepted \in [Roles -> DeviceTokens \cup {None}]
    BY DEF KInv, IInv, TypeOK
  <1>3. /\ accepted'[r] = Token(r, gen) /\ accepted'[r] # None
        /\ accepted'[o] = (IF r \in Seeds THEN Issued(o, gen) ELSE accepted[o])
        /\ ans'[r] = Answer("ok", Token(r, gen), sib) /\ ans'[o] = ans[o]
    BY <1>0, <1>1, <1>2 DEF Issued, Token, DeviceTokens
  <1>4. /\ \A q \in Roles : Token(q, gen) \in DeviceTokens /\ Token(q, gen).gen = gen
        /\ Issued(o, gen) \in {accepted[o], Token(o, gen)} /\ Issued(o, gen) # None
    BY <1>0, <1>2 DEF Issued, Token, DeviceTokens
  <1> HIDE DEF o, sib
  <1>5. sib \in {None, accepted[o], Token(o, gen)}
    BY <1>4 DEF sib
  <1>6. /\ ans'[r].own = Token(r, gen) /\ ans'[r].sibling = sib /\ ans'[r].code = "ok"
        /\ Other(r) = o
    BY <1>3 DEF Answer, o
  <1>7. Held(r)' \subseteq Held(r) \cup {Token(r, gen)}
    BY <1>0, <1>1, <1>3, <1>6 DEF Held
  <1>8. /\ Held(o)' \subseteq Held(o) \cup {Token(o, gen)}
        /\ r \notin Seeds => Held(o)' \subseteq Held(o) /\ accepted'[o] = accepted[o]
        /\ r \in Seeds => accepted'[o] # None
    <2>1. sib \in {None, accepted[o]} \/ sib = Token(o, gen)
      BY <1>5
    <2>2. accepted'[o] \in {accepted[o], Token(o, gen)}
      BY <1>3, <1>4
    <2>3. r \notin Seeds => sib = None
      BY DEF sib
    <2> QED BY <1>0, <1>1, <1>3, <1>4, <1>6, <2>1, <2>2, <2>3 DEF Held
  <1>9. FreshOK'
    <2> SUFFICES ASSUME NEW q \in Roles, NEW t \in Held(q)'
                 PROVE  t.gen <= gen /\ (accepted'[q] = None => t.gen # gen)
      BY <1>1 DEF FreshOK
    <2>1. t \in Held(q) \/ t = Token(q, gen)
      BY <1>0, <1>7, <1>8
    <2>2. t \in Held(q) => t.gen <= gen /\ (accepted[q] = None => t.gen # gen)
      BY <1>1 DEF FreshOK
    <2>3. accepted'[q] = None => q = o /\ r \notin Seeds
      BY <1>0, <1>3, <1>8
    <2> QED BY <1>2, <1>4, <1>8, <2>1, <2>2, <2>3
  <1>10. StaleOK'
    <2> SUFFICES ASSUME phase["node"] \in {"sent", "failing"}, ans'["node"].code \in Rejections
                 PROVE  mem["node"] # accepted'["node"]
      BY <1>1 DEF StaleOK
    <2>1. "node" = o /\ ans["node"].code \in Rejections
      BY <1>0, <1>3, <1>6 DEF Rejections, Roles
    <2>2. mem["node"] # accepted["node"] /\ mem["node"] # None
      BY <2>1, RoleFacts, <1>2 DEF StaleOK, Roles
    <2>3. CASE accepted'["node"] = accepted["node"]
      BY <2>2, <2>3
    <2>4. CASE accepted'["node"] # accepted["node"]
      <3>1. accepted["node"] = None /\ accepted'["node"] = Token("node", gen)
        BY <1>0, <1>3, <2>1, <2>4 DEF Issued
      <3>2. mem["node"] \in DeviceTokens => mem["node"] \in Held("node")
        BY DEF Held
      <3>3. mem["node"] \in DeviceTokens => mem["node"].gen # gen
        BY <1>0, <1>1, <2>1, <3>1, <3>2 DEF FreshOK
      <3> QED BY <1>0, <1>4, <2>1, <3>1, <3>3
    <2> QED BY <2>3, <2>4
  <1> QED BY <1>9, <1>10

LEMMA AnswerFresh ==
  ASSUME KInv, FreshOK, StaleOK, NEW r \in Roles, Gateway(r) \/ AnswerRefused(r)
  PROVE  FreshOK' /\ StaleOK'
  <1>0. /\ Other(r) \in Roles /\ Other(r) # r /\ Other(Other(r)) = r /\ Roles = {r, Other(r)}
        /\ ans \in [Roles -> Answers] /\ phase \in [Roles -> Phases]
        /\ accepted \in [Roles -> DeviceTokens \cup {None}] /\ mem[r] # None
    BY RoleFacts DEF KInv, IInv, TypeOK, Roles, Other, Tokens
  <1>1. CASE AnswerKnown(r)
    <2>1. /\ ans' = [ans EXCEPT ![r] = Answer("ok", mem[r], None)]
          /\ UNCHANGED <<phase, mem, file, record, accepted, gen>>
      BY <1>1 DEF AnswerKnown, Reply, gatewayVars
    <2>2. ASSUME NEW q \in Roles PROVE Held(q)' \subseteq Held(q)
      BY <1>0, <2>1 DEF Held, Answer
    <2>3. StaleOK'
      BY <1>0, <2>1 DEF StaleOK, Rejections, Answer, Roles
    <2> QED BY <2>1, <2>2, <2>3, HandedAround
  <1>2. CASE AnswerUnpaired(r) \/ AnswerMismatch(r) \/ AnswerRefused(r)
    <2>1. PICK c \in Codes \ {"ok"} :
             /\ ans' = [ans EXCEPT ![r] = Answer(c, None, None)]
             /\ c \in Rejections => mem[r] # accepted[r]
      BY <1>0, <1>2 DEF AnswerUnpaired, AnswerMismatch, AnswerRefused, Reply, Codes, Rejections,
                        PromiseOK, KInv
    <2>2. /\ UNCHANGED <<phase, mem, file, accepted, gen>> /\ (UNCHANGED record \/ ~Issuing')
      BY <1>2 DEF AnswerUnpaired, AnswerMismatch, AnswerRefused, Reply, gatewayVars, Issuing
    <2>3. ASSUME NEW q \in Roles PROVE Held(q)' \subseteq Held(q)
      BY <1>0, <2>1, <2>2 DEF Held, Answer
    <2>4. StaleOK'
      BY <1>0, <2>1, <2>2 DEF StaleOK, Answer, Roles
    <2> QED BY <2>2, <2>3, <2>4, HandedAround
  <1> QED BY <1>1, <1>2, RedeemFresh DEF Gateway

(* A new pairing is newer than every token there is.                       *)
LEMMA RecordFresh ==
  ASSUME KInv, FreshOK, StaleOK, Approve \/ Evict \/ Restart
  PROVE  FreshOK' /\ StaleOK'
  <1>1. /\ gen \in Nat /\ ans \in [Roles -> Answers] /\ phase \in [Roles -> Phases]
        /\ mem \in [Roles -> Tokens] /\ \A r \in Roles : mem[r] # None
        /\ \A r \in Roles : \A t \in Held(r) : t \in DeviceTokens /\ t.gen \in Nat
    BY RoleFacts DEF KInv, IInv, TypeOK, Held, DeviceTokens
  <1>2. CASE Approve
    <2>1. gen' = gen + 1 /\ UNCHANGED <<phase, mem, file, ans, accepted>>
      BY <1>2 DEF Approve, clientVars
    <2>2. \A r \in Roles : Held(r)' = Held(r)
      BY <2>1 DEF Held
    <2>3. StaleOK'
      BY <2>1 DEF StaleOK
    <2> QED BY <1>1, <2>1, <2>2, <2>3 DEF FreshOK
  <1>3. CASE Evict
    <2>1. /\ ~Issuing' /\ UNCHANGED <<mem, file, gen>>
          /\ \A r \in Roles :
                /\ accepted'[r] = None
                /\ ans'[r] = ans[r] \/ ans'[r] = Answer("closed", None, None)
      BY <1>3 DEF Evict, Issuing
    <2>2. ASSUME NEW r \in Roles PROVE Held(r)' \subseteq Held(r)
      BY <2>1, RoleFacts DEF Held, Answer
    <2>3. FreshOK'
      BY <2>1, <2>2 DEF FreshOK
    <2>4. StaleOK'
      BY <1>1, <2>1 DEF StaleOK, Roles
    <2> QED BY <2>3, <2>4
  <1>4. CASE Restart
    <2>1. /\ UNCHANGED <<file, gen, accepted, record>>
          /\ \A r \in Roles : mem'[r] \in {file[r], PairingToken} /\ ans'[r] = NoAnswer
      BY <1>4 DEF Restart, Loaded, gatewayVars
    <2>2. ASSUME NEW r \in Roles PROVE Held(r)' \subseteq Held(r)
      BY <2>1, RoleFacts DEF Held, NoAnswer, Answer
    <2>3. StaleOK'
      BY <2>1 DEF StaleOK, NoAnswer, Answer, Rejections, Roles
    <2> QED BY <2>1, <2>2, <2>3, HandedAround
  <1> QED BY <1>2, <1>3, <1>4

FInv == KInv /\ FreshOK /\ StaleOK

LEMMA NextFresh == FInv /\ [Next]_vars => FInv'
  <1> SUFFICES ASSUME KInv, FreshOK, StaleOK, [Next]_vars PROVE FreshOK' /\ StaleOK'
    BY NextKept DEF FInv
  <1>1. CASE UNCHANGED vars
    <2>1. UNCHANGED <<phase, mem, file, ans, accepted, record, gen>>
      BY <1>1 DEF vars, clientVars, gatewayVars
    <2> QED BY <2>1 DEF FreshOK, StaleOK, Held, Issuing
  <1> QED BY <1>1, ClientFresh, AnswerFresh, RecordFresh DEF Next

(* Whichever answers carry both roles' tokens, and disks failing too: no   *)
(* step overwrites a token file that the gateway accepts, and only the     *)
(* node's late handling of an older token's rejection removes one          *)
(* (gateway_ws.py:546); if the operator's answers carry no node token,     *)
(* nothing does.                                                           *)
THEOREM LostOnlyLate == Spec => LostToStaleRejectionOnly
  <1> DEFINE Kept == \A r \in Roles : Loses(r) => LosesToStaleRejection(r)
  <1>1. FInv /\ [Next]_vars => [Kept]_vars
    <2> SUFFICES ASSUME KInv, StaleOK, Next PROVE Kept
      BY DEF FInv
    <2>1. ASSUME NEW r \in Roles, WriteOwn(r) PROVE Kept
      <3>1. /\ phase[r] = "own" /\ UNCHANGED accepted
            /\ file' = [file EXCEPT ![r] = mem[r]] \/ UNCHANGED file
        BY <2>1 DEF WriteOwn, gatewayVars
      <3>2. mem[r] = accepted[r]
        BY <3>1 DEF KInv, PromiseOK
      <3> QED BY <3>1, <3>2 DEF KInv, IInv, TypeOK, Loses
    <2>2. ASSUME NEW r \in Roles, WriteSibling(r) PROVE Kept
      <3>1. /\ phase[r] = "sibling" /\ UNCHANGED accepted
            /\ file' = [file EXCEPT ![Other(r)] = ans[r].sibling] \/ UNCHANGED file
        BY <2>2 DEF WriteSibling, gatewayVars
      <3>2. ans[r].sibling = accepted[Other(r)]
        BY <3>1 DEF KInv, IInv, RoleOK, PromiseOK
      <3> QED BY <3>1, <3>2, RoleFacts DEF KInv, IInv, TypeOK, Loses
    <2>3. ASSUME NEW r \in Roles, HandleFailure(r) PROVE Kept
      <3>1. CASE Drops(r)
        <4>1. /\ r = "node" /\ phase[r] = "failing" /\ ans[r].code \in Rejections
              /\ mem[r] # PairingToken /\ phase' = [phase EXCEPT ![r] = "sleep"]
              /\ file' = [file EXCEPT ![r] = None] \/ UNCHANGED file
          BY <2>3, <3>1 DEF HandleFailure, GoTo, Drops, PairFallbackEnabled, Rejections
        <4>2. mem[r] # accepted[r]
          BY <4>1 DEF StaleOK
        <4>3. "operator" \notin Seeds => file[r] = None \/ file[r] # accepted[r]
          BY <4>1 DEF KInv, RejectOK
        <4>4. phase'[r] = "sleep" /\ \A q \in Roles : file'[q] # file[q] => q = r /\ file'[q] = None
          BY <4>1 DEF KInv, IInv, TypeOK
        <4> QED BY <4>1, <4>2, <4>3, <4>4 DEF Loses, LosesToStaleRejection, Rejections
      <3>2. CASE ~Drops(r)
        BY <2>3, <3>2 DEF HandleFailure, Loses
      <3> QED BY <3>1, <3>2
    <2>4. CASE UNCHANGED file
      BY <2>4 DEF Loses
    <2>5. \/ \E r \in Roles : WriteOwn(r) \/ WriteSibling(r) \/ HandleFailure(r)
          \/ UNCHANGED file
      BY DEF Next, Handshake, Retry, Gateway, Pending, Connect, Accepted, MustWait, Rejected,
             Drained, Wake, Approved, PendingCloses, AnswerKnown, AnswerRedeem, AnswerUnpaired,
             AnswerMismatch, AnswerRefused, Reply, Close, CleanClose, Restart, Approve, Evict,
             clientVars
    <2> QED BY <2>1, <2>2, <2>3, <2>4, <2>5
  <1>2. Init => FInv
    BY InitInv, InitKept, InitFresh DEF KInv, FInv
  <1> QED BY <1>1, <1>2, NextFresh, PTL DEF Spec, LostToStaleRejectionOnly
=============================================================================
