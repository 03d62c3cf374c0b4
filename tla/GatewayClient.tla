---------------------------- MODULE GatewayClient ----------------------------
(***************************************************************************)
(* The node's two gateway connections (gateway_ws.py, pairing.py), one per *)
(* role: the connect handshake, the pairing machine, the device token each *)
(* role keeps in memory and in a file, what the connections show the local *)
(* HTTP API, and the reconnect loop.                                       *)
(*                                                                         *)
(* Both clients are tasks of one event loop, so a client runs undisturbed  *)
(* from one await to the next; `busy' is the client that is writing token  *)
(* files, between which the process may die.  The pending-invoke drain is  *)
(* an await of its own here, without what it drains.  Time is not          *)
(* modelled: a sleep ends some time.                                       *)
(*                                                                         *)
(* External: the gateway's device record, modelled from what the code and  *)
(* its comments rely on.  A connect with the pairing token files a         *)
(* request; once the user approves, each role may redeem the pairing token *)
(* once for a device token, and the answer to a role in Seeds carries the  *)
(* other role's token too.  Removing the device closes its connections.    *)
(***************************************************************************)
EXTENDS Integers, FiniteSets

CONSTANTS
    PairingToken,  \* config.pairing_token
    None,          \* no token
    Seeds,         \* external: the roles whose answer has auth.deviceTokens
    Faults,        \* what may go wrong, see FaultKinds
    MaxGen,        \* bound: how often the device is paired
    MaxUpsets      \* bound: closes, refusals and crashes

Roles == {"node", "operator"}
FaultKinds == {"close", "clean_close", "refusal", "io_error", "lost_answer", "crash"}
Other(r) == IF r = "node" THEN "operator" ELSE "node"

(* A device token: the role it was issued to and the pairing it is from.   *)
Token(r, n) == [role |-> r, gen |-> n]
DeviceTokens == [role : Roles, gen : Nat]

ASSUME TokenAssumption ==
    /\ None \notin DeviceTokens \cup Roles \cup {PairingToken}
    /\ PairingToken \notin DeviceTokens
ASSUME SeedAssumption == Seeds \subseteq Roles
ASSUME FaultAssumption == Faults \subseteq FaultKinds
ASSUME BoundAssumption == MaxGen \in Nat /\ MaxUpsets \in Nat

VARIABLES
    phase,     \* [Roles -> Phases]: where the client's run() is
    mem,       \* [Roles -> token]: _device_token
    file,      \* [Roles -> token or None]: data_dir/device-token.<role>
    pairing,   \* [Roles -> PairingStates]: the PairingMachine
    backoff,   \* [Roles -> Nat]: _rate_limited_delay_s
    ans,       \* [Roles -> Answers]: the connect response, then the exception
    busy,      \* the role writing token files, or None
    runtime,   \* what NodeRuntime shows the HTTP API
    record,    \* external: the gateway's record of the device
    accepted,  \* external: [Roles -> token the gateway accepts, or None]
    gen,       \* external: pairings so far
    upsets     \* closes, refusals and crashes so far

clientVars == <<phase, mem, file, pairing, backoff, ans, busy, runtime>>
gatewayVars == <<record, accepted, gen>>
vars == <<clientVars, gatewayVars, upsets>>

Phases == {"start", "sent", "own", "sibling", "pending", "drain", "serving",
           "failing", "sleep"}
PairingStates == {"UNKNOWN", "PENDING", "PAIRED", "ERROR"}
Codes == {"none", "ok", "PAIRING_REQUIRED", "NOT_PAIRED", "AUTH_TOKEN_MISMATCH",
          "AUTH_RATE_LIMITED", "INVALID_REQUEST", "closed", "oserror"}
Records == {"absent", "requested", "approved", "paired"}

Answer(code, own, sibling) == [code |-> code, own |-> own, sibling |-> sibling]
NoAnswer == Answer("none", None, None)

BackoffBase == 30
BackoffFactor == 2
BackoffMax == 300
(* pair_fallback_enabled: the operator client never clears its token file. *)
PairFallbackEnabled == {"node"}

-----------------------------------------------------------------------------
LoadedFileOnly(r) == file[r]
(* _initial_device_token                                                   *)
Loaded(r) == IF file[r] # None THEN file[r] ELSE PairingToken
Fresh == [node_connected |-> FALSE, operator_connected |-> FALSE,
          pairing_state |-> "UNKNOWN", chat_relay |-> FALSE]

Init ==
    /\ phase = [r \in Roles |-> "start"]
    /\ file = [r \in Roles |-> None]
    /\ mem = [r \in Roles |-> PairingToken]
    /\ pairing = [r \in Roles |-> "UNKNOWN"]
    /\ backoff = [r \in Roles |-> 0]
    /\ ans = [r \in Roles |-> NoAnswer]
    /\ busy = None
    /\ runtime = Fresh
    /\ record = "absent" /\ accepted = [r \in Roles |-> None] /\ gen = 0
    /\ upsets = 0

Upset(kind) == kind \in Faults /\ upsets < MaxUpsets /\ upsets' = upsets + 1
GoTo(r, ph) == phase' = [phase EXCEPT ![r] = ph]
(* _notify_pairing_state: only the node client has the callback.           *)
Notified(r, rt, state) == IF r = "node" THEN [rt EXCEPT !.pairing_state = state] ELSE rt
(* _set_runtime_connected, and the relay the operator client publishes.    *)
Connected(r, rt, up) ==
    IF r = "node" THEN [rt EXCEPT !.node_connected = up]
    ELSE [rt EXCEPT !.operator_connected = up, !.chat_relay = up]

(* _connect_and_loop up to the connect request: the token is reloaded from *)
(* the file, then sent.                                                    *)
Connect(r) ==
    /\ busy = None /\ phase[r] = "start"
    /\ mem' = [mem EXCEPT ![r] = IF file[r] # None THEN file[r] ELSE @]
    /\ ans' = [ans EXCEPT ![r] = NoAnswer]
    /\ GoTo(r, "sent")
    /\ UNCHANGED <<file, pairing, backoff, busy, runtime, gatewayVars, upsets>>

(* The rest of _connect_and_loop after the connect response or approval:   *)
(* the node client drains pending invokes, the operator client serves.     *)
Proceed(r, rt) ==
    /\ busy' = None
    /\ IF r = "node" THEN GoTo(r, "drain") /\ runtime' = rt
       ELSE GoTo(r, "serving") /\ runtime' = Connected(r, rt, TRUE)

AcceptedInMemoryOnly(r) ==
    /\ busy = None /\ phase[r] = "sent" /\ ans[r].code = "ok"
    /\ pairing' = [pairing EXCEPT ![r] = "PAIRED"]
    /\ backoff' = [backoff EXCEPT ![r] = 0]
    /\ mem' = [mem EXCEPT ![r] = ans[r].own]
    /\ Proceed(r, Notified(r, runtime, "PAIRED"))
    /\ UNCHANGED <<file, ans, gatewayVars, upsets>>
(* _recv_connect_response, ok: true.                                       *)
Accepted(r) ==
    /\ busy = None /\ phase[r] = "sent" /\ ans[r].code = "ok"
    /\ pairing' = [pairing EXCEPT ![r] = "PAIRED"]
    /\ backoff' = [backoff EXCEPT ![r] = 0]
    /\ LET rt == Notified(r, runtime, "PAIRED")
       IN IF ans[r].own \notin {None, mem[r]}
          THEN /\ mem' = [mem EXCEPT ![r] = ans[r].own]
               /\ GoTo(r, "own") /\ busy' = r /\ runtime' = rt
          ELSE /\ UNCHANGED mem
               /\ IF ans[r].sibling # None
                  THEN GoTo(r, "sibling") /\ busy' = r /\ runtime' = rt
                  ELSE Proceed(r, rt)
    /\ UNCHANGED <<file, ans, gatewayVars, upsets>>

(* _recv_connect_response, PAIRING_REQUIRED: hold the connection open.     *)
MustWait(r) ==
    /\ busy = None /\ phase[r] = "sent" /\ ans[r].code = "PAIRING_REQUIRED"
    /\ pairing' = [pairing EXCEPT ![r] = "PENDING"]
    /\ runtime' = Notified(r, runtime, "PENDING")
    /\ GoTo(r, "pending")
    /\ UNCHANGED <<mem, file, backoff, ans, busy, gatewayVars, upsets>>

(* _recv_connect_response, any other error: on_connect_response raises     *)
(* PairingError before the callback is told.                               *)
Rejected(r) ==
    /\ busy = None /\ phase[r] = "sent"
    /\ ans[r].code \in {"NOT_PAIRED", "AUTH_TOKEN_MISMATCH", "AUTH_RATE_LIMITED", "INVALID_REQUEST"}
    /\ pairing' = [pairing EXCEPT ![r] = "ERROR"]
    /\ GoTo(r, "failing")
    /\ UNCHANGED <<mem, file, backoff, ans, busy, runtime, gatewayVars, upsets>>

(* _persist_device_token; an OSError ends the connection.                  *)
WriteOwn(r) ==
    /\ phase[r] = "own"
    /\ \/ /\ file' = [file EXCEPT ![r] = mem[r]]
          /\ IF ans[r].sibling # None THEN GoTo(r, "sibling") /\ UNCHANGED <<busy, runtime>>
             ELSE Proceed(r, runtime)
          /\ UNCHANGED ans
       \/ /\ "io_error" \in Faults
          /\ GoTo(r, "failing") /\ busy' = None
          /\ ans' = [ans EXCEPT ![r].code = "oserror"]
          /\ UNCHANGED <<file, runtime>>
    /\ UNCHANGED <<mem, pairing, backoff, gatewayVars, upsets>>

WriteSiblingToOwnFile(r) ==
    /\ phase[r] = "sibling"
    /\ file' = [file EXCEPT ![r] = ans[r].sibling]
    /\ Proceed(r, runtime)
    /\ UNCHANGED <<mem, pairing, backoff, ans, gatewayVars, upsets>>
(* _persist_dual_role_tokens; an OSError is logged and swallowed.          *)
WriteSibling(r) ==
    /\ phase[r] = "sibling"
    /\ \/ file' = [file EXCEPT ![Other(r)] = ans[r].sibling]
       \/ "io_error" \in Faults /\ UNCHANGED file
    /\ Proceed(r, runtime)
    /\ UNCHANGED <<mem, pairing, backoff, ans, gatewayVars, upsets>>

(* _await_approval: connect.approved arrives, or the socket closes.        *)
Approved(r) ==
    /\ busy = None /\ phase[r] = "pending" /\ record \in {"approved", "paired"}
    /\ pairing' = [pairing EXCEPT ![r] = "PAIRED"]
    /\ Proceed(r, Notified(r, runtime, "PAIRED"))
    /\ UNCHANGED <<mem, file, backoff, ans, gatewayVars, upsets>>
PendingCloses(r) ==
    /\ busy = None /\ phase[r] = "pending"
    /\ ans' = [ans EXCEPT ![r].code = "closed"]
    /\ GoTo(r, "failing")
    /\ UNCHANGED <<mem, file, pairing, backoff, busy, runtime, gatewayVars, upsets>>

(* _pull_pending ends; the node client is marked connected.                *)
Drained(r) ==
    /\ busy = None /\ phase[r] = "drain"
    /\ GoTo(r, "serving")
    /\ runtime' = Connected(r, runtime, TRUE)
    /\ UNCHANGED <<mem, file, pairing, backoff, ans, busy, gatewayVars, upsets>>

(* The connection is lost: ConnectionClosed leaves _connect_and_loop, whose *)
(* finally clears the flags.                                               *)
LoseKeepsRelay(r) ==
    /\ ans' = [ans EXCEPT ![r].code = "closed"]
    /\ GoTo(r, "failing")
    /\ runtime' = IF r = "node" THEN Connected(r, runtime, FALSE)
                  ELSE [runtime EXCEPT !.operator_connected = FALSE]
Lose(r) ==
    /\ ans' = [ans EXCEPT ![r].code = "closed"]
    /\ GoTo(r, "failing")
    /\ runtime' = Connected(r, runtime, FALSE)
Close(r) ==
    /\ busy = None
    /\ \/ phase[r] \in {"drain", "serving"} /\ Upset("close")
       \/ phase[r] = "sent" /\ ans[r] = NoAnswer /\ Upset("close")
       \/ phase[r] = "sent" /\ ans[r] # NoAnswer /\ Upset("lost_answer")
    /\ Lose(r)
    /\ UNCHANGED <<mem, file, pairing, backoff, busy, gatewayVars>>

(* The gateway closes with 1000: the event loop's iterator just ends, and  *)
(* run() connects again at once.                                           *)
CleanClose(r) ==
    /\ busy = None /\ phase[r] = "serving" /\ Upset("clean_close")
    /\ GoTo(r, "start")
    /\ runtime' = Connected(r, runtime, FALSE)
    /\ UNCHANGED <<mem, file, pairing, backoff, ans, busy, gatewayVars>>

(* _next_reconnect_delay, as it changes _rate_limited_delay_s; the gateway *)
(* may give a delay of its own, which resets it.                           *)
NextDelay(r, given) ==
    IF ans[r].code # "AUTH_RATE_LIMITED" \/ given THEN 0
    ELSE IF backoff[r] = 0 THEN BackoffBase
    ELSE IF backoff[r] * BackoffFactor <= BackoffMax THEN backoff[r] * BackoffFactor
    ELSE BackoffMax

(* _maybe_drop_invalid_device_token: a rejected device token is given up.  *)
NeverDrops(r) == FALSE
AnyRoleDrops(r) ==
    ans[r].code \in {"NOT_PAIRED", "AUTH_TOKEN_MISMATCH"} /\ mem[r] # PairingToken
Drops(r) ==
    /\ r \in PairFallbackEnabled
    /\ ans[r].code \in {"NOT_PAIRED", "AUTH_TOKEN_MISMATCH"}
    /\ mem[r] # PairingToken

(* The except branch of run(), after the connection has been closed.       *)
HandleFailure(r) ==
    /\ busy = None /\ phase[r] = "failing"
    /\ \E given \in BOOLEAN : backoff' = [backoff EXCEPT ![r] = NextDelay(r, given)]
    /\ IF Drops(r)
       THEN /\ mem' = [mem EXCEPT ![r] = PairingToken]
            /\ \/ file' = [file EXCEPT ![r] = None]
               \/ "io_error" \in Faults /\ UNCHANGED file
       ELSE UNCHANGED <<mem, file>>
    /\ LET state == IF pairing[r] = "ERROR" THEN "ERROR" ELSE "UNKNOWN"
       IN /\ pairing' = [pairing EXCEPT ![r] = state]
          /\ runtime' = Connected(r, Notified(r, runtime, state), FALSE)
    /\ GoTo(r, "sleep")
    /\ UNCHANGED <<ans, busy, gatewayVars, upsets>>

Wake(r) ==
    /\ busy = None /\ phase[r] = "sleep"
    /\ GoTo(r, "start")
    /\ UNCHANGED <<mem, file, pairing, backoff, ans, busy, runtime, gatewayVars, upsets>>

(* The process dies and is started again (_main, build_runtime).           *)
Restart ==
    /\ Upset("crash")
    /\ phase' = [r \in Roles |-> "start"]
    /\ mem' = [r \in Roles |-> Loaded(r)]
    /\ pairing' = [r \in Roles |-> "UNKNOWN"]
    /\ backoff' = [r \in Roles |-> 0]
    /\ ans' = [r \in Roles |-> NoAnswer]
    /\ busy' = None /\ runtime' = Fresh
    /\ UNCHANGED <<file, gatewayVars>>

-----------------------------------------------------------------------------
(* external: the gateway answers a connect request.                        *)
Asks(r) == phase[r] = "sent" /\ ans[r] = NoAnswer
Reply(r, a) ==
    /\ ans' = [ans EXCEPT ![r] = a]
    /\ UNCHANGED <<phase, mem, file, pairing, backoff, busy, runtime>>
MayRedeem(r) ==
    mem[r] = PairingToken /\ record \in {"approved", "paired"} /\ accepted[r] = None

AnswerKnown(r) ==
    /\ Asks(r) /\ accepted[r] # None /\ mem[r] = accepted[r]
    /\ Reply(r, Answer("ok", mem[r], None))
    /\ UNCHANGED <<gatewayVars, upsets>>
Issued(q, n) == IF accepted[q] # None THEN accepted[q] ELSE Token(q, n)
AnswerRedeem(r) ==
    /\ Asks(r) /\ MayRedeem(r)
    /\ record' = "paired"
    /\ LET o == Other(r)
       IN IF r \in Seeds
          THEN /\ accepted' = [q \in Roles |-> Issued(q, gen)]
               /\ Reply(r, Answer("ok", Token(r, gen), Issued(o, gen)))
          ELSE /\ accepted' = [accepted EXCEPT ![r] = Token(r, gen)]
               /\ Reply(r, Answer("ok", Token(r, gen), None))
    /\ UNCHANGED <<gen, upsets>>
AnswerUnpaired(r) ==
    /\ Asks(r) /\ record \in {"absent", "requested"}
    /\ record' = "requested"
    /\ \E code \in {"PAIRING_REQUIRED", "NOT_PAIRED"} : Reply(r, Answer(code, None, None))
    /\ UNCHANGED <<accepted, gen, upsets>>
AnswerMismatch(r) ==
    /\ Asks(r) /\ record \in {"approved", "paired"}
    /\ mem[r] # accepted[r] /\ ~MayRedeem(r)
    /\ Reply(r, Answer(IF mem[r] = PairingToken THEN "NOT_PAIRED" ELSE "AUTH_TOKEN_MISMATCH",
                       None, None))
    /\ UNCHANGED <<gatewayVars, upsets>>
AnswerRefused(r) ==
    /\ Asks(r) /\ Upset("refusal")
    /\ \E code \in {"AUTH_RATE_LIMITED", "INVALID_REQUEST"} : Reply(r, Answer(code, None, None))
    /\ UNCHANGED gatewayVars

(* external: the user approves the request, or removes the device.         *)
Approve ==
    /\ record = "requested" /\ gen < MaxGen
    /\ record' = "approved" /\ gen' = gen + 1
    /\ UNCHANGED <<clientVars, accepted, upsets>>
Evict ==
    /\ busy = None /\ record = "paired" /\ gen < MaxGen
    /\ record' = "absent" /\ accepted' = [r \in Roles |-> None]
    /\ LET cut == {r \in Roles : phase[r] \in {"sent", "pending", "drain", "serving"}}
       IN /\ phase' = [r \in Roles |-> IF r \in cut THEN "failing" ELSE phase[r]]
          /\ ans' = [r \in Roles |-> IF r \in cut THEN Answer("closed", None, None) ELSE ans[r]]
          /\ runtime' = [runtime EXCEPT !.node_connected = FALSE,
                                        !.operator_connected = FALSE, !.chat_relay = FALSE]
    /\ UNCHANGED <<mem, file, pairing, backoff, busy, gen, upsets>>

Handshake(r) == Connect(r) \/ Accepted(r) \/ MustWait(r) \/ Rejected(r)
                \/ WriteOwn(r) \/ WriteSibling(r) \/ Drained(r)
Retry(r) == HandleFailure(r) \/ Wake(r)
Gateway(r) == AnswerKnown(r) \/ AnswerRedeem(r) \/ AnswerUnpaired(r) \/ AnswerMismatch(r)
Pending(r) == Approved(r) \/ PendingCloses(r)

Next ==
    \/ \E r \in Roles : \/ Handshake(r) \/ Retry(r) \/ Gateway(r) \/ Pending(r)
                        \/ AnswerRefused(r) \/ Close(r) \/ CleanClose(r)
    \/ Restart \/ Approve \/ Evict
Spec == Init /\ [][Next]_vars

(* The event loop runs every task that can run, the gateway answers a      *)
(* connect and does not hold a pending connection forever, and the user    *)
(* approves.                                                               *)
FairSpec ==
    /\ Spec /\ WF_vars(Approve)
    /\ \A r \in Roles : WF_vars(Handshake(r)) /\ WF_vars(Retry(r))
                        /\ WF_vars(Gateway(r)) /\ WF_vars(Pending(r))

-----------------------------------------------------------------------------
Tokens == DeviceTokens \cup {PairingToken}
Answers == [code : Codes, own : DeviceTokens \cup {None}, sibling : DeviceTokens \cup {None}]

(* The clients' fields stay within their types; the rate-limit delay is    *)
(* one of _next_reconnect_delay's steps and never exceeds its cap.         *)
TypeOK ==
    /\ phase \in [Roles -> Phases]
    /\ mem \in [Roles -> Tokens]
    /\ file \in [Roles -> DeviceTokens \cup {None}]
    /\ pairing \in [Roles -> PairingStates]
    /\ backoff \in [Roles -> {0, 30, 60, 120, 240, 300}]
    /\ ans \in [Roles -> Answers]
    /\ busy \in Roles \cup {None}
    /\ runtime \in [node_connected : BOOLEAN, operator_connected : BOOLEAN,
                    pairing_state : PairingStates, chat_relay : BOOLEAN]
    /\ record \in Records
    /\ accepted \in [Roles -> DeviceTokens \cup {None}]
    /\ gen \in Nat /\ upsets \in Nat

(* A role's file and memory never hold the other role's device token: with *)
(* one shared file "the loser looped AUTH_TOKEN_MISMATCH" (config.py).     *)
TokensKeptApart ==
    \A r \in Roles : /\ file[r] # None => file[r].role = r
                     /\ mem[r] # PairingToken => mem[r].role = r

(* What the HTTP API sees is true: a role is shown connected exactly while *)
(* its event loop runs, turns find a relay exactly while the operator      *)
(* connection is up, and a connected node is shown as paired.              *)
StatusTruthful ==
    /\ runtime.node_connected <=> phase["node"] = "serving"
    /\ runtime.operator_connected <=> phase["operator"] = "serving"
    /\ runtime.chat_relay <=> runtime.operator_connected
    /\ runtime.node_connected => runtime.pairing_state = "PAIRED"

(* A client that serves with a device token has a token on disk, so a      *)
(* restart does not depend on the single-use pairing token ("The node must *)
(* extract it, persist it", LESSONS.md).                                   *)
ServingIsDurable ==
    \A r \in Roles :
        phase[r] \in {"drain", "serving"} /\ mem[r] # PairingToken => file[r] # None

(* A rejection of the token a client sent removes that token's file, and   *)
(* no file the gateway accepts: "If the persisted device_token was         *)
(* rejected, fall back to pairing_token" (gateway_ws.py).  The other       *)
(* role's answer may have replaced the file before the client acts on the  *)
(* rejection.                                                              *)
Loses(r) == /\ file[r] # None /\ file[r] = accepted[r] /\ accepted'[r] = accepted[r]
            /\ file'[r] # file[r]
ValidTokenKept == [][\A r \in Roles : ~Loses(r)]_vars

(* What the code does keep: a token file the gateway accepts is never      *)
(* overwritten, and is removed by one step only, the node's own handling   *)
(* of the rejection of an older token it still holds in memory, after the  *)
(* operator's answer has renewed the file.  The operator never loses one.  *)
LosesToStaleRejection(r) ==
    /\ r = "node" /\ "operator" \in Seeds /\ phase[r] = "failing" /\ phase'[r] = "sleep"
    /\ ans[r].code \in {"NOT_PAIRED", "AUTH_TOKEN_MISMATCH"}
    /\ mem[r] \notin {PairingToken, file[r]} /\ file'[r] = None
LostToStaleRejectionOnly == [][\A r \in Roles : Loses(r) => LosesToStaleRejection(r)]_vars

(* Every token the gateway has issued is held by its role, in memory or on *)
(* disk, or is on its way to it.                                           *)
Recoverable ==
    \A r \in Roles : accepted[r] # None =>
        accepted[r] \in {file[r], mem[r], ans[r].own, ans[Other(r)].sibling}

Settles(r) == <>[](phase[r] = "serving")
(* "self-heals on the next reconnect": unless an issued token was lost for *)
(* good, the node is connected in the end, whatever was evicted, closed or *)
(* refused before, and so is the operator once the node holds a token the  *)
(* gateway accepts.  (A node let in by connect.approved holds none: the    *)
(* operator then waits for the node's next reconnect.)                     *)
SelfHeals ==
    []Recoverable =>
        /\ Settles("node")
        /\ <>[](mem["node"] = accepted["node"]) => Settles("operator")
=============================================================================
