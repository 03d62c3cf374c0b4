------------------------------ MODULE Bootstrap ------------------------------
(***************************************************************************)
(* How the Home Assistant integration gets the token of the node's HTTP    *)
(* API: GET /v1/bootstrap and POST /v1/bootstrap/claim (http_api.py), the   *)
(* token file (token_store.py), the start of the node (__main__.py) and    *)
(* the config flow of the integration (config_flow.py).                    *)
(*                                                                         *)
(* The handlers do not await, so requests are handled one at a time; the    *)
(* node can die between two writes to the disk.  Requests and replies can   *)
(* be late: the flow waits for a moment, tries the claim once more, and     *)
(* gives up.                                                                *)
(*                                                                         *)
(* Tokens are numbered in the order in which they are generated; 0 is no    *)
(* token.  Explicit is the token an operator may set in the options.        *)
(***************************************************************************)
EXTENDS Naturals, Sequences

CONSTANTS
    Flows,       \* runs of the config flow
    MaxTokens, MaxBoots,
    Faults,      \* the writes that can fail: "consumed", "claimed", "token"
    Explicit, None

ASSUME ConstantAssumption ==
    /\ MaxTokens \in Nat /\ MaxBoots \in Nat
    /\ Faults \subseteq {"consumed", "claimed", "token"}
    /\ Explicit \notin Nat /\ None \notin Nat

VARIABLES
    disk,        \* the token file and the two markers
    node,        \* the runtime of the node
    busy,        \* what the node is in the middle of, or None
    options,     \* the add-on's options
    last,        \* the last token generated
    boots,
    requests, replies,
    flow,        \* [Flows -> where the config flow is]
    entry,       \* the token in the config entry of the integration
    served,      \* the times the token was served since the markers were reset:
                 \* in which boot, and whether the marker could be written
    given,       \* the claims of this boot: bearer and token
    retired      \* the tokens a claim set out to replace

files == <<disk, last>>
net == <<requests, replies>>
setup == <<flow, entry>>
record == <<served, given, retired>>
vars == <<disk, node, busy, options, last, boots, requests, replies, flow, entry, served,
          given, retired>>

Tokens == 0..MaxTokens
Down == [up |-> FALSE, window |-> FALSE, api |-> 0, boot |-> 0, claim |-> 0, rotated |-> 0]
Request(f, n, bearer) == [flow |-> f, n |-> n, bearer |-> bearer]
Reply(r, token) == [flow |-> r.flow, n |-> r.n, token |-> token]
------------------------------------------------------------------------------
(* The start of the node: the markers are cleared if the option says so, and *)
(* the token file is read, or written if there is none.  The second case of  *)
(* load is a token that cannot be written: the API then refuses everything.  *)
ResetMarkers(d) ==
    IF options.reset THEN [d EXCEPT !.consumed = FALSE, !.claimed = FALSE] ELSE d

(* _main, as far as the HTTP API goes. *)
Starts(api) ==
    [Down EXCEPT !.up = TRUE, !.window = TRUE, !.api = api,
                 !.boot = IF api = Explicit THEN 0 ELSE api]
Start ==
    /\ ~node.up /\ boots < MaxBoots
    /\ boots' = boots + 1
    /\ served' = IF options.reset THEN <<>> ELSE served
    /\ \/ /\ options.explicit
          /\ node' = Starts(Explicit)
          /\ disk' = ResetMarkers(disk) /\ UNCHANGED last
       \/ /\ ~options.explicit /\ disk.token # 0
          /\ node' = Starts(disk.token)
          /\ disk' = ResetMarkers(disk) /\ UNCHANGED last
       \/ /\ ~options.explicit /\ disk.token = 0 /\ last < MaxTokens
          /\ last' = last + 1
          /\ node' = Starts(last + 1)
          /\ disk' = [ResetMarkers(disk) EXCEPT !.token = last + 1]
       \/ /\ ~options.explicit /\ disk.token = 0 /\ "token" \in Faults
          /\ node' = Starts(0)
          /\ disk' = ResetMarkers(disk) /\ UNCHANGED last
    /\ given' = {}
    /\ UNCHANGED <<busy, options, net, setup, retired>>

(* The node dies while it starts, when only the first marker is cleared. *)
StartDies ==
    /\ ~node.up /\ boots < MaxBoots /\ options.reset
    /\ boots' = boots + 1
    /\ disk' = [disk EXCEPT !.consumed = FALSE]
    /\ served' = <<>>
    /\ UNCHANGED <<node, busy, options, last, net, setup, given, retired>>

(* The node dies; the requests it has not read are lost, a reply that is on  *)
(* its way still arrives.                                                    *)
Crash ==
    /\ node.up
    /\ node' = Down /\ busy' = None
    /\ requests' = {} /\ given' = {}
    /\ UNCHANGED <<files, options, boots, replies, setup, served, retired>>

WindowCloses ==
    /\ node.window
    /\ node' = [node EXCEPT !.window = FALSE]
    /\ UNCHANGED <<files, busy, options, boots, net, setup, record>>

SetOptions ==
    /\ options' \in [reset : BOOLEAN, explicit : BOOLEAN] \ {options}
    /\ UNCHANGED <<files, node, busy, boots, net, setup, record>>
------------------------------------------------------------------------------
Handles(r) == node.up /\ busy = None /\ r \in requests
Answers(r, token) ==
    /\ requests' = requests \ {r}
    /\ replies' = replies \cup {Reply(r, token)}

(* GET /v1/bootstrap: the window is over, the marker is there, or there is   *)
(* nothing to hand out.                                                      *)
NotAskedAgain == FALSE
AlreadyServed == disk.consumed
BootstrapRefuses(r) ==
    /\ Handles(r) /\ r.bearer = 0
    /\ ~node.window \/ AlreadyServed \/ node.boot = 0
    /\ Answers(r, 0)
    /\ UNCHANGED <<files, node, busy, options, boots, setup, record>>

(* It is handed out: first the marker, then the memory.  A marker that       *)
(* cannot be written changes nothing else.                                   *)
BootstrapMarks(r) ==
    /\ Handles(r) /\ r.bearer = 0
    /\ node.window /\ ~AlreadyServed /\ node.boot # 0
    /\ \/ disk' = [disk EXCEPT !.consumed = TRUE]
       \/ "consumed" \in Faults /\ UNCHANGED disk
    /\ busy' = [at |-> "serving", req |-> r, token |-> node.boot]
    /\ UNCHANGED <<last, node, options, boots, net, setup, record>>

ServedKeepsBoot(token) == [node EXCEPT !.claim = token]
AfterServing(token) == [node EXCEPT !.boot = 0, !.claim = token]
BootstrapServes ==
    /\ busy # None /\ busy.at = "serving"
    /\ node' = AfterServing(busy.token)
    /\ served' = Append(served, [boot |-> boots, marked |-> disk.consumed])
    /\ busy' = None
    /\ Answers(busy.req, busy.token)
    /\ UNCHANGED <<files, options, boots, setup, given, retired>>

(* POST /v1/bootstrap/claim.  The bearer is the token that was served, which *)
(* is good for this even after it was replaced, or the token of the API.     *)
Known(bearer) == node.claim # 0 /\ bearer = node.claim
ClaimRepeats(r) ==
    /\ Handles(r) /\ r.bearer # 0
    /\ Known(r.bearer) /\ node.rotated # 0
    /\ given' = given \cup {<<r.bearer, node.rotated>>}
    /\ Answers(r, node.rotated)
    /\ UNCHANGED <<files, node, busy, options, boots, setup, served, retired>>

MayRotate(r) ==
    /\ Handles(r) /\ r.bearer # 0
    /\ IF Known(r.bearer) THEN node.rotated = 0 ELSE r.bearer = node.api
    /\ disk.consumed /\ ~disk.claimed

ClaimRefuses(r) ==
    /\ Handles(r) /\ r.bearer # 0
    /\ ~(Known(r.bearer) /\ node.rotated # 0) /\ ~MayRotate(r)
    /\ Answers(r, 0)
    /\ UNCHANGED <<files, node, busy, options, boots, setup, record>>

(* rotate_local_api_token opens the token file, which empties it, and then   *)
(* writes it; either can fail, and is reported as a failed claim.            *)
RotateOpens(r) ==
    /\ MayRotate(r) /\ last < MaxTokens
    /\ disk' = [disk EXCEPT !.token = 0]
    /\ busy' = [at |-> "rotating", req |-> r, token |-> last + 1]
    /\ last' = last + 1
    /\ retired' = retired \cup ({disk.token} \ {0})
    /\ UNCHANGED <<node, options, boots, net, setup, served, given>>

RotateFails(r) ==
    /\ "token" \in Faults
    /\ \/ MayRotate(r) /\ UNCHANGED busy
       \/ busy # None /\ busy.at = "rotating" /\ busy.req = r /\ busy' = None
    /\ Answers(r, 0)
    /\ UNCHANGED <<files, node, options, boots, setup, record>>

RotateWrites ==
    /\ busy # None /\ busy.at = "rotating"
    /\ disk' = [disk EXCEPT !.token = busy.token]
    /\ busy' = [busy EXCEPT !.at = "rotated"]
    /\ UNCHANGED <<last, node, options, boots, net, setup, record>>

(* The rest of the claim: the runtime, the marker and the reply. *)
ClaimedKeepsApi(token) == [node EXCEPT !.rotated = token]
AfterClaim(token) == [node EXCEPT !.api = token, !.rotated = token]
ClaimAnswers ==
    /\ busy # None /\ busy.at = "rotated"
    /\ node' = AfterClaim(busy.token)
    /\ \/ disk' = [disk EXCEPT !.claimed = TRUE]
       \/ "claimed" \in Faults /\ UNCHANGED disk
    /\ given' = given \cup {<<busy.req.bearer, busy.token>>}
    /\ busy' = None
    /\ Answers(busy.req, busy.token)
    /\ UNCHANGED <<last, options, boots, setup, served, retired>>
------------------------------------------------------------------------------
(* The config flow.  n counts its requests: the first is the GET, then come  *)
(* two claims at the most.  A node that is down takes no request.            *)
Sends(f, n, bearer) ==
    requests' = IF node.up THEN requests \cup {Request(f, n, bearer)} ELSE requests
At(f, where, n, token) == flow' = [flow EXCEPT ![f] = [at |-> where, n |-> n, token |-> token]]

FlowStarts(f) ==
    /\ flow[f].at = "idle"
    /\ At(f, "fetch", 1, 0)
    /\ Sends(f, 1, 0)
    /\ UNCHANGED <<files, node, busy, options, boots, replies, entry, record>>

FlowHears(f) ==
    \E m \in replies :
        /\ m.flow = f /\ m.n = flow[f].n /\ flow[f].at \in {"fetch", "claim"}
        /\ replies' = replies \ {m}
        /\ IF flow[f].at = "fetch" /\ m.token # 0
           THEN At(f, "claim", 2, m.token) /\ Sends(f, 2, m.token)
           ELSE At(f, "form", flow[f].n, m.token) /\ UNCHANGED requests
        /\ UNCHANGED <<files, node, busy, options, boots, entry, record>>

(* No answer in time, or the connection is lost. *)
FlowTimesOut(f) ==
    /\ flow[f].at \in {"fetch", "claim"}
    /\ IF flow[f].at = "claim" /\ flow[f].n = 2
       THEN At(f, "claim", 3, flow[f].token) /\ Sends(f, 3, flow[f].token)
       ELSE At(f, "form", flow[f].n, 0) /\ UNCHANGED requests
    /\ UNCHANGED <<files, node, busy, options, boots, replies, entry, record>>

(* The user sends the form off or leaves it.  There is one entry per node.   *)
FlowEnds(f) ==
    /\ flow[f].at = "form"
    /\ At(f, "done", flow[f].n, 0)
    /\ entry' \in {entry, IF entry = 0 THEN flow[f].token ELSE entry}
    /\ UNCHANGED <<files, node, busy, options, boots, net, record>>

RemoveEntry ==
    /\ entry # 0 /\ entry' = 0
    /\ UNCHANGED <<files, node, busy, options, boots, net, flow, record>>
------------------------------------------------------------------------------
Init ==
    /\ disk = [token |-> 0, consumed |-> FALSE, claimed |-> FALSE]
    /\ node = Down /\ busy = None
    /\ options = [reset |-> FALSE, explicit |-> FALSE]
    /\ last = 0 /\ boots = 0
    /\ requests = {} /\ replies = {}
    /\ flow = [f \in Flows |-> [at |-> "idle", n |-> 0, token |-> 0]]
    /\ entry = 0 /\ served = <<>> /\ given = {} /\ retired = {}

Next ==
    \/ Start \/ StartDies \/ Crash \/ WindowCloses \/ SetOptions
    \/ \E r \in requests :
        \/ BootstrapRefuses(r) \/ BootstrapMarks(r)
        \/ ClaimRepeats(r) \/ ClaimRefuses(r) \/ RotateOpens(r) \/ RotateFails(r)
    \/ BootstrapServes \/ RotateWrites \/ ClaimAnswers
    \/ \E f \in Flows : FlowStarts(f) \/ FlowHears(f) \/ FlowTimesOut(f) \/ FlowEnds(f)
    \/ RemoveEntry

Spec == Init /\ [][Next]_vars
------------------------------------------------------------------------------
(* A node that is down holds nothing; one that runs has handed its token out *)
(* or not, and what it rotated to is what its API goes by.                   *)
TypeOK ==
    /\ disk \in [token : Tokens, consumed : BOOLEAN, claimed : BOOLEAN]
    /\ node \in [up : BOOLEAN, window : BOOLEAN, api : Tokens \cup {Explicit},
                 boot : Tokens, claim : Tokens, rotated : Tokens]
    /\ ~node.up => node = Down /\ busy = None /\ requests = {}
    /\ node.boot = 0 \/ node.claim = 0
    /\ node.rotated # 0 => node.rotated = node.api
    /\ last \in Tokens /\ entry \in Tokens /\ boots \in 0..MaxBoots

(* http_api.py, bootstrap_claim: the token an integration has stored is the *)
(* one the node goes by, also after it died at any point and was started    *)
(* again, unless a later claim set out to replace it.                        *)
StoredTokenWorks ==
    entry # 0 /\ entry \notin retired =>
        /\ disk.token = entry
        /\ node.up /\ node.api # Explicit => node.api = entry

(* A token is served once in a run of the node, and not again, before the  *)
(* markers are reset, once its marker could be written; a token that was    *)
(* claimed is no longer the token of the API, not even after a restart.     *)
ServedOnce ==
    /\ \A i, j \in DOMAIN served :
        i < j => served[i].boot < served[j].boot /\ ~served[i].marked
    /\ \A a \in given : node.api # a[1]
    /\ \A t \in retired : disk.token # t

(* A claim with the token that this run of the node has served, handled     *)
(* after such a claim was answered, gets the same answer: it is neither      *)
(* refused nor given another token.                                         *)
RetriesAgree ==
    \A r \in requests \ requests', a \in given :
        node.up' /\ Known(r.bearer) /\ r.bearer = a[1] => Reply(r, a[2]) \in replies'

(* http_api.py, bootstrap and bootstrap_claim: however requests are late or *)
(* repeated, writes fail and the node dies and starts again, a token is     *)
(* handed over once - per run of the node, while the marker cannot be       *)
(* written - and the claim that exchanges it can be repeated as long as the *)
(* node that served it runs.  (Nothing was served in the initial states, so *)
(* ServedOnce after every step is ServedOnce always.)                       *)
HandedOverOnce == [][ServedOnce' /\ RetriesAgree]_vars
=============================================================================
