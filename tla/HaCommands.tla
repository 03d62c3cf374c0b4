----------------------------- MODULE HaCommands -----------------------------
(***************************************************************************)
(* The commands that talk to Home Assistant (commands/ha.py,               *)
(* commands/ha_config_*.py over ha_client.py) and the approval gate before *)
(* the ones that change something (commands/config_mutation.py,            *)
(* approval_policy.py).                                                    *)
(*                                                                         *)
(* A handler is sequential: it checks its parameters, passes the gate,     *)
(* checks more parameters and then makes requests one after another.  It   *)
(* is written down as a script that says just that, and the actions of     *)
(* this module run the scripts.  All that a handler does before its first  *)
(* request happens without an await, so it is one step.  Two calls can be  *)
(* in progress: one from the gateway connection, one from the HTTP API.    *)
(*                                                                         *)
(* What a request carries is a name; the only answer that is looked into   *)
(* is the state of the add-on that all lifecycle calls are about.  Home    *)
(* Assistant may carry a write out after the client gave up on it.         *)
(***************************************************************************)
EXTENDS Naturals, Sequences, TLC

CONSTANTS
    Calls,
    Workloads,   \* the commands the calls make: a set of functions from Calls
    Params,      \* what the parameters of a call name
    AttrsType,   \* [Params -> the command their attrs name as the frame's type, or None]
    Callers,     \* who the call runs as; None, if no principal was resolved
    Ids,         \* marker ids
    TTL,         \* how long a marker is good for
    MaxNow, MaxBoots,
    None, Malformed

VARIABLES
    cmd,         \* [Calls -> <<command, action>>]
    call,        \* [Calls -> what is known of the call]
    minted,      \* [Ids -> the marker the plugin made, or None]
    used,        \* _USED_IDS
    now, boots,
    flying,      \* the calls whose write Home Assistant may still carry out
    done,        \* the calls whose write it has carried out
    addon        \* the state of the add-on

vars == <<cmd, call, minted, used, now, boots, flying, done, addon>>
ha == <<flying, done, addon>>
env == <<cmd, minted, now, boots>>
------------------------------------------------------------------------------
(* What can come of a request, by transport: a reply, an HAClientError, a   *)
(* TimeoutError (the total timeout of aiohttp is not a ClientError), or     *)
(* another exception (a reply that is not JSON, a socket closed mid-call).  *)
ha_get == {"reply", "error", "timeout", "raise"}
ha_post == {"reply", "error", "timeout", "raise"}
ha_delete == {"reply", "error", "timeout", "raise"}
ha_ws_call == {"reply", "error", "timeout", "raise"}
supervisor_get_text == {"reply", "error", "timeout"}
supervisor_get_json == {"reply", "error", "timeout"}
supervisor_post_json == {"reply", "error", "timeout"}

(* Requests: a read whose reply is the answer, with its shape checked or    *)
(* not; a write; and the reads that only add to the answer of a write or a  *)
(* read that has succeeded.                                                 *)
Read(via) == [kind |-> "read", can |-> via \cup {"shape"}]
ReadText(via) == [kind |-> "read", can |-> via]
Write(via) == [kind |-> "write", can |-> via]
WriteShaped(via) == [kind |-> "write", can |-> via \cup {"shape"}]

(* Scripts.  "keys" are refused with unknown names, "param" stands for the  *)
(* other parameter checks, "policy" for the checks against fixed lists.  A  *)
(* script of Merged sends the caller's attrs as part of the frame.          *)
Query(checks, requests) ==
    [before |-> checks, gate |-> FALSE, after |-> {}, attrs |-> FALSE,
     requests |-> requests, timeout |-> "COMMAND_ERROR", desired |-> None]
Gated(checks, later, requests) ==
    [before |-> checks, gate |-> TRUE, after |-> later, attrs |-> FALSE,
     requests |-> requests, timeout |-> "COMMAND_ERROR", desired |-> None]
Merged(checks, later, requests) ==
    [before |-> checks, gate |-> TRUE, after |-> later, attrs |-> TRUE,
     requests |-> requests, timeout |-> "COMMAND_ERROR", desired |-> None]

(* commands/ha.py, the queries. *)
handle_ha_list_states == Query({"keys", "param"}, <<Read(ha_get)>>)
handle_ha_get_state == Query({"keys", "param"}, <<Read(ha_get)>>)
handle_ha_list_areas == Query({"keys"}, <<Read(ha_ws_call)>>)
handle_ha_list_devices == Query({"keys", "param"}, <<Read(ha_ws_call)>>)
handle_ha_list_services == Query({"keys", "param"}, <<Read(ha_get)>>)
handle_ha_get_config == Query({"keys"}, <<Read(ha_get)>>)
handle_ha_list_events == Query({"keys"}, <<Read(ha_get)>>)
handle_ha_list_config_entries == Query({"keys", "param"}, <<Read(ha_get)>>)
handle_ha_core_logs == Query({"keys", "param"}, <<ReadText(supervisor_get_text)>>)
handle_ha_calendar_get_events == Query({"keys", "param"}, <<Read(ha_post)>>)
handle_ha_list_entity_registry == Query({"keys", "param"}, <<Read(ha_ws_call)>>)
handle_ha_logbook == Query({"keys", "param"}, <<Read(ha_get)>>)
handle_ha_check_config == Query({"keys"}, <<Read(ha_post)>>)
handle_ha_addon_logs == Query({"keys", "param"}, <<ReadText(supervisor_get_text)>>)
handle_ha_list_addons == Query({"keys"}, <<Read(supervisor_get_json)>>)
handle_ha_addon_info == Query({"keys", "param"}, <<Read(supervisor_get_json)>>)
handle_ha_addon_stats == Query({"keys", "param"}, <<Read(supervisor_get_json)>>)
handle_ha_supervisor_info == Query({"keys"}, <<Read(supervisor_get_json)>>)
handle_ha_addon_changelog == Query({"keys", "param"}, <<ReadText(supervisor_get_text)>>)
handle_ha_addon_documentation == Query({"keys", "param"}, <<ReadText(supervisor_get_text)>>)

(* An empty history is followed by a look for the entities that were named: *)
(* one that is not there turns the answer into HA_NOT_FOUND, a look that    *)
(* fails changes nothing.                                                   *)
_missing_entity_ids == [kind |-> "missing", can |-> {"reply", "none"}]
handle_ha_history == Query({"keys", "param"}, <<Read(ha_get), _missing_entity_ids>>)

(* The traces of the automations: an HAClientError leaves them out, a       *)
(* timeout is not caught.                                                   *)
trace_list == [kind |-> "extra", can |-> ha_ws_call]
handle_ha_list_automations == Query({"keys", "param"}, <<Read(ha_get), trace_list>>)

(* Services and lights: the states after the call are read on a best-effort *)
(* basis.  Only call_service insists on the shape of the reply.             *)
_fetch_entity_states == [kind |-> "look", can |-> {"reply"}]
handle_ha_call_service ==
    Query({"keys", "param", "policy"}, <<WriteShaped(ha_post), _fetch_entity_states>>)
handle_ha_light_turn_on == Query({"keys", "param"}, <<Write(ha_post), _fetch_entity_states>>)
handle_ha_light_turn_off == Query({"keys", "param"}, <<Write(ha_post), _fetch_entity_states>>)

(* The commands of ha.py behind the gate: all checks come before it. *)
handle_ha_reload_config == Gated({"keys", "param"}, {}, <<Write(ha_post)>>)
handle_ha_update_install ==
    [Gated({"keys", "param"}, {}, <<Write(ha_post)>>) EXCEPT !.timeout = "OUTCOME_UNKNOWN"]

(* Add-on lifecycle: the state is read before and after; a timeout once the *)
(* action was posted is reported as an unknown outcome.                     *)
_addon_state(kind) == [kind |-> kind, can |-> supervisor_get_json]
_handle_addon_lifecycle(desired_state) ==
    [before |-> {"param", "policy", "keys"}, gate |-> TRUE, after |-> {}, attrs |-> FALSE,
     requests |-> <<_addon_state("probe"), Write(supervisor_post_json), _addon_state("confirm")>>,
     timeout |-> "OUTCOME_UNKNOWN", desired |-> desired_state]
handle_ha_addon_start == _handle_addon_lifecycle("started")
handle_ha_addon_stop == _handle_addon_lifecycle("stopped")
handle_ha_addon_restart == _handle_addon_lifecycle(None)
handle_ha_addon_update == _handle_addon_lifecycle(None)

(* commands/ha_config_*.py: the keys are checked before the gate, what they *)
(* hold after it.                                                           *)
handle_ha_config_automation(action) ==
    CASE action = "get" -> Query({"keys", "param"}, <<Read(ha_get)>>)
      [] action = "save" -> Gated({"keys"}, {"param"}, <<Write(ha_post)>>)
      [] action = "delete" -> Gated({"keys"}, {"param"}, <<Write(ha_delete)>>)
handle_ha_config_script(action) ==
    CASE action = "get" -> Query({"keys", "param"}, <<Read(ha_get)>>)
      [] action = "save" -> Gated({"keys"}, {"param"}, <<Write(ha_post)>>)
      [] action = "delete" -> Gated({"keys"}, {"param"}, <<Write(ha_delete)>>)
handle_ha_config_scene(action) ==
    CASE action = "get" -> Query({"keys", "param"}, <<Read(ha_get)>>)
      [] action = "save" -> Gated({"keys"}, {"param"}, <<Write(ha_post)>>)
      [] action = "delete" -> Gated({"keys"}, {"param"}, <<Write(ha_delete)>>)
helpers_list == Query({"keys", "param"}, <<Read(ha_ws_call)>>)
helpers_write == Merged({"keys"}, {"param"}, <<Write(ha_ws_call)>>)
helpers_delete == Gated({"keys"}, {"param"}, <<Write(ha_ws_call)>>)
handle_ha_config_helpers(action) ==
    CASE action = "list" -> helpers_list
      [] action \in {"create", "update"} -> helpers_write
      [] action = "delete" -> helpers_delete
lovelace_get == Query({"keys", "param"}, <<Read(ha_ws_call)>>)
lovelace_save == Gated({"keys"}, {"param"}, <<Write(ha_ws_call)>>)
lovelace_list == Query({"keys"}, <<Read(ha_ws_call)>>)
lovelace_resources_create == Gated({"keys"}, {"param"}, <<Write(ha_ws_call)>>)
handle_ha_config_lovelace(action) ==
    CASE action = "get" -> lovelace_get
      [] action = "save" -> lovelace_save
      [] action \in {"dashboards_list", "resources_list"} -> lovelace_list
      [] action = "resources_create" -> lovelace_resources_create
handle_ha_config_area_registry(action) ==
    CASE action = "list" -> Query({"keys"}, <<Read(ha_ws_call)>>)
      [] action \in {"create", "update"} -> Merged({"keys"}, {"param"}, <<Write(ha_ws_call)>>)
      [] action = "delete" -> Gated({"keys"}, {"param"}, <<Write(ha_ws_call)>>)
handle_ha_config_device_registry(action) ==
    IF action = "list"
    THEN Query({"keys", "param"}, <<Read(ha_ws_call)>>)
    ELSE Merged({"keys"}, {"param"}, <<Write(ha_ws_call)>>)
handle_ha_config_entity_registry(action) ==
    CASE action \in {"list", "get"} -> Query({"keys", "param"}, <<Read(ha_ws_call)>>)
      [] action = "update" -> Merged({"keys"}, {"param"}, <<Write(ha_ws_call)>>)
      [] action = "remove" -> Gated({"keys"}, {"param"}, <<Write(ha_ws_call)>>)
handle_ha_config_config_entries(action) ==
    IF action = "get"
    THEN Query({"keys", "param"}, <<Read(ha_ws_call)>>)
    ELSE Gated({"keys"}, {"param"}, <<Write(ha_ws_call)>>)

(* The commands that are registered: those of ha.py, which have no action,  *)
(* and the actions of ha.config.*.                                          *)
_REGISTRY ==
    [list_states |-> handle_ha_list_states, get_state |-> handle_ha_get_state,
     list_areas |-> handle_ha_list_areas, list_devices |-> handle_ha_list_devices,
     list_services |-> handle_ha_list_services, get_config |-> handle_ha_get_config,
     list_events |-> handle_ha_list_events,
     list_config_entries |-> handle_ha_list_config_entries,
     core_logs |-> handle_ha_core_logs,
     calendar_get_events |-> handle_ha_calendar_get_events,
     list_entity_registry |-> handle_ha_list_entity_registry, logbook |-> handle_ha_logbook,
     check_config |-> handle_ha_check_config, addon_logs |-> handle_ha_addon_logs,
     list_addons |-> handle_ha_list_addons, addon_info |-> handle_ha_addon_info,
     addon_stats |-> handle_ha_addon_stats, supervisor_info |-> handle_ha_supervisor_info,
     addon_changelog |-> handle_ha_addon_changelog,
     addon_documentation |-> handle_ha_addon_documentation, history |-> handle_ha_history,
     list_automations |-> handle_ha_list_automations,
     call_service |-> handle_ha_call_service, light_turn_on |-> handle_ha_light_turn_on,
     light_turn_off |-> handle_ha_light_turn_off, reload_config |-> handle_ha_reload_config,
     update_install |-> handle_ha_update_install, addon_start |-> handle_ha_addon_start,
     addon_stop |-> handle_ha_addon_stop, addon_restart |-> handle_ha_addon_restart,
     addon_update |-> handle_ha_addon_update]
_ACTIONS ==
    [automation |-> {"get", "save", "delete"}, script |-> {"get", "save", "delete"},
     scene |-> {"get", "save", "delete"},
     helpers |-> {"list", "create", "update", "delete"},
     lovelace |-> {"get", "save", "dashboards_list", "resources_list", "resources_create"},
     area_registry |-> {"list", "create", "update", "delete"},
     device_registry |-> {"list", "update"},
     entity_registry |-> {"list", "get", "update", "remove"},
     config_entries |-> {"get", "disable", "enable"}]
Commands ==
    {<<c, "">> : c \in DOMAIN _REGISTRY}
        \cup UNION {{<<c, a>> : a \in _ACTIONS[c]} : c \in DOMAIN _ACTIONS}

Script(k) ==
    CASE k[2] = "" -> _REGISTRY[k[1]]
      [] k[1] = "automation" -> handle_ha_config_automation(k[2])
      [] k[1] = "script" -> handle_ha_config_script(k[2])
      [] k[1] = "scene" -> handle_ha_config_scene(k[2])
      [] k[1] = "helpers" -> handle_ha_config_helpers(k[2])
      [] k[1] = "lovelace" -> handle_ha_config_lovelace(k[2])
      [] k[1] = "area_registry" -> handle_ha_config_area_registry(k[2])
      [] k[1] = "device_registry" -> handle_ha_config_device_registry(k[2])
      [] k[1] = "entity_registry" -> handle_ha_config_entity_registry(k[2])
      [] k[1] = "config_entries" -> handle_ha_config_config_entries(k[2])
------------------------------------------------------------------------------
(* Who needs approval (approval_policy.py). *)
DESTRUCTIVE ==
    {<<"automation", "delete">>, <<"script", "delete">>, <<"scene", "delete">>,
     <<"helpers", "delete">>, <<"area_registry", "delete">>, <<"entity_registry", "remove">>,
     <<"config_entries", "disable">>, <<"update_install", "">>}
USER_DIRECTED ==
    {<<"automation", "save">>, <<"script", "save">>, <<"scene", "save">>,
     <<"helpers", "create">>, <<"helpers", "update">>, <<"area_registry", "create">>,
     <<"area_registry", "update">>, <<"device_registry", "update">>,
     <<"entity_registry", "update">>, <<"config_entries", "enable">>,
     <<"lovelace", "save">>, <<"lovelace", "resources_create">>}
LIFECYCLE_NO_APPROVAL ==
    [admin |-> {<<"addon_start", "">>, <<"addon_restart", "">>},
     super_admin |-> {<<"addon_start", "">>, <<"addon_stop", "">>, <<"addon_restart", "">>}]

(* An exemption that forgets which commands a role may run. *)
ExemptAdmins(caller, k) ==
    caller # None /\ caller.role \in DOMAIN LIFECYCLE_NO_APPROVAL
approval_exempt(caller, k) ==
    /\ caller # None
    /\ caller.role \in DOMAIN LIFECYCLE_NO_APPROVAL
    /\ caller.named
    /\ k \in USER_DIRECTED \/ k \in LIFECYCLE_NO_APPROVAL[caller.role]

(* The gate (consume_approval_marker).  A marker is malformed, or it is one *)
(* the plugin minted, known by its id.                                      *)
Expired(id) == minted[id].exp < now
approval_bind(k, param) == <<k, param>>
PrunedAtExpiry == {id \in used : minted[id].exp > now}
Pruned == {id \in used : ~Expired(id)}
Accepts(k, param, id) ==
    /\ ~Expired(id)
    /\ minted[id].bind = approval_bind(k, param)
    /\ id \notin Pruned

(* What a call is let through by: the id of its marker, "exempt", or None.  *)
Pass(k, in) ==
    IF in.marker = None
    THEN IF approval_exempt(in.caller, k) THEN "exempt" ELSE None
    ELSE IF in.marker \in Ids /\ Accepts(k, in.param, in.marker) THEN in.marker ELSE None
UsedAfterAny(k, in) == IF in.marker = None THEN used ELSE Pruned \cup {in.marker}
UsedAfter(k, in) ==
    IF in.marker \notin Ids THEN used
    ELSE Pruned \cup (IF Accepts(k, in.param, in.marker) THEN {in.marker} ELSE {})
------------------------------------------------------------------------------
(* The calls.  at is 0 before the handler runs and then the number of the  *)
(* request it waits for.                                                    *)
NewCall == [at |-> 0, boot |-> 0, param |-> None, caller |-> None, defect |-> None,
            pass |-> None, answer |-> None]
S(c) == Script(cmd[c])
Request(c) == S(c).requests[call[c].at]
(* What the frame of a call's write asks Home Assistant for: attrs are      *)
(* merged over the type the handler chose.                                  *)
Frame(c) ==
    IF S(c).attrs /\ AttrsType[call[c].param] # None
    THEN AttrsType[call[c].param] ELSE cmd[c]
Writes(k) == \E n \in DOMAIN Script(k).requests : Script(k).requests[n].kind = "write"

(* What a call can bring.  Only the gate looks at the caller, the marker    *)
(* and what the parameters name.                                            *)
Inputs(k) ==
    [param : IF Script(k).gate THEN Params ELSE {None},
     caller : IF Script(k).gate THEN Callers ELSE {None},
     marker : IF Script(k).gate
              THEN {None, Malformed} \cup {id \in Ids : minted[id] # None}
              ELSE {None},
     defect : {None} \cup Script(k).before \cup Script(k).after]

Code(defect) == IF defect = "policy" THEN "DENIED" ELSE "INVALID_PARAM"

(* What is kept of a call: who and what it was let through for. *)
Heard(c, in, pass) ==
    [call[c] EXCEPT !.pass = pass,
        !.boot = IF pass \in Ids THEN boots ELSE 0,
        !.param = IF pass = None THEN None ELSE in.param,
        !.caller = IF pass = "exempt" THEN in.caller ELSE None,
        !.defect = IF pass = None THEN None ELSE in.defect]
Answered(c, code) == call' = [call EXCEPT ![c].answer = code]

(* Sending a request; a write is Home Assistant's from then on. *)
Goes(c, n) == flying' = IF S(c).requests[n].kind = "write" THEN flying \cup {c} ELSE flying

(* Parameters are refused before the gate is asked. *)
RefuseInput(c) ==
    /\ call[c].at = 0 /\ call[c].answer = None
    /\ \E in \in Inputs(cmd[c]) :
        /\ in.defect \in S(c).before
        /\ call' = [call EXCEPT ![c] =
                       [Heard(c, in, None) EXCEPT !.answer = Code(in.defect)]]
    /\ UNCHANGED <<used, ha, env>>

(* The gate refuses; the checks behind it are not reached. *)
RefuseUnapproved(c) ==
    /\ call[c].at = 0 /\ call[c].answer = None /\ S(c).gate
    /\ \E in \in Inputs(cmd[c]) :
        /\ in.defect \notin S(c).before
        /\ Pass(cmd[c], in) = None
        /\ used' = UsedAfter(cmd[c], in)
        /\ call' = [call EXCEPT ![c] =
                       [Heard(c, in, None) EXCEPT
                           !.answer = IF in.marker = None THEN "PROPOSAL_REQUIRED"
                                      ELSE "APPROVAL_INVALID"]]
    /\ UNCHANGED <<ha, env>>

(* The gate lets the call pass, and then the parameters are refused: the   *)
(* approval is spent.                                                       *)
RefuseLate(c) ==
    /\ call[c].at = 0 /\ call[c].answer = None
    /\ \E in \in Inputs(cmd[c]) :
        /\ in.defect \in S(c).after
        /\ Pass(cmd[c], in) # None
        /\ used' = UsedAfter(cmd[c], in)
        /\ call' = [call EXCEPT ![c] =
                       [Heard(c, in, Pass(cmd[c], in)) EXCEPT !.answer = Code(in.defect)]]
    /\ UNCHANGED <<ha, env>>

(* The call is in order: its first request goes out. *)
Begin(c) ==
    /\ call[c].at = 0 /\ call[c].answer = None
    /\ \E in \in Inputs(cmd[c]) :
        /\ in.defect = None
        /\ S(c).gate => Pass(cmd[c], in) # None
        /\ used' = IF S(c).gate THEN UsedAfter(cmd[c], in) ELSE used
        /\ call' = [call EXCEPT ![c] =
                       [Heard(c, in, IF S(c).gate THEN Pass(cmd[c], in) ELSE None)
                            EXCEPT !.at = 1]]
    /\ Goes(c, 1)
    /\ UNCHANGED <<done, addon, env>>

(* The outcomes of the request a call waits for. *)
Waits(c, outcome) ==
    call[c].at # 0 /\ call[c].answer = None /\ outcome \in Request(c).can
Optional == {"missing", "extra", "look"}

(* A reply: the next request goes out, or the call is over.  The optional   *)
(* ones are made or not, depending on what the reply holds.                 *)
Reply(c) ==
    /\ Waits(c, "reply")
    /\ Request(c).kind = "write" => c \in done
    /\ \/ /\ call[c].at < Len(S(c).requests)
          /\ call' = [call EXCEPT ![c].at = @ + 1]
          /\ Goes(c, call[c].at + 1)
       \/ /\ call[c].at < Len(S(c).requests) => S(c).requests[call[c].at + 1].kind \in Optional
          /\ Answered(c, "ok")
          /\ UNCHANGED flying
    /\ UNCHANGED <<used, done, addon, env>>

(* The add-on is as the call wants it: nothing is posted. *)
Already(c) ==
    /\ Waits(c, "reply") /\ Request(c).kind = "probe"
    /\ S(c).desired = addon
    /\ Answered(c, "unchanged")
    /\ UNCHANGED <<used, ha, env>>

BadShape(c) ==
    /\ Waits(c, "shape")
    /\ Request(c).kind = "write" => c \in done
    /\ Answered(c, "HA_BAD_RESPONSE")
    /\ UNCHANGED <<used, ha, env>>

NotFound(c) ==
    /\ Waits(c, "none")
    /\ Answered(c, "HA_NOT_FOUND")
    /\ UNCHANGED <<used, ha, env>>

(* An HAClientError: with a write, it may or may not have been carried out, *)
(* and still may be.                                                        *)
Error(c) ==
    /\ Waits(c, "error")
    /\ Answered(c, IF Request(c).kind = "extra" THEN "ok" ELSE "HA_ERROR")
    /\ UNCHANGED <<used, ha, env>>

TimesOutUncaught(c) ==
    /\ Waits(c, "timeout")
    /\ Answered(c, "COMMAND_ERROR")
    /\ UNCHANGED <<used, ha, env>>
TimesOut(c) ==
    /\ Waits(c, "timeout")
    /\ Answered(c, IF Request(c).kind \in {"write", "confirm"}
                   THEN S(c).timeout ELSE "COMMAND_ERROR")
    /\ UNCHANGED <<used, ha, env>>

(* Any other exception is answered by the dispatching connection. *)
Raises(c) ==
    /\ Waits(c, "raise")
    /\ Answered(c, "COMMAND_ERROR")
    /\ UNCHANGED <<used, ha, env>>
------------------------------------------------------------------------------
(* Home Assistant, the plugin and the clock. *)
Lifecycle == {"addon_start", "addon_stop", "addon_restart", "addon_update"}
CarriesOut(c) ==
    /\ c \in flying
    /\ flying' = flying \ {c}
    /\ done' = done \cup {c}
    /\ addon' = CASE cmd[c][1] = "addon_stop" -> "stopped"
                  [] cmd[c][1] \in Lifecycle \ {"addon_stop"} -> "started"
                  [] OTHER -> addon
    /\ UNCHANGED <<call, used, env>>

(* Someone else starts or stops the add-on. *)
AddonChanges ==
    /\ addon' \in {"started", "stopped"} \ {addon}
    /\ UNCHANGED <<flying, done, call, used, env>>

(* An approval was given, and the plugin makes a marker for that call. *)
Mint(id) ==
    /\ minted[id] = None
    /\ \E c \in Calls, p \in Params :
        /\ S(c).gate /\ call[c] = NewCall
        /\ minted' = [minted EXCEPT ![id] = [exp |-> now + TTL, bind |-> <<cmd[c], p>>]]
    /\ UNCHANGED <<call, used, cmd, now, boots, ha>>

Tick == now < MaxNow /\ now' = now + 1 /\ UNCHANGED <<call, used, cmd, minted, boots, ha>>

(* A restart of the node: what was in progress is never answered, and the  *)
(* used ids are forgotten.                                                  *)
Restart ==
    /\ boots < MaxBoots
    /\ boots' = boots + 1
    /\ used' = {}
    /\ call' = [c \in Calls |->
                   IF call[c].at # 0 /\ call[c].answer = None
                   THEN [call[c] EXCEPT !.answer = "lost"] ELSE call[c]]
    /\ UNCHANGED <<cmd, minted, now, ha>>

Init ==
    /\ cmd \in Workloads
    /\ call = [c \in Calls |-> NewCall]
    /\ minted = [id \in Ids |-> None]
    /\ used = {} /\ now = 0 /\ boots = 0
    /\ flying = {} /\ done = {} /\ addon \in {"started", "stopped"}

Step(c) ==
    \/ RefuseInput(c) \/ RefuseUnapproved(c) \/ RefuseLate(c) \/ Begin(c)
    \/ Reply(c) \/ Already(c) \/ BadShape(c) \/ NotFound(c)
    \/ Error(c) \/ TimesOut(c) \/ Raises(c)

Next ==
    \/ \E c \in Calls : Step(c) \/ CarriesOut(c)
    \/ \E id \in Ids : Mint(id)
    \/ AddonChanges \/ Tick \/ Restart

Spec == Init /\ [][Next]_vars
------------------------------------------------------------------------------
Refusals == {"INVALID_PARAM", "DENIED", "PROPOSAL_REQUIRED", "APPROVAL_INVALID"}
Answers ==
    Refusals \cup {"ok", "unchanged", "HA_ERROR", "HA_BAD_RESPONSE", "HA_NOT_FOUND",
                   "COMMAND_ERROR", "OUTCOME_UNKNOWN", "lost"}

ASSUME ConstantAssumption ==
    /\ Workloads \subseteq [Calls -> Commands]
    /\ AttrsType \in [Params -> Commands \cup {None}]
    /\ TTL \in Nat /\ MaxNow \in Nat /\ MaxBoots \in Nat
    /\ None \notin Ids /\ Malformed \notin Ids /\ "exempt" \notin Ids /\ Malformed # None
    /\ None \notin Answers \cup {"exempt", "keys", "param", "policy"}
    /\ None \notin [exp : Nat, bind : Commands \X Params]

(* A call waits for a request of its own script, has been let through the  *)
(* gate by nothing but a marker or an exemption, and only markers that were *)
(* minted are used.                                                         *)
TypeOK ==
    /\ \A c \in Calls :
        /\ cmd[c] \in Commands
        /\ call[c].at \in 0..Len(S(c).requests)
        /\ call[c].pass \in Ids \cup {"exempt", None}
        /\ call[c].answer \in Answers \cup {None}
    /\ used \subseteq {id \in Ids : minted[id] # None}
    /\ flying \subseteq Calls /\ done \subseteq Calls
    /\ addon \in {"started", "stopped"}
    /\ now \in 0..MaxNow /\ boots \in 0..MaxBoots

(* config_mutation.py: an approval is spent at most once as long as the    *)
(* node runs - the ids of used markers may be forgotten only when the       *)
(* markers are no longer good - and never by a call that is refused for its *)
(* keys, its policy or any other check the command makes before the gate.   *)
ApprovalSpentOnce ==
    \A c \in Calls : call[c].pass \in Ids =>
        /\ call[c].defect \notin S(c).before
        /\ \A d \in Calls \ {c} : call[d].pass = call[c].pass => call[d].boot # call[c].boot

(* approval_policy.py: whatever Home Assistant carried out for a gated      *)
(* command, also after a timeout or a restart, was approved as exactly this *)
(* call, its attrs included, or asked for by a named administrator; and     *)
(* what is destructive was approved - unless an administrator's own attrs   *)
(* put the destructive type in the frame of a command that merges them.     *)
EffectsAuthorised ==
    \A c \in done \cup flying : S(c).gate =>
        \/ /\ call[c].pass \in Ids
           /\ minted[call[c].pass].bind = <<cmd[c], call[c].param>>
        \/ /\ call[c].pass = "exempt"
           /\ Frame(c) \in DESTRUCTIVE => S(c).attrs
           /\ call[c].caller # None /\ call[c].caller.named
           /\ call[c].caller.role \in {"admin", "super_admin"}

(* ha.py: a refused call, and one answered as not having changed anything,  *)
(* never has an effect, not even later; success means that the change was   *)
(* carried out.  A lifecycle call whose action was posted and that was not  *)
(* answered in time says that its outcome is unknown, and says so only      *)
(* then.                                                                    *)
AnswersTrue ==
    \A c \in Calls :
        /\ call[c].answer \in Refusals \cup {"unchanged"} => c \notin done \cup flying
        /\ call[c].answer = "ok" /\ Writes(cmd[c]) => c \in done
        /\ call[c].answer = "OUTCOME_UNKNOWN" => c \in done \cup flying
        /\ call[c].answer = "COMMAND_ERROR" /\ cmd[c][1] \in Lifecycle => c \notin done \cup flying
=============================================================================
