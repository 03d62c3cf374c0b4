-------------------------- MODULE HaCommandsProofs --------------------------
(***************************************************************************)
(* Theorems about HaCommands, for any number of calls of any of the        *)
(* commands at once, any callers and markers, and any number of restarts.  *)
(***************************************************************************)
EXTENDS HaCommands, TLAPS

Kinds == {"read", "write", "probe", "confirm", "missing", "extra", "look"}
Outcomes == {"reply", "shape", "none", "error", "timeout", "raise"}
RequestSet == [kind : Kinds, can : SUBSET Outcomes]

(* What the scripts have in common.  Every script asks something; the      *)
(* requests that only add to an answer come last; the state of an add-on   *)
(* is first read before and then confirmed after a write; and what is      *)
(* checked before the gate is not checked after it.                        *)
WellFormed(s) ==
    /\ s.requests \in Seq(RequestSet) /\ Len(s.requests) \in 1..3
    /\ s.timeout \in {"COMMAND_ERROR", "OUTCOME_UNKNOWN"}
    /\ s.gate \in BOOLEAN
    /\ s.before \in SUBSET {"keys", "param", "policy"}
    /\ s.after \in SUBSET {"keys", "param", "policy"} /\ s.before \cap s.after = {}
    /\ \A n \in 1..Len(s.requests) :
        /\ s.requests[n].kind \in Optional => n = Len(s.requests)
        /\ s.requests[n].kind = "probe" => n = 1
        /\ s.requests[n].kind = "confirm" => \E m \in 1..(n - 1) : s.requests[m].kind = "write"

(* A lifecycle command never answers that it failed once it has posted.    *)
TellsUnknown(s) ==
    /\ s.timeout = "OUTCOME_UNKNOWN"
    /\ \A n \in 1..Len(s.requests) :
        s.requests[n].kind \in {"probe", "write", "confirm"} /\ "raise" \notin s.requests[n].can

-----------------------------------------------------------------------------
LEMMA OneRequest ==
  ASSUME NEW r \in [kind : {"read", "write"}, can : SUBSET Outcomes],
         NEW b \in SUBSET {"keys", "param", "policy"},
         NEW a \in SUBSET {"keys", "param", "policy"}, b \cap a = {}
  PROVE  /\ WellFormed(Query(b, <<r>>)) /\ WellFormed(Gated(b, a, <<r>>))
         /\ WellFormed(Merged(b, a, <<r>>))
<1>1. /\ <<r>> \in Seq(RequestSet) /\ Len(<<r>>) = 1
      /\ <<r>>[1] = r
  <2>1. r \in RequestSet BY DEF RequestSet, Kinds
  <2>2. QED BY <2>1
<1>2. r.kind \in {"read", "write"} OBVIOUS
<1> DEFINE rs == <<r>>
<1> HIDE DEF rs
<1>3. WellFormed(Query(b, rs)) BY <1>1, <1>2 DEF WellFormed, Query, Optional, rs
<1>4. WellFormed(Gated(b, a, rs)) BY <1>1, <1>2 DEF WellFormed, Gated, Optional, rs
<1>5. WellFormed(Merged(b, a, rs)) BY <1>1, <1>2 DEF WellFormed, Merged, Optional, rs
<1>6. QED BY <1>3, <1>4, <1>5 DEF rs

LEMMA TwoRequests ==
  ASSUME NEW r \in [kind : {"read", "write"}, can : SUBSET Outcomes],
         NEW q \in [kind : Optional, can : SUBSET Outcomes],
         NEW b \in SUBSET {"keys", "param", "policy"}
  PROVE  WellFormed(Query(b, <<r, q>>))
<1>1. /\ <<r, q>> \in Seq(RequestSet) /\ Len(<<r, q>>) = 2
      /\ <<r, q>>[1] = r /\ <<r, q>>[2] = q
  <2>1. r \in RequestSet /\ q \in RequestSet BY DEF RequestSet, Kinds, Optional
  <2>2. QED BY <2>1
<1>2. r.kind \in {"read", "write"} /\ q.kind \in Optional OBVIOUS
<1> DEFINE rs == <<r, q>>
<1> HIDE DEF rs
<1>3. WellFormed(Query(b, rs)) BY <1>1, <1>2 DEF WellFormed, Query, Optional, rs
<1>4. QED BY <1>3 DEF rs

LEMMA Transports ==
  /\ ha_get \subseteq Outcomes /\ ha_post \subseteq Outcomes /\ ha_delete \subseteq Outcomes
  /\ ha_ws_call \subseteq Outcomes /\ supervisor_get_text \subseteq Outcomes
  /\ supervisor_get_json \subseteq Outcomes /\ supervisor_post_json \subseteq Outcomes
  BY DEF Outcomes, ha_get, ha_post, ha_delete, ha_ws_call, supervisor_get_text,
         supervisor_get_json, supervisor_post_json

LEMMA Makers ==
  ASSUME NEW via \in SUBSET Outcomes
  PROVE  /\ Read(via) \in [kind : {"read", "write"}, can : SUBSET Outcomes]
         /\ ReadText(via) \in [kind : {"read", "write"}, can : SUBSET Outcomes]
         /\ Write(via) \in [kind : {"read", "write"}, can : SUBSET Outcomes]
         /\ WriteShaped(via) \in [kind : {"read", "write"}, can : SUBSET Outcomes]
  BY DEF Read, ReadText, Write, WriteShaped, Outcomes

(* Scripts of one read, and of one write behind the gate.                  *)
LEMMA OneRead ==
  ASSUME NEW via \in SUBSET Outcomes, NEW b \in SUBSET {"keys", "param", "policy"}
  PROVE  /\ WellFormed(Query(b, <<Read(via)>>)) /\ WellFormed(Query(b, <<ReadText(via)>>))
<1>1. {} \in SUBSET {"keys", "param", "policy"} /\ b \cap {} = {} OBVIOUS
<1>2. /\ Read(via) \in [kind : {"read", "write"}, can : SUBSET Outcomes]
      /\ ReadText(via) \in [kind : {"read", "write"}, can : SUBSET Outcomes]
  BY Makers
<1>3. QED BY <1>1, <1>2, OneRequest

LEMMA OneWrite ==
  ASSUME NEW via \in SUBSET Outcomes, NEW b \in SUBSET {"keys", "param", "policy"},
         NEW a \in SUBSET {"keys", "param", "policy"}, b \cap a = {}
  PROVE  WellFormed(Gated(b, a, <<Write(via)>>)) /\ WellFormed(Merged(b, a, <<Write(via)>>))
  BY Makers, OneRequest

LEMMA Queries ==
  /\ WellFormed(handle_ha_list_states) /\ WellFormed(handle_ha_get_state)
  /\ WellFormed(handle_ha_list_areas) /\ WellFormed(handle_ha_list_devices)
  /\ WellFormed(handle_ha_list_services) /\ WellFormed(handle_ha_get_config)
  /\ WellFormed(handle_ha_list_events) /\ WellFormed(handle_ha_list_config_entries)
  /\ WellFormed(handle_ha_core_logs) /\ WellFormed(handle_ha_calendar_get_events)
  /\ WellFormed(handle_ha_list_entity_registry) /\ WellFormed(handle_ha_logbook)
  /\ WellFormed(handle_ha_check_config) /\ WellFormed(handle_ha_addon_logs)
  /\ WellFormed(handle_ha_list_addons) /\ WellFormed(handle_ha_addon_info)
  /\ WellFormed(handle_ha_addon_stats) /\ WellFormed(handle_ha_supervisor_info)
  /\ WellFormed(handle_ha_addon_changelog) /\ WellFormed(handle_ha_addon_documentation)
<1>1. ASSUME NEW b \in SUBSET {"keys", "param", "policy"}
      PROVE  /\ WellFormed(Query(b, <<Read(ha_get)>>)) /\ WellFormed(Query(b, <<Read(ha_post)>>))
             /\ WellFormed(Query(b, <<Read(ha_ws_call)>>))
             /\ WellFormed(Query(b, <<Read(supervisor_get_json)>>))
             /\ WellFormed(Query(b, <<ReadText(supervisor_get_text)>>))
  BY Transports, OneRead
<1>2. {"keys"} \in SUBSET {"keys", "param", "policy"}
      /\ {"keys", "param"} \in SUBSET {"keys", "param", "policy"}
  OBVIOUS
<1>3. QED
  BY <1>1, <1>2
  DEF handle_ha_list_states, handle_ha_get_state, handle_ha_list_areas, handle_ha_list_devices,
      handle_ha_list_services, handle_ha_get_config, handle_ha_list_events,
      handle_ha_list_config_entries, handle_ha_core_logs, handle_ha_calendar_get_events,
      handle_ha_list_entity_registry, handle_ha_logbook, handle_ha_check_config,
      handle_ha_addon_logs, handle_ha_list_addons, handle_ha_addon_info, handle_ha_addon_stats,
      handle_ha_supervisor_info, handle_ha_addon_changelog, handle_ha_addon_documentation

LEMMA LongQueries ==
  /\ WellFormed(handle_ha_history) /\ WellFormed(handle_ha_list_automations)
  /\ WellFormed(handle_ha_call_service) /\ WellFormed(handle_ha_light_turn_on)
  /\ WellFormed(handle_ha_light_turn_off)
<1>1. /\ _missing_entity_ids \in [kind : Optional, can : SUBSET Outcomes]
      /\ trace_list \in [kind : Optional, can : SUBSET Outcomes]
      /\ _fetch_entity_states \in [kind : Optional, can : SUBSET Outcomes]
  BY Transports DEF _missing_entity_ids, trace_list, _fetch_entity_states, Optional, Outcomes
<1>2. /\ Read(ha_get) \in [kind : {"read", "write"}, can : SUBSET Outcomes]
      /\ Write(ha_post) \in [kind : {"read", "write"}, can : SUBSET Outcomes]
      /\ WriteShaped(ha_post) \in [kind : {"read", "write"}, can : SUBSET Outcomes]
  BY Transports, Makers
<1>3. QED
  BY <1>1, <1>2, TwoRequests
  DEF handle_ha_history, handle_ha_list_automations, handle_ha_call_service,
      handle_ha_light_turn_on, handle_ha_light_turn_off

(* A script keeps its form when only the answer to a timeout changes.      *)
LEMMA OtherTimeout ==
  ASSUME NEW rs \in Seq(RequestSet), NEW b \in SUBSET {"keys", "param", "policy"},
         WellFormed(Gated(b, {}, rs))
  PROVE  WellFormed([Gated(b, {}, rs) EXCEPT !.timeout = "OUTCOME_UNKNOWN"])
<1> DEFINE g == Gated(b, {}, rs)
           u == [g EXCEPT !.timeout = "OUTCOME_UNKNOWN"]
<1>1. g.requests = rs /\ g.before = b /\ g.after = {} /\ g.gate \in BOOLEAN BY DEF Gated
<1>2. g \in [before : SUBSET {"keys", "param", "policy"}, gate : BOOLEAN,
             after : SUBSET {"keys", "param", "policy"}, attrs : {FALSE},
             requests : Seq(RequestSet), timeout : {"COMMAND_ERROR"}, desired : {None}]
  BY DEF Gated
<1>3. WellFormed(g) OBVIOUS
<1> HIDE DEF g
<1>4. /\ u.requests = rs /\ u.before = b /\ u.after = {} /\ u.gate \in BOOLEAN
      /\ u.timeout = "OUTCOME_UNKNOWN"
  BY <1>1, <1>2
<1> HIDE DEF u
<1>5. WellFormed(u) BY <1>1, <1>3, <1>4 DEF WellFormed
<1>6. QED BY <1>5 DEF u, g

LEMMA GatedCommands ==
  WellFormed(handle_ha_reload_config) /\ WellFormed(handle_ha_update_install)
<1>1. WellFormed(Gated({"keys", "param"}, {}, <<Write(ha_post)>>)) BY Transports, OneWrite
<1>2. <<Write(ha_post)>> \in Seq(RequestSet)
  <2>1. Write(ha_post) \in RequestSet BY Transports DEF Write, RequestSet, Kinds
  <2>2. QED BY <2>1
<1>3. WellFormed([Gated({"keys", "param"}, {}, <<Write(ha_post)>>)
                     EXCEPT !.timeout = "OUTCOME_UNKNOWN"])
  BY <1>1, <1>2, OtherTimeout
<1>4. QED BY <1>1, <1>3 DEF handle_ha_reload_config, handle_ha_update_install

(* The state is read, the action posted, the state read again.             *)
LEMMA LifecycleScript ==
  ASSUME NEW desired
  PROVE  /\ WellFormed(_handle_addon_lifecycle(desired))
         /\ TellsUnknown(_handle_addon_lifecycle(desired))
<1> DEFINE rs == <<_addon_state("probe"), Write(supervisor_post_json), _addon_state("confirm")>>
           s == _handle_addon_lifecycle(desired)
<1>1. /\ _addon_state("probe") \in RequestSet /\ _addon_state("confirm") \in RequestSet
      /\ Write(supervisor_post_json) \in RequestSet
  BY Transports DEF _addon_state, Write, RequestSet, Kinds
<1>2. /\ rs \in Seq(RequestSet) /\ Len(rs) = 3 /\ rs[1] = _addon_state("probe")
      /\ rs[2] = Write(supervisor_post_json) /\ rs[3] = _addon_state("confirm")
  BY <1>1
<1>3. /\ s.requests = rs /\ s.timeout = "OUTCOME_UNKNOWN" /\ s.gate \in BOOLEAN
      /\ s.before = {"param", "policy", "keys"} /\ s.after = {}
  BY DEF _handle_addon_lifecycle
<1> HIDE DEF rs, s
<1>4. rs[1].kind = "probe" /\ "raise" \notin rs[1].can
  BY <1>2 DEF _addon_state, supervisor_get_json
<1>5. rs[2].kind = "write" /\ "raise" \notin rs[2].can
  BY <1>2 DEF Write, supervisor_post_json
<1>6. rs[3].kind = "confirm" /\ "raise" \notin rs[3].can
  BY <1>2 DEF _addon_state, supervisor_get_json
<1>7. \A n \in 1..3 : n = 1 \/ n = 2 \/ (n = 3 /\ 2 \in 1..(n - 1)) OBVIOUS
<1>8. \A n \in 1..3 :
        /\ rs[n].kind \in {"probe", "write", "confirm"} /\ "raise" \notin rs[n].can
        /\ rs[n].kind = "probe" => n = 1
        /\ rs[n].kind = "confirm" => \E m \in 1..(n - 1) : rs[m].kind = "write"
  BY <1>4, <1>5, <1>6, <1>7
<1>9. WellFormed(s)
  <2>1. \A n \in 1..3 : rs[n].kind \notin Optional BY <1>8 DEF Optional
  <2>2. \A n \in 1..Len(s.requests) :
          /\ s.requests[n].kind \in Optional => n = Len(s.requests)
          /\ s.requests[n].kind = "probe" => n = 1
          /\ s.requests[n].kind = "confirm" => \E m \in 1..(n - 1) : s.requests[m].kind = "write"
    <3> SUFFICES ASSUME NEW n \in 1..3
                 PROVE  /\ rs[n].kind \in Optional => n = 3
                        /\ rs[n].kind = "probe" => n = 1
                        /\ rs[n].kind = "confirm" => \E m \in 1..(n - 1) : rs[m].kind = "write"
      BY <1>2, <1>3
    <3>1. QED BY <1>8, <2>1
  <2>3. s.requests \in Seq(RequestSet) /\ Len(s.requests) \in 1..3 BY <1>2, <1>3
  <2>4. s.before \in SUBSET {"keys", "param", "policy"} BY <1>3
  <2>5. s.after \in SUBSET {"keys", "param", "policy"} /\ s.before \cap s.after = {} BY <1>3
  <2>6. QED BY <1>3, <2>2, <2>3, <2>4, <2>5 DEF WellFormed
<1>10. TellsUnknown(s) BY <1>2, <1>3, <1>8 DEF TellsUnknown
<1>11. QED BY <1>9, <1>10 DEF s

(* The scripts of ha.py, and those of the ha.config.* commands.            *)
LEMMA Registered ==
  \A c \in DOMAIN _REGISTRY : WellFormed(_REGISTRY[c])
<1>1. /\ WellFormed(handle_ha_addon_start) /\ WellFormed(handle_ha_addon_stop)
      /\ WellFormed(handle_ha_addon_restart) /\ WellFormed(handle_ha_addon_update)
  BY LifecycleScript
  DEF handle_ha_addon_start, handle_ha_addon_stop, handle_ha_addon_restart,
      handle_ha_addon_update
<1>2. QED BY <1>1, Queries, LongQueries, GatedCommands DEF _REGISTRY

LEMMA LifecycleCommands ==
  \A c \in Lifecycle : c \in DOMAIN _REGISTRY /\ TellsUnknown(_REGISTRY[c])
<1>1. /\ TellsUnknown(handle_ha_addon_start) /\ TellsUnknown(handle_ha_addon_stop)
      /\ TellsUnknown(handle_ha_addon_restart) /\ TellsUnknown(handle_ha_addon_update)
  BY LifecycleScript
  DEF handle_ha_addon_start, handle_ha_addon_stop, handle_ha_addon_restart,
      handle_ha_addon_update
<1>2. QED BY <1>1 DEF _REGISTRY, Lifecycle

LEMMA ConfigScripts ==
  /\ WellFormed(Query({"keys"}, <<Read(ha_ws_call)>>))
  /\ WellFormed(Query({"keys", "param"}, <<Read(ha_ws_call)>>))
  /\ WellFormed(Query({"keys", "param"}, <<Read(ha_get)>>))
  /\ WellFormed(Gated({"keys"}, {"param"}, <<Write(ha_ws_call)>>))
  /\ WellFormed(Merged({"keys"}, {"param"}, <<Write(ha_ws_call)>>))
  /\ WellFormed(Gated({"keys"}, {"param"}, <<Write(ha_post)>>))
  /\ WellFormed(Gated({"keys"}, {"param"}, <<Write(ha_delete)>>))
<1>1. /\ {"keys"} \in SUBSET {"keys", "param", "policy"}
      /\ {"param"} \in SUBSET {"keys", "param", "policy"}
      /\ {"keys", "param"} \in SUBSET {"keys", "param", "policy"}
      /\ {"keys"} \cap {"param"} = {}
  OBVIOUS
<1>2. QED BY <1>1, Transports, OneRead, OneWrite

LEMMA Configured ==
  /\ \A a \in {"get", "save", "delete"} :
        /\ WellFormed(handle_ha_config_automation(a)) /\ WellFormed(handle_ha_config_script(a))
        /\ WellFormed(handle_ha_config_scene(a))
  /\ \A a \in _ACTIONS["lovelace"] : WellFormed(handle_ha_config_lovelace(a))
  /\ \A a \in {"list", "create", "update", "delete"} :
        /\ WellFormed(handle_ha_config_helpers(a))
        /\ WellFormed(handle_ha_config_area_registry(a))
  /\ \A a \in {"list", "get", "update", "remove"} :
        WellFormed(handle_ha_config_entity_registry(a))
  /\ \A a : /\ WellFormed(handle_ha_config_device_registry(a))
            /\ WellFormed(handle_ha_config_config_entries(a))
<1>1. \A a \in {"get", "save", "delete"} :
        /\ WellFormed(handle_ha_config_automation(a)) /\ WellFormed(handle_ha_config_script(a))
        /\ WellFormed(handle_ha_config_scene(a))
  BY ConfigScripts
  DEF handle_ha_config_automation, handle_ha_config_script, handle_ha_config_scene
<1>2. \A a \in _ACTIONS["lovelace"] : WellFormed(handle_ha_config_lovelace(a))
  <2>1. _ACTIONS["lovelace"] =
            {"get", "save", "dashboards_list", "resources_list", "resources_create"}
    BY DEF _ACTIONS
  <2>2. QED
    BY <2>1, ConfigScripts
    DEF handle_ha_config_lovelace, lovelace_get, lovelace_save, lovelace_list,
        lovelace_resources_create
<1>3. \A a \in {"list", "create", "update", "delete"} :
        /\ WellFormed(handle_ha_config_helpers(a))
        /\ WellFormed(handle_ha_config_area_registry(a))
  BY ConfigScripts
  DEF handle_ha_config_helpers, helpers_list, helpers_write, helpers_delete,
      handle_ha_config_area_registry
<1>4. \A a \in {"list", "get", "update", "remove"} :
        WellFormed(handle_ha_config_entity_registry(a))
  BY ConfigScripts DEF handle_ha_config_entity_registry
<1>5. \A a : /\ WellFormed(handle_ha_config_device_registry(a))
             /\ WellFormed(handle_ha_config_config_entries(a))
  BY ConfigScripts DEF handle_ha_config_device_registry, handle_ha_config_config_entries
<1>6. QED BY <1>1, <1>2, <1>3, <1>4, <1>5

(* Every command has a script of that form.                                *)
LEMMA Scripted ==
  ASSUME NEW k \in Commands
  PROVE  /\ WellFormed(Script(k))
         /\ k[1] \in Lifecycle => TellsUnknown(Script(k))
<1>1. CASE \E c \in DOMAIN _REGISTRY : k = <<c, "">>
  <2>1. PICK c \in DOMAIN _REGISTRY : k = <<c, "">> BY <1>1
  <2>2. k[1] = c /\ k[2] = "" BY <2>1
  <2>3. Script(k) = _REGISTRY[c]
    <3>1. c \notin {"automation", "script", "scene", "helpers", "lovelace", "area_registry",
                    "device_registry", "entity_registry", "config_entries"}
      BY DEF _REGISTRY
    <3>2. QED BY <2>2, <3>1 DEF Script
  <2>4. QED BY <2>2, <2>3, Registered, LifecycleCommands
<1>2. CASE \E c \in DOMAIN _ACTIONS : \E a \in _ACTIONS[c] : k = <<c, a>>
  <2>0. PICK c \in DOMAIN _ACTIONS : \E a \in _ACTIONS[c] : k = <<c, a>> BY <1>2
  <2>1. PICK a \in _ACTIONS[c] : k = <<c, a>> BY <2>0
  <2>2. k[1] = c /\ k[2] = a BY <2>1
  <2>3. c \in {"automation", "script", "scene", "helpers", "lovelace", "area_registry",
               "device_registry", "entity_registry", "config_entries"}
    BY DEF _ACTIONS
  <2>4. /\ c \in {"automation", "script", "scene"} => a \in {"get", "save", "delete"}
        /\ c \in {"helpers", "area_registry"} => a \in {"list", "create", "update", "delete"}
        /\ c = "entity_registry" => a \in {"list", "get", "update", "remove"}
    BY DEF _ACTIONS
  <2>5. a # "" /\ c \notin Lifecycle
    <3>1. a \in {"get", "save", "delete", "list", "create", "update", "dashboards_list",
                 "resources_list", "resources_create", "remove", "disable", "enable"}
      BY DEF _ACTIONS
    <3>2. c \notin Lifecycle BY <2>3 DEF Lifecycle
    <3>3. QED BY <3>1, <3>2
  <2>6. WellFormed(Script(k)) BY <2>2, <2>3, <2>4, <2>5, Configured DEF Script
  <2>7. QED BY <2>2, <2>5, <2>6
<1>3. QED BY <1>1, <1>2 DEF Commands

-----------------------------------------------------------------------------
CallSet ==
    [at : Nat, boot : Nat, param : Params \cup {None}, caller : Callers \cup {None},
     defect : {"keys", "param", "policy", None}, pass : Ids \cup {"exempt", None},
     answer : Answers \cup {None}]
Markers == [exp : Nat, bind : Commands \X Params]

(* The parts of the inductive invariant.                                   *)
Typed ==
    /\ cmd \in [Calls -> Commands]
    /\ call \in [Calls -> CallSet]
    /\ minted \in [Ids -> Markers \cup {None}]
    /\ used \subseteq {id \in Ids : minted[id] # None}
    /\ flying \subseteq Calls /\ done \subseteq Calls
    /\ addon \in {"started", "stopped"}
    /\ now \in 0..MaxNow /\ boots \in 0..MaxBoots
    /\ \A c \in Calls : call[c].at <= Len(S(c).requests)

(* A write is with Home Assistant from the moment the call waits for it,   *)
(* and once the call has moved on it has been carried out.                 *)
Reached(c) == \E n \in 1..call[c].at : S(c).requests[n].kind = "write"
Sent ==
    \A c \in Calls :
        /\ c \in done \cup flying <=> Reached(c)
        /\ \A n \in 1..call[c].at :
              n < call[c].at /\ S(c).requests[n].kind = "write" => c \in done

(* A refusal comes before the first request.                               *)
RefusedFirst == \A c \in Calls : call[c].answer \in Refusals => call[c].at = 0

(* What let a call through is a marker bound to it or an exemption for it. *)
LetThrough ==
    \A c \in Calls :
        /\ S(c).gate /\ call[c].at # 0 => call[c].pass # None
        /\ call[c].pass \in Ids =>
              /\ call[c].defect \notin S(c).before
              /\ minted[call[c].pass] # None
              /\ minted[call[c].pass].bind = <<cmd[c], call[c].param>>
        /\ call[c].pass = "exempt" => approval_exempt(call[c].caller, cmd[c])

(* A marker that let a call through since the node started is remembered   *)
(* as used for as long as it is good.                                      *)
Remembered ==
    \A c \in Calls :
        /\ call[c].boot <= boots
        /\ call[c].pass \in Ids /\ call[c].boot = boots =>
              call[c].pass \in used \/ Expired(call[c].pass)

OncePerRun ==
    \A c \in Calls, d \in Calls :
        c # d /\ call[c].pass \in Ids /\ call[d].pass = call[c].pass =>
            call[d].boot # call[c].boot

IInv ==
    Typed /\ Sent /\ RefusedFirst /\ LetThrough /\ Remembered /\ OncePerRun /\ AnswersTrue
-----------------------------------------------------------------------------
(* The sets of approval_policy.py do not overlap where they must not.      *)
LEMMA DestructiveNeverExempt ==
  ASSUME NEW k, NEW caller, approval_exempt(caller, k)
  PROVE  k \notin DESTRUCTIVE /\ caller.role \in {"admin", "super_admin"} /\ caller.named
<1>1. caller.role \in {"admin", "super_admin"} /\ caller.named
  BY DEF approval_exempt, LIFECYCLE_NO_APPROVAL
<1>2. k \in USER_DIRECTED =>
        k[2] \in {"save", "create", "update", "enable", "resources_create"}
  BY DEF USER_DIRECTED
<1>3. k \in LIFECYCLE_NO_APPROVAL[caller.role] =>
        k[1] \in {"addon_start", "addon_stop", "addon_restart"}
  <2>1. ASSUME NEW none,
               NEW f, f = [admin |-> {<<"addon_start", none>>, <<"addon_restart", none>>},
                           super_admin |-> {<<"addon_start", none>>, <<"addon_stop", none>>,
                                            <<"addon_restart", none>>}]
        PROVE  \A x \in f[caller.role] : x[1] \in {"addon_start", "addon_stop", "addon_restart"}
    BY <1>1, <2>1
  <2>2. QED BY <2>1, Zenon DEF LIFECYCLE_NO_APPROVAL
<1>4. k \in DESTRUCTIVE =>
        /\ k[1] \notin {"addon_start", "addon_stop", "addon_restart"}
        /\ k[2] \in {"delete", "remove", "disable"} \/ k[1] = "update_install"
  <2>1. ASSUME NEW none,
               NEW x \in {<<"automation", "delete">>, <<"script", "delete">>,
                          <<"scene", "delete">>, <<"helpers", "delete">>,
                          <<"area_registry", "delete">>, <<"entity_registry", "remove">>,
                          <<"config_entries", "disable">>, <<"update_install", none>>}
        PROVE  /\ x[1] \notin {"addon_start", "addon_stop", "addon_restart"}
               /\ x[2] \in {"delete", "remove", "disable"} \/ x[1] = "update_install"
    OBVIOUS
  <2>2. QED BY <2>1, Zenon DEF DESTRUCTIVE
<1>5. k \in USER_DIRECTED => k[1] # "update_install"
  BY DEF USER_DIRECTED
<1>6. k \notin DESTRUCTIVE BY <1>2, <1>3, <1>4, <1>5 DEF approval_exempt
<1>7. QED BY <1>1, <1>6

LEMMA InputTypes ==
  ASSUME NEW k \in Commands, NEW in \in Inputs(k)
  PROVE  /\ in.param \in Params \cup {None} /\ in.caller \in Callers \cup {None}
         /\ in.marker \in Ids => minted[in.marker] # None
         /\ in.defect \in {"keys", "param", "policy", None}
<1>1. /\ Script(k).before \in SUBSET {"keys", "param", "policy"}
      /\ Script(k).after \in SUBSET {"keys", "param", "policy"}
  BY Scripted DEF WellFormed
<1>2. /\ in.param \in (IF Script(k).gate THEN Params ELSE {None})
      /\ in.caller \in (IF Script(k).gate THEN Callers ELSE {None})
      /\ in.marker \in (IF Script(k).gate
                        THEN {None, Malformed} \cup {id \in Ids : minted[id] # None}
                        ELSE {None})
      /\ in.defect \in {None} \cup Script(k).before \cup Script(k).after
  BY DEF Inputs
<1>3. QED BY <1>1, <1>2, ConstantAssumption

LEMMA PassFacts ==
  ASSUME NEW k \in Commands, NEW in \in Inputs(k), Typed
  PROVE  /\ Pass(k, in) \in Ids \cup {"exempt", None}
         /\ Pass(k, in) = "exempt" => approval_exempt(in.caller, k)
         /\ Pass(k, in) \in Ids =>
              /\ Pass(k, in) = in.marker /\ minted[Pass(k, in)] # None
              /\ minted[Pass(k, in)].bind = <<k, in.param>>
              /\ Pass(k, in) \notin used /\ Pass(k, in) \in UsedAfter(k, in)
         /\ UsedAfter(k, in) \subseteq {id \in Ids : minted[id] # None}
         /\ \A id \in used : id \in UsedAfter(k, in) \/ Expired(id)
<1>1. in.marker \in Ids => minted[in.marker] # None BY InputTypes
<1>2. None \notin Ids /\ "exempt" \notin Ids /\ None # "exempt" BY ConstantAssumption
<1>3. Pass(k, in) \in Ids \cup {"exempt", None} BY <1>2 DEF Pass
<1>4. Pass(k, in) = "exempt" => approval_exempt(in.caller, k) BY <1>2 DEF Pass
<1>5. Pass(k, in) \in Ids => Pass(k, in) = in.marker /\ Accepts(k, in.param, in.marker)
  BY <1>2 DEF Pass
<1>6. \A id : Accepts(k, in.param, id) => id \notin used BY DEF Accepts, Pruned
<1>7. \A id : Accepts(k, in.param, id) => minted[id].bind = <<k, in.param>>
  BY DEF Accepts, approval_bind
<1>8. in.marker \in Ids /\ Accepts(k, in.param, in.marker) => in.marker \in UsedAfter(k, in)
  BY DEF UsedAfter
<1>9. UsedAfter(k, in) \subseteq {id \in Ids : minted[id] # None}
  BY <1>1 DEF UsedAfter, Pruned, Typed
<1>10. \A id \in used : id \in UsedAfter(k, in) \/ Expired(id) BY DEF UsedAfter, Pruned
<1>11. QED BY <1>1, <1>3, <1>4, <1>5, <1>6, <1>7, <1>8, <1>9, <1>10

(* What is kept of a call that was heard.                                  *)
LEMMA HeardFields ==
  ASSUME Typed, NEW c \in Calls, NEW in \in Inputs(cmd[c]),
         NEW pass \in Ids \cup {"exempt", None}, call[c].at = 0, call[c].answer = None
  PROVE  /\ Heard(c, in, pass) \in CallSet
         /\ Heard(c, in, pass).at = 0 /\ Heard(c, in, pass).answer = None
         /\ Heard(c, in, pass).pass = pass
         /\ Heard(c, in, pass).boot = (IF pass \in Ids THEN boots ELSE 0)
         /\ Heard(c, in, pass).param = (IF pass = None THEN None ELSE in.param)
         /\ Heard(c, in, pass).caller = (IF pass = "exempt" THEN in.caller ELSE None)
         /\ Heard(c, in, pass).defect = (IF pass = None THEN None ELSE in.defect)
<1>1. cmd[c] \in Commands /\ call[c] \in CallSet /\ boots \in Nat BY DEF Typed
<1>2. /\ in.param \in Params \cup {None} /\ in.caller \in Callers \cup {None}
      /\ in.defect \in {"keys", "param", "policy", None}
  BY <1>1, InputTypes
<1> DEFINE h == Heard(c, in, pass)
<1>3. h.at = 0 /\ h.answer = None /\ h.pass = pass BY <1>1 DEF Heard, CallSet
<1>4. h.boot = (IF pass \in Ids THEN boots ELSE 0) BY <1>1 DEF Heard, CallSet
<1>5. h.param = (IF pass = None THEN None ELSE in.param) BY <1>1 DEF Heard, CallSet
<1>6. h.caller = (IF pass = "exempt" THEN in.caller ELSE None) BY <1>1 DEF Heard, CallSet
<1>7. h.defect = (IF pass = None THEN None ELSE in.defect) BY <1>1 DEF Heard, CallSet
<1>8. h \in CallSet
  <2> DEFINE n == IF pass \in Ids THEN boots ELSE 0
             q == IF pass = None THEN None ELSE in.param
             w == IF pass = "exempt" THEN in.caller ELSE None
             d == IF pass = None THEN None ELSE in.defect
  <2>1. /\ n \in Nat /\ q \in Params \cup {None} /\ w \in Callers \cup {None}
        /\ d \in {"keys", "param", "policy", None}
    BY <1>1, <1>2
  <2>2. h = [call[c] EXCEPT !.pass = pass, !.boot = n, !.param = q, !.caller = w, !.defect = d]
    BY Zenon DEF Heard
  <2> HIDE DEF n, q, w, d, h
  <2>3. [call[c] EXCEPT !.pass = pass, !.boot = n, !.param = q, !.caller = w, !.defect = d]
            \in CallSet
    BY <1>1, <2>1 DEF CallSet
  <2>4. QED BY <2>2, <2>3
<1>9. QED BY <1>3, <1>4, <1>5, <1>6, <1>7, <1>8

LEMMA ScriptOf ==
  ASSUME Typed, NEW c \in Calls
  PROVE  /\ WellFormed(S(c)) /\ (cmd[c][1] \in Lifecycle => TellsUnknown(S(c)))
         /\ call[c] \in CallSet /\ call[c].at \in Nat /\ call[c].boot \in Nat
         /\ Len(S(c).requests) \in Nat /\ 1 <= Len(S(c).requests)
<1>1. cmd[c] \in Commands /\ call[c] \in CallSet BY DEF Typed
<1>2. WellFormed(S(c)) /\ (cmd[c][1] \in Lifecycle => TellsUnknown(S(c)))
  BY <1>1, Scripted DEF S
<1>3. call[c].at \in Nat /\ call[c].boot \in Nat BY <1>1 DEF CallSet
<1>4. Len(S(c).requests) \in Nat /\ 1 <= Len(S(c).requests) BY <1>2 DEF WellFormed
<1>5. QED BY <1>1, <1>2, <1>3, <1>4

(* What is kept of a call that is heard with what it was let through by,   *)
(* and the step in which it is heard.                                      *)
Keeps(r, in, pass) ==
    /\ r \in CallSet /\ r.pass = pass
    /\ r.boot = (IF pass \in Ids THEN boots ELSE 0)
    /\ r.param = (IF pass = None THEN None ELSE in.param)
    /\ r.caller = (IF pass = "exempt" THEN in.caller ELSE None)
    /\ r.defect = (IF pass = None THEN None ELSE in.defect)

Hears(c, in, pass, r) ==
    /\ pass \in {None, Pass(cmd[c], in)} /\ Keeps(r, in, pass)
    /\ pass # None => in.defect \notin S(c).before /\ used' = UsedAfter(cmd[c], in)
    /\ S(c).gate /\ r.at # 0 => pass # None
    /\ call' = [call EXCEPT ![c] = r] /\ used' \in {used, UsedAfter(cmd[c], in)}
    /\ UNCHANGED env

LEMMA GateStep ==
  ASSUME IInv, NEW c \in Calls, NEW in \in Inputs(cmd[c]), NEW pass, NEW r,
         Hears(c, in, pass, r)
  PROVE  /\ LetThrough' /\ Remembered' /\ OncePerRun'
         /\ used' \subseteq {id \in Ids : minted'[id] # None}
<1> USE DEF IInv, env, Hears
<1>1. /\ cmd[c] \in Commands /\ call \in [Calls -> CallSet] /\ boots \in Nat
      /\ used \subseteq {id \in Ids : minted[id] # None}
  BY DEF Typed
<1>2. call'[c] = r /\ \A d \in Calls \ {c} : call'[d] = call[d] BY <1>1
<1>3. cmd' = cmd /\ minted' = minted /\ now' = now /\ boots' = boots OBVIOUS
<1>4. \A d : S(d)' = S(d) BY <1>3 DEF S
<1>6. None \notin Ids /\ "exempt" \notin Ids /\ None # "exempt" BY ConstantAssumption
<1>7. /\ pass = "exempt" => approval_exempt(in.caller, cmd[c])
      /\ pass \in Ids =>
            /\ minted[pass] # None /\ minted[pass].bind = <<cmd[c], in.param>>
            /\ pass \notin used /\ pass \in used'
      /\ \A id \in used : id \in used' \/ Expired(id)
      /\ used' \subseteq {id \in Ids : minted[id] # None}
  BY <1>1, <1>6, PassFacts
<1>8. LetThrough'
  <2>1. ASSUME NEW d \in Calls, d # c
        PROVE  /\ (S(d).gate /\ call[d].at # 0 => call[d].pass # None)'
               /\ (call[d].pass \in Ids =>
                      /\ call[d].defect \notin S(d).before
                      /\ minted[call[d].pass] # None
                      /\ minted[call[d].pass].bind = <<cmd[d], call[d].param>>)'
               /\ (call[d].pass = "exempt" => approval_exempt(call[d].caller, cmd[d]))'
    BY <1>2, <1>3, <1>4, <2>1 DEF LetThrough, approval_exempt
  <2>2. S(c)'.gate /\ call'[c].at # 0 => call'[c].pass # None
    BY <1>2, <1>4 DEF Keeps
  <2>3. call'[c].pass \in Ids =>
           /\ call'[c].defect \notin S(c)'.before
           /\ minted'[call'[c].pass] # None
           /\ minted'[call'[c].pass].bind = <<cmd'[c], call'[c].param>>
    BY <1>2, <1>3, <1>4, <1>6, <1>7 DEF Keeps
  <2>4. call'[c].pass = "exempt" => approval_exempt(call'[c].caller, cmd'[c])
    BY <1>2, <1>3, <1>6, <1>7 DEF Keeps
  <2>5. QED BY <2>1, <2>2, <2>3, <2>4 DEF LetThrough
<1>9. Remembered'
  <2>1. ASSUME NEW d \in Calls
        PROVE  /\ (call[d].boot <= boots)'
               /\ (call[d].pass \in Ids /\ call[d].boot = boots =>
                     call[d].pass \in used \/ Expired(call[d].pass))'
    <3>1. CASE d = c BY <3>1, <1>1, <1>2, <1>3, <1>7 DEF Keeps
    <3>2. CASE d # c BY <3>2, <1>2, <1>3, <1>7 DEF Remembered, Expired
    <3>3. QED BY <3>1, <3>2
  <2>2. QED BY <2>1 DEF Remembered
<1>10. OncePerRun'
  <2>1. ASSUME NEW d \in Calls, d # c, pass \in Ids, call[d].pass = pass
        PROVE  call[d].boot # boots
    <3>1. ~Expired(pass)
      <4>1. pass = Pass(cmd[c], in) BY <2>1, <1>6
      <4>2. Pass(cmd[c], in) \in Ids => ~Expired(Pass(cmd[c], in))
        BY <1>6 DEF Pass, Accepts
      <4>3. QED BY <2>1, <4>1, <4>2
    <3>2. QED BY <2>1, <3>1, <1>7 DEF Remembered
  <2>2. QED BY <1>2, <2>1 DEF OncePerRun, Keeps
<1>11. QED BY <1>3, <1>7, <1>8, <1>9, <1>10

(* What an answer says of a call is so.                                    *)
Truthful(c, answer) ==
    /\ answer \in Refusals \cup {"unchanged"} => c \notin done \cup flying
    /\ answer = "ok" /\ Writes(cmd[c]) => c \in done
    /\ answer = "OUTCOME_UNKNOWN" => c \in done \cup flying
    /\ answer = "COMMAND_ERROR" /\ cmd[c][1] \in Lifecycle => c \notin done \cup flying

LEMMA NoAnswer ==
  ASSUME NEW c
  PROVE  /\ Truthful(c, None) /\ None \notin Refusals
  BY ConstantAssumption DEF Truthful, Answers

(* A step of one call that asks nothing of Home Assistant.                 *)
LEMMA CallStep ==
  ASSUME IInv, NEW c \in Calls, NEW r \in CallSet, r.at = call[c].at,
         call' = [call EXCEPT ![c] = r], UNCHANGED <<ha, env>>,
         used' \subseteq {id \in Ids : minted'[id] # None},
         r.answer \in Refusals => r.at = 0, Truthful(c, r.answer)
  PROVE  Typed' /\ Sent' /\ RefusedFirst' /\ AnswersTrue'
<1> USE DEF IInv, env, ha
<1>1. call \in [Calls -> CallSet] BY DEF Typed
<1>2. call'[c] = r /\ \A d \in Calls \ {c} : call'[d] = call[d] BY <1>1
<1>3. /\ cmd' = cmd /\ minted' = minted /\ now' = now /\ boots' = boots
      /\ flying' = flying /\ done' = done /\ addon' = addon
  OBVIOUS
<1>4. \A d : S(d)' = S(d) BY <1>3 DEF S
<1>5. \A d \in Calls : call'[d].at = call[d].at BY <1>2
<1>6. Typed'
  <2>1. call' \in [Calls -> CallSet] BY <1>1
  <2>2. QED BY <1>3, <1>4, <1>5, <2>1 DEF Typed
<1>7. Sent' BY <1>3, <1>4, <1>5 DEF Sent, Reached
<1>8. RefusedFirst' BY <1>2 DEF RefusedFirst
<1>9. AnswersTrue' BY <1>2, <1>3 DEF AnswersTrue, Truthful, Writes
<1>10. QED BY <1>6, <1>7, <1>8, <1>9

(* A request goes out.                                                     *)
LEMMA AdvanceStep ==
  ASSUME IInv, NEW c \in Calls, NEW r \in CallSet, r.at = call[c].at + 1, r.answer = None,
         r.at <= Len(S(c).requests), call' = [call EXCEPT ![c] = r],
         call[c].at # 0 /\ S(c).requests[call[c].at].kind = "write" => c \in done,
         Goes(c, call[c].at + 1), UNCHANGED <<done, addon, env>>,
         used' \subseteq {id \in Ids : minted'[id] # None}
  PROVE  Typed' /\ Sent' /\ RefusedFirst' /\ AnswersTrue'
<1> USE DEF IInv, env
<1>1. call \in [Calls -> CallSet] /\ flying \subseteq Calls BY DEF Typed
<1>2. call'[c] = r /\ \A d \in Calls \ {c} : call'[d] = call[d] BY <1>1
<1>3. /\ cmd' = cmd /\ minted' = minted /\ now' = now /\ boots' = boots
      /\ done' = done /\ addon' = addon
  OBVIOUS
<1>4. \A d : S(d)' = S(d) BY <1>3 DEF S
<1>5. call[c].at \in Nat BY ScriptOf
<1>6. flying' = IF S(c).requests[r.at].kind = "write" THEN flying \cup {c} ELSE flying
  BY DEF Goes
<1>7. Typed'
  <2>1. call' \in [Calls -> CallSet] BY <1>1
  <2>2. flying' \subseteq Calls BY <1>1, <1>6
  <2>3. \A d \in Calls : call'[d].at <= Len(S(d)'.requests) BY <1>2, <1>4 DEF Typed
  <2>4. QED BY <1>3, <2>1, <2>2, <2>3 DEF Typed
<1>8. Sent'
  <2>1. \A n : n \in 1..r.at <=> n \in 1..call[c].at \/ n = r.at BY <1>5
  <2>2. ASSUME NEW d \in Calls, d # c
        PROVE  /\ (d \in done \cup flying)' <=> Reached(d)'
               /\ \A n \in 1..call'[d].at :
                     n < call'[d].at /\ S(d)'.requests[n].kind = "write" => d \in done'
    BY <1>2, <1>3, <1>4, <1>6, <2>2 DEF Sent, Reached
  <2>3. (c \in done \cup flying)' <=> Reached(c)'
    BY <1>2, <1>3, <1>4, <1>6, <2>1 DEF Sent, Reached
  <2>4. ASSUME NEW n \in 1..r.at, n < r.at, S(c).requests[n].kind = "write"
        PROVE  c \in done
    <3>1. n \in 1..call[c].at /\ (n < call[c].at \/ n = call[c].at) BY <2>4, <1>5
    <3>2. QED BY <2>4, <3>1 DEF Sent
  <2>5. QED BY <1>2, <1>3, <1>4, <2>2, <2>3, <2>4 DEF Sent
<1>9. RefusedFirst' BY <1>2, NoAnswer DEF RefusedFirst
<1>10. AnswersTrue'
  <2>1. ASSUME NEW d \in Calls, d # c PROVE Truthful(d, call[d].answer)'
    BY <1>2, <1>3, <1>6, <2>1 DEF AnswersTrue, Truthful, Writes
  <2>2. Truthful(c, call[c].answer)'
    BY <1>2, ConstantAssumption DEF Truthful, Answers
  <2>3. QED BY <2>1, <2>2 DEF AnswersTrue, Truthful
<1>11. QED BY <1>7, <1>8, <1>9, <1>10

(* Nothing changes in what let the calls through.                          *)
LEMMA GateKept ==
  ASSUME IInv, call' \in [Calls -> CallSet], UNCHANGED <<used, env>>,
         \A c \in Calls : /\ call'[c].pass = call[c].pass /\ call'[c].boot = call[c].boot
                          /\ call'[c].param = call[c].param /\ call'[c].caller = call[c].caller
                          /\ call'[c].defect = call[c].defect
                          /\ call[c].at = 0 => call'[c].at = 0
  PROVE  LetThrough' /\ Remembered' /\ OncePerRun'
<1> USE DEF IInv, env
<1>1. cmd' = cmd /\ minted' = minted /\ now' = now /\ boots' = boots /\ used' = used OBVIOUS
<1>2. \A d : S(d)' = S(d) BY <1>1 DEF S
<1>3. LetThrough' BY <1>1, <1>2 DEF LetThrough, approval_exempt
<1>4. Remembered' BY <1>1 DEF Remembered, Expired
<1>5. OncePerRun' BY <1>1 DEF OncePerRun
<1>6. QED BY <1>3, <1>4, <1>5

LEMMA AnswerStep ==
  ASSUME IInv, NEW c \in Calls, NEW code \in Answers \ Refusals, Answered(c, code),
         Truthful(c, code), UNCHANGED <<used, ha, env>>
  PROVE  IInv'
<1> DEFINE r == [call[c] EXCEPT !.answer = code]
<1>1. call \in [Calls -> CallSet] BY DEF IInv, Typed
<1>2. call[c] \in CallSet BY <1>1
<1>3. /\ r \in CallSet /\ r.answer = code /\ r.at = call[c].at /\ r.pass = call[c].pass
      /\ r.boot = call[c].boot /\ r.param = call[c].param /\ r.caller = call[c].caller
      /\ r.defect = call[c].defect
  BY <1>2 DEF CallSet
<1>4. call' = [call EXCEPT ![c] = r] BY DEF Answered
<1> HIDE DEF r
<1>5. used' \subseteq {id \in Ids : minted'[id] # None} BY DEF IInv, Typed, env
<1>6. Typed' /\ Sent' /\ RefusedFirst' /\ AnswersTrue' BY <1>3, <1>4, <1>5, CallStep
<1>7. LetThrough' /\ Remembered' /\ OncePerRun'
  <2>1. call'[c] = r /\ \A d \in Calls \ {c} : call'[d] = call[d] BY <1>1, <1>4
  <2>2. call' \in [Calls -> CallSet] BY <1>1, <1>3, <1>4
  <2>3. QED BY <1>3, <2>1, <2>2, GateKept
<1>8. QED BY <1>6, <1>7 DEF IInv

(* Where a call is when it waits: nothing was posted before the first      *)
(* request or after a probe, and a request that only adds to an answer, or *)
(* that is the last one, has all writes behind it.                         *)
LEMMA Waiting ==
  ASSUME IInv, NEW c \in Calls, call[c].at # 0
  PROVE  /\ call[c].at \in 1..Len(S(c).requests)
         /\ Request(c).kind = "probe" => c \notin done \cup flying
         /\ Request(c).kind \in {"write", "confirm"} => c \in done \cup flying
         /\ Request(c).kind = "extra" /\ Writes(cmd[c]) => c \in done
         /\ Request(c).kind \in Optional => call[c].at = Len(S(c).requests)
<1> DEFINE rs == S(c).requests
           at == call[c].at
<1>1. WellFormed(S(c)) /\ at \in Nat /\ Len(rs) \in Nat BY ScriptOf DEF IInv
<1>2. at \in 1..Len(rs) BY <1>1 DEF IInv, Typed
<1>3. Request(c) = rs[at] BY DEF Request
<1>4. rs \in Seq(RequestSet) /\ DOMAIN rs = 1..Len(rs) BY <1>1 DEF WellFormed
<1>5. \A n \in 1..Len(rs) :
        /\ rs[n].kind \in Optional => n = Len(rs)
        /\ rs[n].kind = "probe" => n = 1
        /\ rs[n].kind = "confirm" => \E m \in 1..(n - 1) : rs[m].kind = "write"
  BY <1>1 DEF WellFormed
<1>6. c \in done \cup flying <=> \E n \in 1..at : rs[n].kind = "write"
  BY DEF IInv, Sent, Reached
<1>7. \A n \in 1..at : n < at /\ rs[n].kind = "write" => c \in done BY DEF IInv, Sent
<1> HIDE DEF rs, at
<1>8. ASSUME rs[at].kind = "probe" PROVE c \notin done \cup flying
  <2>1. at = 1 BY <1>2, <1>5, <1>8
  <2>2. \A n \in 1..at : n = at BY <2>1
  <2>3. QED BY <1>6, <1>8, <2>2
<1>9. ASSUME rs[at].kind \in {"write", "confirm"} PROVE c \in done \cup flying
  <2>1. CASE rs[at].kind = "write" BY <2>1, <1>2, <1>6
  <2>2. CASE rs[at].kind = "confirm"
    <3>1. PICK m \in 1..(at - 1) : rs[m].kind = "write" BY <1>2, <1>5, <2>2
    <3>2. m \in 1..at BY <1>1, <1>2
    <3>3. QED BY <1>6, <3>1, <3>2
  <2>3. QED BY <1>9, <2>1, <2>2
<1>10. ASSUME rs[at].kind = "extra", Writes(cmd[c]) PROVE c \in done
  <2>1. at = Len(rs) BY <1>2, <1>5, <1>10 DEF Optional
  <2>2. PICK n \in DOMAIN rs : rs[n].kind = "write" BY <1>10 DEF Writes, S, rs
  <2>3. n \in 1..at /\ n # at BY <1>4, <1>10, <2>1, <2>2
  <2>4. n < at BY <1>1, <1>2, <2>3
  <2>5. QED BY <1>7, <2>2, <2>3, <2>4
<1>11. rs[at].kind \in Optional => at = Len(rs) BY <1>2, <1>5
<1>12. QED BY <1>2, <1>3, <1>8, <1>9, <1>10, <1>11 DEF at, rs

-----------------------------------------------------------------------------
(* The actions, one by one: first the ones of a call that waits.           *)
LEMMA RepliesOk ==
  ASSUME IInv, NEW c \in Calls, call[c].at # 0,
         Request(c).kind = "write" => c \in done,
         call[c].at < Len(S(c).requests) => S(c).requests[call[c].at + 1].kind \in Optional
  PROVE  Writes(cmd[c]) => c \in done
<1> DEFINE rs == S(c).requests
           at == call[c].at
<1>1. WellFormed(S(c)) /\ at \in Nat /\ Len(rs) \in Nat BY ScriptOf DEF IInv
<1>2. at \in 1..Len(rs) BY Waiting
<1>3. DOMAIN rs = 1..Len(rs) BY <1>1 DEF WellFormed
<1>4. \A n \in 1..Len(rs) : rs[n].kind \in Optional => n = Len(rs) BY <1>1 DEF WellFormed
<1>5. \A n \in 1..at : n < at /\ rs[n].kind = "write" => c \in done BY DEF IInv, Sent
<1>6. rs[at].kind = "write" => c \in done BY DEF Request
<1>7. at < Len(rs) => rs[at + 1].kind \in Optional OBVIOUS
<1> HIDE DEF rs, at
<1> SUFFICES ASSUME Writes(cmd[c]) PROVE c \in done OBVIOUS
<1>8. PICK n \in 1..Len(rs) : rs[n].kind = "write" BY <1>3 DEF Writes, S, rs
<1>9. "write" \notin Optional BY DEF Optional
<1>10. CASE at < Len(rs)
  <2>1. at + 1 \in 1..Len(rs) BY <1>1, <1>2, <1>10
  <2>2. at + 1 = Len(rs) /\ n # at + 1 BY <1>4, <1>7, <1>8, <1>9, <1>10, <2>1
  <2>3. n \in 1..at BY <1>1, <1>2, <1>8, <2>2
  <2>4. n < at \/ n = at BY <1>1, <2>3
  <2>5. QED BY <1>5, <1>6, <1>8, <2>3, <2>4
<1>11. CASE ~(at < Len(rs))
  <2>1. n \in 1..at BY <1>1, <1>2, <1>11
  <2>2. n < at \/ n = at BY <1>1, <2>1
  <2>3. QED BY <1>5, <1>6, <1>8, <2>1, <2>2
<1>12. QED BY <1>10, <1>11

LEMMA ReplyStep ==
  ASSUME IInv, NEW c \in Calls, Reply(c)
  PROVE  IInv'
<1>1. /\ call[c].at # 0 /\ call[c].answer = None /\ (Request(c).kind = "write" => c \in done)
      /\ UNCHANGED <<used, done, addon, env>>
  BY DEF Reply, Waits
<1>2. CASE /\ call[c].at < Len(S(c).requests)
           /\ call' = [call EXCEPT ![c].at = @ + 1]
           /\ Goes(c, call[c].at + 1)
  <2> DEFINE r == [call[c] EXCEPT !.at = @ + 1]
  <2>1. call \in [Calls -> CallSet] /\ call[c].at \in Nat /\ Len(S(c).requests) \in Nat
    BY ScriptOf DEF IInv, Typed
  <2>2. call[c] \in CallSet BY <2>1
  <2>3. /\ r \in CallSet /\ r.answer = None /\ r.at = call[c].at + 1 /\ r.pass = call[c].pass
        /\ r.boot = call[c].boot /\ r.param = call[c].param /\ r.caller = call[c].caller
        /\ r.defect = call[c].defect
    BY <1>1, <2>2 DEF CallSet
  <2>4. call' = [call EXCEPT ![c] = r] BY <1>2
  <2> HIDE DEF r
  <2>5. used' \subseteq {id \in Ids : minted'[id] # None} BY <1>1 DEF IInv, Typed, env
  <2>6. r.at <= Len(S(c).requests) BY <1>2, <2>1, <2>3
  <2>7. S(c).requests[call[c].at].kind = "write" => c \in done BY <1>1 DEF Request
  <2>8. Typed' /\ Sent' /\ RefusedFirst' /\ AnswersTrue'
    BY <1>1, <1>2, <2>3, <2>4, <2>5, <2>6, <2>7, AdvanceStep
  <2>9. LetThrough' /\ Remembered' /\ OncePerRun'
    <3>1. call'[c] = r /\ \A d \in Calls \ {c} : call'[d] = call[d] BY <2>1, <2>4
    <3>2. call' \in [Calls -> CallSet] BY <2>1, <2>3, <2>4
    <3>3. QED BY <1>1, <2>3, <3>1, <3>2, GateKept
  <2>10. QED BY <2>8, <2>9 DEF IInv
<1>3. CASE /\ call[c].at < Len(S(c).requests) =>
                  S(c).requests[call[c].at + 1].kind \in Optional
           /\ Answered(c, "ok") /\ UNCHANGED flying
  <2>1. Writes(cmd[c]) => c \in done BY <1>1, <1>3, RepliesOk
  <2>2. "ok" \in Answers \ Refusals BY DEF Answers, Refusals
  <2>3. Truthful(c, "ok") BY <2>1 DEF Truthful, Refusals
  <2>4. UNCHANGED <<used, ha, env>> BY <1>1, <1>3 DEF ha
  <2>5. QED BY <1>3, <2>2, <2>3, <2>4, AnswerStep
<1>4. QED BY <1>2, <1>3 DEF Reply

(* The other ends of a request.                                            *)
LEMMA OutcomeStep ==
  ASSUME IInv, NEW c \in Calls,
         Already(c) \/ BadShape(c) \/ NotFound(c) \/ Error(c) \/ TimesOut(c) \/ Raises(c)
  PROVE  IInv'
<1>1. /\ call[c].at # 0 /\ UNCHANGED <<used, ha, env>>
  BY DEF Already, BadShape, NotFound, Error, TimesOut, Raises, Waits
<1>2. /\ {"ok", "unchanged", "HA_BAD_RESPONSE", "HA_NOT_FOUND", "HA_ERROR", "COMMAND_ERROR",
          "OUTCOME_UNKNOWN"} \subseteq Answers \ Refusals
  BY DEF Answers, Refusals
<1>3. CASE Already(c)
  <2>1. Request(c).kind = "probe" /\ Answered(c, "unchanged") BY <1>3 DEF Already
  <2>2. Truthful(c, "unchanged") BY <1>1, <2>1, Waiting DEF Truthful, Refusals
  <2>3. QED BY <1>1, <1>2, <2>1, <2>2, AnswerStep
<1>4. CASE BadShape(c)
  <2>1. Answered(c, "HA_BAD_RESPONSE") BY <1>4 DEF BadShape
  <2>2. Truthful(c, "HA_BAD_RESPONSE") BY DEF Truthful, Refusals
  <2>3. QED BY <1>1, <1>2, <2>1, <2>2, AnswerStep
<1>5. CASE NotFound(c)
  <2>1. Answered(c, "HA_NOT_FOUND") BY <1>5 DEF NotFound
  <2>2. Truthful(c, "HA_NOT_FOUND") BY DEF Truthful, Refusals
  <2>3. QED BY <1>1, <1>2, <2>1, <2>2, AnswerStep
<1>6. CASE Error(c)
  <2>1. CASE Request(c).kind = "extra"
    <3>1. Answered(c, "ok") BY <1>6, <2>1 DEF Error
    <3>2. Truthful(c, "ok") BY <1>1, <2>1, Waiting DEF Truthful, Refusals
    <3>3. QED BY <1>1, <1>2, <3>1, <3>2, AnswerStep
  <2>2. CASE Request(c).kind # "extra"
    <3>1. Answered(c, "HA_ERROR") BY <1>6, <2>2 DEF Error
    <3>2. Truthful(c, "HA_ERROR") BY DEF Truthful, Refusals
    <3>3. QED BY <1>1, <1>2, <3>1, <3>2, AnswerStep
  <2>3. QED BY <2>1, <2>2
<1>7. /\ WellFormed(S(c)) /\ (cmd[c][1] \in Lifecycle => TellsUnknown(S(c)))
      /\ call[c].at \in 1..Len(S(c).requests)
  BY <1>1, ScriptOf, Waiting DEF IInv
<1>8. CASE TimesOut(c)
  <2>1. CASE Request(c).kind \in {"write", "confirm"}
    <3>1. Answered(c, S(c).timeout) BY <1>8, <2>1 DEF TimesOut
    <3>2. S(c).timeout \in {"COMMAND_ERROR", "OUTCOME_UNKNOWN"} BY <1>7 DEF WellFormed
    <3>3. c \in done \cup flying BY <1>1, <2>1, Waiting
    <3>4. S(c).timeout = "COMMAND_ERROR" => cmd[c][1] \notin Lifecycle
      BY <1>7 DEF TellsUnknown
    <3>5. Truthful(c, S(c).timeout) BY <3>2, <3>3, <3>4 DEF Truthful, Refusals
    <3>6. QED BY <1>1, <1>2, <3>1, <3>2, <3>5, AnswerStep
  <2>2. CASE Request(c).kind \notin {"write", "confirm"}
    <3>1. Answered(c, "COMMAND_ERROR") BY <1>8, <2>2 DEF TimesOut
    <3>2. cmd[c][1] \in Lifecycle => Request(c).kind = "probe"
      BY <1>7, <2>2 DEF TellsUnknown, Request
    <3>3. Truthful(c, "COMMAND_ERROR") BY <1>1, <3>2, Waiting DEF Truthful, Refusals
    <3>4. QED BY <1>1, <1>2, <3>1, <3>3, AnswerStep
  <2>3. QED BY <2>1, <2>2
<1>9. CASE Raises(c)
  <2>1. Answered(c, "COMMAND_ERROR") /\ "raise" \in Request(c).can BY <1>9 DEF Raises, Waits
  <2>2. cmd[c][1] \notin Lifecycle BY <1>7, <2>1 DEF TellsUnknown, Request
  <2>3. Truthful(c, "COMMAND_ERROR") BY <2>2 DEF Truthful, Refusals
  <2>4. QED BY <1>1, <1>2, <2>1, <2>3, AnswerStep
<1>10. QED BY <1>3, <1>4, <1>5, <1>6, <1>8, <1>9

(* The two ways a call is heard.                                           *)
Refused(c, in, pass, code) == [Heard(c, in, pass) EXCEPT !.answer = code]
Begun(c, in, pass) == [Heard(c, in, pass) EXCEPT !.at = 1]

LEMMA HeardRecords ==
  ASSUME Typed, NEW c \in Calls, NEW in \in Inputs(cmd[c]), NEW code \in Answers,
         NEW pass \in Ids \cup {"exempt", None}, call[c].at = 0, call[c].answer = None
  PROVE  /\ Keeps(Refused(c, in, pass, code), in, pass)
         /\ Refused(c, in, pass, code).at = 0 /\ Refused(c, in, pass, code).answer = code
         /\ Keeps(Begun(c, in, pass), in, pass)
         /\ Begun(c, in, pass).at = 1 /\ Begun(c, in, pass).answer = None
<1> DEFINE h == Heard(c, in, pass)
           r == Refused(c, in, pass, code)
           b == Begun(c, in, pass)
<1>1. /\ h \in CallSet /\ h.at = 0 /\ h.answer = None /\ h.pass = pass
      /\ h.boot = (IF pass \in Ids THEN boots ELSE 0)
      /\ h.param = (IF pass = None THEN None ELSE in.param)
      /\ h.caller = (IF pass = "exempt" THEN in.caller ELSE None)
      /\ h.defect = (IF pass = None THEN None ELSE in.defect)
  BY HeardFields
<1> HIDE DEF h
<1>2. /\ r \in CallSet /\ r.at = h.at /\ r.answer = code /\ r.pass = h.pass
      /\ r.boot = h.boot /\ r.param = h.param /\ r.caller = h.caller /\ r.defect = h.defect
  <2>1. r = [h EXCEPT !.answer = code] BY DEF Refused, h
  <2>2. QED BY <1>1, <2>1 DEF CallSet
<1>3. /\ b \in CallSet /\ b.at = 1 /\ b.answer = h.answer /\ b.pass = h.pass
      /\ b.boot = h.boot /\ b.param = h.param /\ b.caller = h.caller /\ b.defect = h.defect
  <2>1. b = [h EXCEPT !.at = 1] BY DEF Begun, h
  <2>2. QED BY <1>1, <2>1 DEF CallSet
<1>4. Keeps(r, in, pass) BY <1>1, <1>2 DEF Keeps
<1>5. Keeps(b, in, pass) BY <1>1, <1>3 DEF Keeps
<1>6. QED BY <1>1, <1>2, <1>3, <1>4, <1>5

(* A call that has asked for nothing has changed nothing.                  *)
LEMMA NotSent ==
  ASSUME IInv, NEW c \in Calls, call[c].at = 0
  PROVE  c \notin done \cup flying
<1>1. \A n : n \notin 1..call[c].at OBVIOUS
<1>2. QED BY <1>1 DEF IInv, Sent, Reached

LEMMA RefusedCall ==
  ASSUME IInv, NEW c \in Calls, NEW in \in Inputs(cmd[c]), NEW pass, NEW r,
         call[c].at = 0, pass \in {None, Pass(cmd[c], in)}, Keeps(r, in, pass),
         r.at = 0, r.answer \in Refusals,
         pass # None => in.defect \notin S(c).before /\ used' = UsedAfter(cmd[c], in),
         call' = [call EXCEPT ![c] = r],
         used' \in {used, UsedAfter(cmd[c], in)}, UNCHANGED <<ha, env>>
  PROVE  IInv'
<1>1. /\ LetThrough' /\ Remembered' /\ OncePerRun'
      /\ used' \subseteq {id \in Ids : minted'[id] # None}
  <2>1. Hears(c, in, pass, r) BY DEF Hears
  <2>2. QED BY <2>1, GateStep
<1>2. Truthful(c, r.answer)
  <2>1. r.answer \in {"INVALID_PARAM", "DENIED", "PROPOSAL_REQUIRED", "APPROVAL_INVALID"}
    BY DEF Refusals
  <2>2. QED BY <2>1, NotSent DEF Truthful
<1>3. Typed' /\ Sent' /\ RefusedFirst' /\ AnswersTrue'
  <2>1. r \in CallSet BY DEF Keeps
  <2>2. QED BY <1>1, <1>2, <2>1, CallStep
<1>4. QED BY <1>1, <1>3 DEF IInv

LEMMA RefusalStep ==
  ASSUME IInv, NEW c \in Calls, NEW in \in Inputs(cmd[c]), NEW pass, NEW code \in Refusals,
         call[c].at = 0, call[c].answer = None, pass \in {None, Pass(cmd[c], in)},
         pass # None => in.defect \notin S(c).before /\ used' = UsedAfter(cmd[c], in),
         call' = [call EXCEPT ![c] = [Heard(c, in, pass) EXCEPT !.answer = code]],
         used' \in {used, UsedAfter(cmd[c], in)}, UNCHANGED <<ha, env>>
  PROVE  IInv'
<1>1. Typed /\ cmd[c] \in Commands BY DEF IInv, Typed
<1>2. pass \in Ids \cup {"exempt", None} BY <1>1, PassFacts
<1>3. code \in Answers BY DEF Answers
<1>4. PICK r : r = Refused(c, in, pass, code) OBVIOUS
<1>5. Keeps(r, in, pass) /\ r.at = 0 /\ r.answer = code
  BY <1>1, <1>2, <1>3, <1>4, HeardRecords
<1>6. call' = [call EXCEPT ![c] = r] BY <1>4 DEF Refused
<1>7. QED BY <1>5, <1>6, RefusedCall

LEMMA RefuseStep ==
  ASSUME IInv, NEW c \in Calls, RefuseInput(c) \/ RefuseUnapproved(c) \/ RefuseLate(c)
  PROVE  IInv'
<1>1. \A d : Code(d) \in Refusals BY DEF Code, Refusals
<1>2. CASE RefuseInput(c)
  <2>1. PICK in \in Inputs(cmd[c]) :
            call' = [call EXCEPT ![c] = [Heard(c, in, None) EXCEPT !.answer = Code(in.defect)]]
    BY <1>2 DEF RefuseInput
  <2>2. call[c].at = 0 /\ call[c].answer = None /\ used' = used /\ UNCHANGED <<ha, env>>
    BY <1>2 DEF RefuseInput
  <2>3. QED BY <1>1, <2>1, <2>2, RefusalStep
<1>3. CASE RefuseUnapproved(c)
  <2>1. PICK in \in Inputs(cmd[c]) :
            /\ used' = UsedAfter(cmd[c], in)
            /\ call' = [call EXCEPT ![c] =
                           [Heard(c, in, None) EXCEPT
                               !.answer = IF in.marker = None THEN "PROPOSAL_REQUIRED"
                                          ELSE "APPROVAL_INVALID"]]
    BY <1>3 DEF RefuseUnapproved
  <2>2. call[c].at = 0 /\ call[c].answer = None /\ UNCHANGED <<ha, env>>
    BY <1>3 DEF RefuseUnapproved
  <2>3. (IF in.marker = None THEN "PROPOSAL_REQUIRED" ELSE "APPROVAL_INVALID") \in Refusals
    BY DEF Refusals
  <2>4. QED BY <2>1, <2>2, <2>3, RefusalStep
<1>4. CASE RefuseLate(c)
  <2>1. PICK in \in Inputs(cmd[c]) :
            /\ in.defect \in S(c).after
            /\ used' = UsedAfter(cmd[c], in)
            /\ call' = [call EXCEPT ![c] =
                    [Heard(c, in, Pass(cmd[c], in)) EXCEPT !.answer = Code(in.defect)]]
    BY <1>4 DEF RefuseLate
  <2>2. call[c].at = 0 /\ call[c].answer = None /\ UNCHANGED <<ha, env>>
    BY <1>4 DEF RefuseLate
  <2>3. in.defect \notin S(c).before BY <2>1, ScriptOf DEF IInv, WellFormed
  <2>4. QED BY <1>1, <2>1, <2>2, <2>3, RefusalStep
<1>5. QED BY <1>2, <1>3, <1>4

LEMMA BegunCall ==
  ASSUME IInv, NEW c \in Calls, NEW in \in Inputs(cmd[c]), NEW pass, NEW r,
         call[c].at = 0, in.defect = None, pass \in {None, Pass(cmd[c], in)},
         Keeps(r, in, pass), r.at = 1, r.answer = None, S(c).gate => pass # None,
         pass # None => used' = UsedAfter(cmd[c], in),
         call' = [call EXCEPT ![c] = r], used' \in {used, UsedAfter(cmd[c], in)},
         Goes(c, 1), UNCHANGED <<done, addon, env>>
  PROVE  IInv'
<1>1. Typed BY DEF IInv
<1>2. WellFormed(S(c)) BY <1>1, ScriptOf
<1>3. in.defect \notin S(c).before
  <2>1. None \notin {"keys", "param", "policy"} BY ConstantAssumption
  <2>2. S(c).before \in SUBSET {"keys", "param", "policy"} BY <1>2 DEF WellFormed
  <2>3. QED BY <2>1, <2>2
<1>4. /\ LetThrough' /\ Remembered' /\ OncePerRun'
      /\ used' \subseteq {id \in Ids : minted'[id] # None}
  <2>1. pass # None => in.defect \notin S(c).before /\ used' = UsedAfter(cmd[c], in) BY <1>3
  <2>2. S(c).gate /\ r.at # 0 => pass # None BY Zenon
  <2>3. UNCHANGED env OBVIOUS
  <2>4. Hears(c, in, pass, r) BY <2>1, <2>2, <2>3, Zenon DEF Hears
  <2>5. QED BY <2>4, GateStep
<1>5. r.at <= Len(S(c).requests)
  <2>1. 1 <= Len(S(c).requests) BY <1>1, ScriptOf
  <2>2. QED BY <2>1, Zenon
<1>6. r.at = call[c].at + 1 /\ Goes(c, call[c].at + 1) OBVIOUS
<1>7. Typed' /\ Sent' /\ RefusedFirst' /\ AnswersTrue'
  <2>1. r \in CallSet BY DEF Keeps
  <2>2. QED BY <1>4, <1>5, <1>6, <2>1, AdvanceStep
<1>8. QED BY <1>4, <1>7 DEF IInv

LEMMA BeginStep ==
  ASSUME IInv, NEW c \in Calls, Begin(c)
  PROVE  IInv'
<1>1. PICK in \in Inputs(cmd[c]) :
        /\ in.defect = None
        /\ S(c).gate => Pass(cmd[c], in) # None
        /\ used' = IF S(c).gate THEN UsedAfter(cmd[c], in) ELSE used
        /\ call' = [call EXCEPT ![c] =
                       [Heard(c, in, IF S(c).gate THEN Pass(cmd[c], in) ELSE None)
                            EXCEPT !.at = 1]]
  BY DEF Begin
<1>2. /\ call[c].at = 0 /\ call[c].answer = None /\ Goes(c, 1)
      /\ UNCHANGED <<done, addon, env>>
  BY DEF Begin
<1>3. Typed /\ cmd[c] \in Commands BY DEF IInv, Typed
<1>4. PICK pass : pass = IF S(c).gate THEN Pass(cmd[c], in) ELSE None OBVIOUS
<1>5. /\ pass \in {None, Pass(cmd[c], in)}
      /\ S(c).gate => pass # None
      /\ pass # None => used' = UsedAfter(cmd[c], in)
      /\ used' \in {used, UsedAfter(cmd[c], in)}
  BY <1>1, <1>4
<1>6. pass \in Ids \cup {"exempt", None} BY <1>3, <1>5, PassFacts
<1>7. PICK r : r = Begun(c, in, pass) OBVIOUS
<1>8. call' = [call EXCEPT ![c] = r] BY <1>1, <1>4, <1>7 DEF Begun
<1>9. Keeps(r, in, pass) /\ r.at = 1 /\ r.answer = None
  <2>1. "ok" \in Answers BY DEF Answers
  <2>2. QED BY <1>2, <1>3, <1>6, <1>7, <2>1, HeardRecords
<1>10. QED BY <1>1, <1>2, <1>5, <1>8, <1>9, BegunCall

-----------------------------------------------------------------------------
(* Home Assistant, the plugin, the clock and the restarts.                 *)
LEMMA CarriesOutStep ==
  ASSUME IInv, NEW c \in Calls, CarriesOut(c)
  PROVE  IInv'
<1> USE DEF IInv
<1>1. /\ flying' = flying \ {c} /\ done' = done \cup {c} /\ c \in flying
      /\ call' = call /\ used' = used /\ UNCHANGED env
  BY DEF CarriesOut
<1>2. cmd' = cmd /\ minted' = minted /\ now' = now /\ boots' = boots BY <1>1 DEF env
<1>3. addon' \in {"started", "stopped"}
  <2>1. addon' = CASE cmd[c][1] = "addon_stop" -> "stopped"
                   [] cmd[c][1] \in Lifecycle \ {"addon_stop"} -> "started"
                   [] OTHER -> addon
    BY DEF CarriesOut
  <2>2. addon \in {"started", "stopped"} BY DEF Typed
  <2>3. QED BY <2>1, <2>2
<1>4. \A d : S(d)' = S(d) BY <1>2 DEF S
<1>5. \A d : d \in done' \cup flying' <=> d \in done \cup flying BY <1>1
<1>6. done \subseteq done' BY <1>1
<1>7. Typed' BY <1>1, <1>2, <1>3, <1>4 DEF Typed
<1>8. Sent' BY <1>1, <1>4, <1>5, <1>6 DEF Sent, Reached
<1>9. RefusedFirst' BY <1>1 DEF RefusedFirst
<1>10. AnswersTrue' BY <1>1, <1>2, <1>5, <1>6 DEF AnswersTrue, Writes
<1>11. LetThrough' BY <1>1, <1>2, <1>4 DEF LetThrough, approval_exempt
<1>12. Remembered' BY <1>1, <1>2 DEF Remembered, Expired
<1>13. OncePerRun' BY <1>1 DEF OncePerRun
<1>14. QED BY <1>7, <1>8, <1>9, <1>10, <1>11, <1>12, <1>13

LEMMA AddonStep ==
  ASSUME IInv, AddonChanges
  PROVE  IInv'
<1> USE DEF IInv
<1>1. /\ flying' = flying /\ done' = done /\ call' = call /\ used' = used /\ UNCHANGED env
      /\ addon' \in {"started", "stopped"}
  BY DEF AddonChanges
<1>2. cmd' = cmd /\ minted' = minted /\ now' = now /\ boots' = boots BY <1>1 DEF env
<1>3. \A d : S(d)' = S(d) BY <1>2 DEF S
<1>4. Typed' BY <1>1, <1>2, <1>3 DEF Typed
<1>5. Sent' /\ RefusedFirst' BY <1>1, <1>3 DEF Sent, Reached, RefusedFirst
<1>6. AnswersTrue' BY <1>1, <1>2 DEF AnswersTrue, Writes
<1>7. LetThrough' BY <1>1, <1>2, <1>3 DEF LetThrough, approval_exempt
<1>8. Remembered' /\ OncePerRun' BY <1>1, <1>2 DEF Remembered, Expired, OncePerRun
<1>9. QED BY <1>4, <1>5, <1>6, <1>7, <1>8

LEMMA MintStep ==
  ASSUME IInv, NEW id \in Ids, Mint(id)
  PROVE  IInv'
<1> USE DEF IInv
<1>1. PICK c \in Calls, p \in Params :
        minted' = [minted EXCEPT ![id] = [exp |-> now + TTL, bind |-> <<cmd[c], p>>]]
  BY DEF Mint
<1>2. /\ minted[id] = None /\ call' = call /\ used' = used /\ cmd' = cmd /\ now' = now
      /\ boots' = boots /\ flying' = flying /\ done' = done /\ addon' = addon
  BY DEF Mint, ha
<1>3. \A d : S(d)' = S(d) BY <1>2 DEF S
<1>4. minted \in [Ids -> Markers \cup {None}] /\ now \in Nat /\ cmd[c] \in Commands
  BY DEF Typed
<1>5. [exp |-> now + TTL, bind |-> <<cmd[c], p>>] \in Markers
  <2>1. now + TTL \in Nat BY <1>4, ConstantAssumption
  <2>2. <<cmd[c], p>> \in Commands \X Params BY <1>4
  <2>3. QED BY <2>1, <2>2 DEF Markers
<1>6. minted' \in [Ids -> Markers \cup {None}] BY <1>1, <1>4, <1>5
<1>7. \A x \in Ids : minted[x] # None => minted'[x] = minted[x] BY <1>1, <1>2, <1>4
<1>8. Typed'
  <2>1. used' \subseteq {x \in Ids : minted'[x] # None} BY <1>2, <1>7 DEF Typed
  <2>2. QED BY <1>2, <1>3, <1>6, <2>1 DEF Typed
<1>9. Sent' /\ RefusedFirst' BY <1>2, <1>3 DEF Sent, Reached, RefusedFirst
<1>10. AnswersTrue' BY <1>2 DEF AnswersTrue, Writes
<1>11. \A d \in Calls : call[d].pass \in Ids => minted'[call[d].pass] = minted[call[d].pass]
  BY <1>7 DEF LetThrough
<1>12. LetThrough' BY <1>2, <1>3, <1>11 DEF LetThrough, approval_exempt
<1>13. Remembered' BY <1>2, <1>11 DEF Remembered, Expired
<1>14. OncePerRun' BY <1>2 DEF OncePerRun
<1>15. QED BY <1>8, <1>9, <1>10, <1>12, <1>13, <1>14

LEMMA TickStep ==
  ASSUME IInv, Tick
  PROVE  IInv'
<1> USE DEF IInv
<1>1. /\ now < MaxNow /\ now' = now + 1 /\ call' = call /\ used' = used /\ cmd' = cmd
      /\ minted' = minted /\ boots' = boots /\ flying' = flying /\ done' = done
      /\ addon' = addon
  BY DEF Tick, ha
<1>2. \A d : S(d)' = S(d) BY <1>1 DEF S
<1>3. minted \in [Ids -> Markers \cup {None}] /\ now \in Nat BY DEF Typed
<1>4. now' \in 0..MaxNow BY <1>1, <1>3, ConstantAssumption
<1>5. Typed' BY <1>1, <1>2, <1>4 DEF Typed
<1>6. Sent' /\ RefusedFirst' BY <1>1, <1>2 DEF Sent, Reached, RefusedFirst
<1>7. AnswersTrue' BY <1>1 DEF AnswersTrue, Writes
<1>8. LetThrough' BY <1>1, <1>2 DEF LetThrough, approval_exempt
<1>9. \A id \in Ids : minted[id] # None /\ minted[id].exp < now => minted[id].exp < now'
  <2>1. ASSUME NEW id \in Ids, minted[id] # None PROVE minted[id].exp \in Nat
    BY <1>3, <2>1 DEF Markers
  <2>2. QED BY <1>1, <1>3, <2>1
<1>10. Remembered'
  <2>1. \A d \in Calls : call[d].pass \in Ids => minted[call[d].pass] # None
    BY DEF LetThrough
  <2>2. QED BY <1>1, <1>9, <2>1 DEF Remembered, Expired
<1>11. OncePerRun' BY <1>1 DEF OncePerRun
<1>12. QED BY <1>5, <1>6, <1>7, <1>8, <1>10, <1>11

LEMMA RestartStep ==
  ASSUME IInv, Restart
  PROVE  IInv'
<1> USE DEF IInv
<1>1. /\ boots < MaxBoots /\ boots' = boots + 1 /\ used' = {} /\ now' = now /\ cmd' = cmd
      /\ minted' = minted /\ flying' = flying /\ done' = done /\ addon' = addon
  BY DEF Restart, ha
<1>2. \A d : S(d)' = S(d) BY <1>1 DEF S
<1>3. call \in [Calls -> CallSet] /\ boots \in Nat BY DEF Typed
<1>4. ASSUME NEW d \in Calls
      PROVE  /\ call'[d] \in CallSet /\ call'[d].at = call[d].at
             /\ call'[d].pass = call[d].pass /\ call'[d].boot = call[d].boot
             /\ call'[d].param = call[d].param /\ call'[d].caller = call[d].caller
             /\ call'[d].defect = call[d].defect
             /\ call'[d].answer = "lost" \/ call'[d].answer = call[d].answer
  <2>1. call'[d] = IF call[d].at # 0 /\ call[d].answer = None
                   THEN [call[d] EXCEPT !.answer = "lost"] ELSE call[d]
    BY DEF Restart
  <2>2. call[d] \in CallSet BY <1>3
  <2>3. "lost" \in Answers BY DEF Answers
  <2>4. CASE call[d].at # 0 /\ call[d].answer = None
    <3>1. call'[d] = [call[d] EXCEPT !.answer = "lost"] BY <2>1, <2>4
    <3>2. QED BY <2>2, <2>3, <3>1 DEF CallSet
  <2>5. CASE ~(call[d].at # 0 /\ call[d].answer = None)
    <3>1. call'[d] = call[d] BY <2>1, <2>5
    <3>2. QED BY <2>2, <3>1
  <2>6. QED BY <2>4, <2>5
<1>5. call' \in [Calls -> CallSet]
  <2>1. call' = [d \in Calls |-> call'[d]] BY DEF Restart
  <2>2. QED BY <1>4, <2>1
<1>6. Typed'
  <2>1. boots' \in 0..MaxBoots BY <1>1, <1>3, ConstantAssumption
  <2>2. \A d \in Calls : call'[d].at <= Len(S(d)'.requests) BY <1>2, <1>4 DEF Typed
  <2>3. QED BY <1>1, <1>5, <2>1, <2>2 DEF Typed
<1>7. Sent' BY <1>1, <1>2, <1>4 DEF Sent, Reached
<1>8. RefusedFirst' BY <1>4 DEF RefusedFirst, Refusals
<1>9. AnswersTrue' BY <1>1, <1>4 DEF AnswersTrue, Writes, Refusals
<1>10. LetThrough' BY <1>1, <1>2, <1>4 DEF LetThrough, approval_exempt
<1>11. Remembered'
  <2>1. \A d \in Calls : call'[d].boot \in Nat /\ call'[d].boot <= boots
    BY <1>3, <1>4 DEF Remembered, CallSet
  <2>2. QED BY <1>1, <1>3, <2>1 DEF Remembered
<1>12. OncePerRun' BY <1>4 DEF OncePerRun
<1>13. QED BY <1>6, <1>7, <1>8, <1>9, <1>10, <1>11, <1>12

-----------------------------------------------------------------------------
LEMMA InitInvariant == Init => IInv
<1> SUFFICES ASSUME Init PROVE IInv OBVIOUS
<1>1. /\ cmd \in [Calls -> Commands] /\ call = [c \in Calls |-> NewCall]
      /\ minted = [id \in Ids |-> None] /\ used = {} /\ now = 0 /\ boots = 0
      /\ flying = {} /\ done = {} /\ addon \in {"started", "stopped"}
  BY ConstantAssumption DEF Init
<1>2. NewCall \in CallSet BY DEF NewCall, CallSet
<1>3. \A c \in Calls : /\ call[c].at = 0 /\ call[c].boot = 0
                       /\ call[c].pass = None /\ call[c].answer = None
  BY <1>1 DEF NewCall
<1>4. None \notin Ids /\ None # "exempt" /\ None \notin Answers BY ConstantAssumption
<1>5. Typed
  <2>1. ASSUME NEW c \in Calls PROVE call[c].at <= Len(S(c).requests)
    <3>1. cmd[c] \in Commands BY <1>1
    <3>2. WellFormed(S(c)) BY <3>1, Scripted DEF S
    <3>3. Len(S(c).requests) \in Nat BY <3>2 DEF WellFormed
    <3>4. QED BY <1>3, <3>3
  <2>2. call \in [Calls -> CallSet] BY <1>1, <1>2
  <2>3. now \in 0..MaxNow /\ boots \in 0..MaxBoots BY <1>1, ConstantAssumption
  <2>4. minted \in [Ids -> Markers \cup {None}] BY <1>1
  <2>5. QED BY <1>1, <2>1, <2>2, <2>3, <2>4 DEF Typed
<1>6. Sent
  <2>1. \A n : n \notin 1..0 OBVIOUS
  <2>2. QED BY <1>1, <1>3, <2>1 DEF Sent, Reached
<1>7. RefusedFirst BY <1>3 DEF RefusedFirst
<1>8. LetThrough BY <1>3, <1>4 DEF LetThrough
<1>9. Remembered
  <2>1. \A c \in Calls : call[c].boot <= boots
    <3>1. 0 <= 0 OBVIOUS
    <3>2. QED BY <1>1, <1>3, <3>1, Zenon
  <2>2. \A c \in Calls : call[c].pass \notin Ids BY <1>3, <1>4
  <2>3. QED BY <2>1, <2>2 DEF Remembered
<1>10. OncePerRun BY <1>3, <1>4 DEF OncePerRun
<1>11. AnswersTrue BY <1>3, <1>4 DEF AnswersTrue, Answers
<1>12. QED BY <1>5, <1>6, <1>7, <1>8, <1>9, <1>10, <1>11 DEF IInv

LEMMA StutterStep ==
  ASSUME IInv, UNCHANGED vars
  PROVE  IInv'
<1>1. /\ cmd' = cmd /\ call' = call /\ minted' = minted /\ used' = used /\ now' = now
      /\ boots' = boots /\ flying' = flying /\ done' = done /\ addon' = addon
  BY DEF vars
<1>2. \A d : S(d)' = S(d) BY <1>1 DEF S
<1>3. Typed' BY <1>1, <1>2 DEF IInv, Typed
<1>4. Sent' /\ RefusedFirst' BY <1>1, <1>2 DEF IInv, Sent, Reached, RefusedFirst
<1>5. AnswersTrue' BY <1>1 DEF IInv, AnswersTrue, Writes
<1>6. LetThrough' BY <1>1, <1>2 DEF IInv, LetThrough, approval_exempt
<1>7. Remembered' /\ OncePerRun' BY <1>1 DEF IInv, Remembered, Expired, OncePerRun
<1>8. QED BY <1>3, <1>4, <1>5, <1>6, <1>7 DEF IInv

(* The invariant is inductive: every step keeps it.                        *)
THEOREM Invariance == Spec => []IInv
<1>1. Init => IInv BY InitInvariant
<1>2. IInv /\ [Next]_vars => IInv'
  <2> SUFFICES ASSUME IInv, [Next]_vars PROVE IInv' OBVIOUS
  <2>1. ASSUME NEW c \in Calls, Step(c) PROVE IInv'
    BY <2>1, RefuseStep, BeginStep, ReplyStep, OutcomeStep DEF Step
  <2>2. ASSUME NEW c \in Calls, CarriesOut(c) PROVE IInv' BY <2>2, CarriesOutStep
  <2>3. ASSUME NEW id \in Ids, Mint(id) PROVE IInv' BY <2>3, MintStep
  <2>4. CASE AddonChanges BY <2>4, AddonStep
  <2>5. CASE Tick BY <2>5, TickStep
  <2>6. CASE Restart BY <2>6, RestartStep
  <2>7. CASE UNCHANGED vars BY <2>7, StutterStep
  <2>8. QED BY <2>1, <2>2, <2>3, <2>4, <2>5, <2>6, <2>7 DEF Next
<1>3. QED BY <1>1, <1>2, PTL DEF Spec

(* A call waits for a request of its own script, and only markers that     *)
(* were minted let calls through or are remembered as used.                *)
THEOREM TypeCorrect == Spec => []TypeOK
<1>1. IInv => TypeOK
  <2> SUFFICES ASSUME IInv PROVE TypeOK OBVIOUS
  <2>1. ASSUME NEW c \in Calls
        PROVE  /\ cmd[c] \in Commands /\ call[c].at \in 0..Len(S(c).requests)
               /\ call[c].pass \in Ids \cup {"exempt", None}
               /\ call[c].answer \in Answers \cup {None}
    <3>1. cmd[c] \in Commands /\ call[c] \in CallSet BY DEF IInv, Typed
    <3>2. call[c].at \in 0..Len(S(c).requests) BY ScriptOf DEF IInv, Typed
    <3>3. QED BY <3>1, <3>2 DEF CallSet
  <2>2. QED BY <2>1 DEF IInv, Typed, TypeOK
<1>2. QED BY <1>1, Invariance, PTL

(* config_mutation.py: between two restarts of the node no two calls are   *)
(* let through by the same marker, however the calls, the expiry of        *)
(* markers and the pruning of used ids interleave, and a call that its     *)
(* command refuses before the gate spends none.                            *)
THEOREM SpentOnce == Spec => []ApprovalSpentOnce
<1>1. IInv => ApprovalSpentOnce BY DEF IInv, LetThrough, OncePerRun, ApprovalSpentOnce
<1>2. QED BY <1>1, Invariance, PTL

(* approval_policy.py: no write of a gated command reaches Home Assistant, *)
(* not even one that is carried out after a timeout or a restart, unless   *)
(* this very call was approved or its caller is a named administrator who  *)
(* needs no approval for it; what is destructive is approved, unless the   *)
(* attrs of such a caller name it in the frame of a command that merges    *)
(* them.                                                                   *)
THEOREM Authorised == Spec => []EffectsAuthorised
<1>1. IInv => EffectsAuthorised
  <2> SUFFICES ASSUME IInv, NEW c \in done \cup flying, S(c).gate
               PROVE  \/ /\ call[c].pass \in Ids
                         /\ minted[call[c].pass].bind = <<cmd[c], call[c].param>>
                      \/ /\ call[c].pass = "exempt"
                         /\ Frame(c) \in DESTRUCTIVE => S(c).attrs
                         /\ call[c].caller # None /\ call[c].caller.named
                         /\ call[c].caller.role \in {"admin", "super_admin"}
    BY DEF EffectsAuthorised
  <2>1. c \in Calls BY DEF IInv, Typed
  <2>2. call[c].at # 0 BY <2>1, NotSent
  <2>3. call[c].pass \in Ids \cup {"exempt"}
    <3>1. call[c].pass # None BY <2>1, <2>2 DEF IInv, LetThrough
    <3>2. call[c] \in CallSet BY <2>1 DEF IInv, Typed
    <3>3. QED BY <3>1, <3>2 DEF CallSet
  <2>4. CASE call[c].pass \in Ids BY <2>1, <2>4 DEF IInv, LetThrough
  <2>5. CASE call[c].pass = "exempt"
    <3>1. approval_exempt(call[c].caller, cmd[c]) BY <2>1, <2>5 DEF IInv, LetThrough
    <3>2. call[c].caller # None BY <3>1 DEF approval_exempt
    <3>3. cmd[c] \notin DESTRUCTIVE BY <3>1, DestructiveNeverExempt
    <3>4. Frame(c) \in DESTRUCTIVE => S(c).attrs BY <3>3 DEF Frame
    <3>5. QED BY <2>5, <3>1, <3>2, <3>4, DestructiveNeverExempt
  <2>6. QED BY <2>3, <2>4, <2>5
<1>2. QED BY <1>1, Invariance, PTL

(* ha.py: what a call is answered about its write is so and stays so: a    *)
(* refused or unchanged one is never carried out, success means that it    *)
(* was, and only a lifecycle call that has posted is told that its outcome *)
(* is unknown.                                                             *)
THEOREM Truth == Spec => []AnswersTrue
<1>1. IInv => AnswersTrue BY DEF IInv
<1>2. QED BY <1>1, Invariance, PTL
=============================================================================
