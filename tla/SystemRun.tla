------------------------------ MODULE SystemRun ------------------------------
(***************************************************************************)
(* Running a command an operator approved: system.run.prepare makes a plan *)
(* (commands/exec_approvals.py), the gateway has it approved and forwards  *)
(* it, system.run checks the forward against the plan and looks after the  *)
(* process (commands/system_run.py).                                       *)
(*                                                                         *)
(* The gateway, the operator, the file system and the processes of the     *)
(* command are the environment.  The gateway's part of the contract is the *)
(* one the handler relies on: only a forward of an approved plan carries   *)
(* the approval envelope.  Everything else in a forward may be anything.   *)
(*                                                                         *)
(* An argument vector, a text and a directory are names.  Text need not    *)
(* tell two argument vectors apart; a directory name is resolved when it   *)
(* is used, and what it resolves to may change in between.                 *)
(***************************************************************************)
EXTENDS Integers, FiniteSets

CONSTANTS
    Runs,        \* handler threads
    Argvs,       \* valid argument vectors
    Texts,       \* command texts
    Text,        \* _format_exec_command: [Argvs -> Texts]
    Payload,     \* _inline_shell_payload: [Argvs -> Texts \cup {Null}]
    Dirs,        \* directories under an allowed root
    Outside,     \* a directory that is not
    Agents, Sessions,
    Null,        \* an absent or null field
    Absent,      \* a key a stored plan does not have
    Refused,     \* an error answer
    MaxPlans     \* bound on the plans prepared

ASSUME ConstantAssumption ==
    /\ Text \in [Argvs -> Texts] /\ Payload \in [Argvs -> Texts \cup {Null}]
    /\ Null \notin Argvs \cup Texts \cup Dirs \cup Agents \cup Sessions
    /\ Absent \notin Dirs \cup Agents \cup Sessions \cup {Null}
    /\ Outside \notin Dirs
    /\ MaxPlans \in Nat

VARIABLES
    link,       \* what the one directory name callers use resolves to
    plans,      \* the plans the gateway stores
    approved,   \* the ones an operator approved
    run,        \* [Runs -> the handler's locals]
    proc        \* [Runs -> the processes of the command]

runVars == <<link, plans, approved, run, proc>>

Cwds == Dirs \cup {Null}
Commands == [argv : Argvs, text : Texts, cwd : Cwds,
             agent : Agents \cup {Null}, session : Sessions \cup {Null}]
Plans == [argv : Argvs, text : Texts, cwd : Cwds \cup {Absent},
          agent : Agents \cup {Null, Absent}, session : Sessions \cup {Null, Absent}]

(* What callers send.  A directory is asked for by its one name or not at  *)
(* all.                                                                    *)
Requests == [argv : Argvs, raw : Texts \cup {Null}, cwd : BOOLEAN,
             agent : Agents \cup {Null}, session : Sessions \cup {Null}]

(* A descendant of the child is in the child's process group or has left   *)
(* it (setpgid, or setsid).                                                *)
Descendants == {"none", "group", "left"}
Processes == [child : {"none", "running", "succeeded", "failed", "killed"},
              desc : Descendants, pipes : SUBSET {"child", "desc"}]
NoProcess == [child |-> "none", desc |-> "none", pipes |-> {}]

Answers == {Null, Refused} \cup [success : BOOLEAN, timedOut : BOOLEAN, incomplete : BOOLEAN]
RunPCs == {"idle", "spawn", "communicate", "expired", "kill", "drain", "answer"}
Handlers == [pc : RunPCs, cmd : Commands \cup {Null}, timedOut : BOOLEAN, incomplete : BOOLEAN,
             ans : Answers]
IdleRun == [pc |-> "idle", cmd |-> Null, timedOut |-> FALSE, incomplete |-> FALSE, ans |-> Null]

RunTypeOK ==
    /\ link \in Dirs \cup {Outside}
    /\ plans \subseteq Plans /\ approved \subseteq plans
    /\ run \in [Runs -> Handlers]
    /\ proc \in [Runs -> Processes]

RunInit ==
    /\ link \in Dirs
    /\ plans = {} /\ approved = {}
    /\ run = [r \in Runs |-> IdleRun]
    /\ proc = [r \in Runs |-> NoProcess]

-----------------------------------------------------------------------------
(* The checks both handlers make.                                          *)

(* _validate_cwd: the name is resolved now, and must lead under a root.    *)
ResolvedCwd(q) == IF q.cwd THEN link ELSE Null
CwdAnywhere(q) == q.cwd \in BOOLEAN
CwdAllowed(q) == ~q.cwd \/ link \in Dirs

(* _resolve_command_text: rawCommand, if any, is the text of this argv or  *)
(* the payload of its inline shell.                                        *)
RawMatches(q) == q.raw \in {Null, Text[q.argv], Payload[q.argv]}

CommandOf(q) == [argv |-> q.argv, text |-> Text[q.argv], cwd |-> ResolvedCwd(q),
                 agent |-> q.agent, session |-> q.session]

(* handle_system_run_prepare.  The plan goes to the gateway, which stores  *)
(* it; an older or foreign plan may lack one of the keys.                  *)
Prepare ==
    /\ Cardinality(plans) < MaxPlans
    /\ \E q \in Requests :
          /\ RawMatches(q)
          /\ CwdAllowed(q)
          /\ plans' = plans \cup {CommandOf(q)}
    /\ UNCHANGED <<link, approved, run, proc>>

ForeignPlan ==
    /\ Cardinality(plans) < MaxPlans
    /\ \E c \in Commands, k \in {"cwd", "agent", "session"} :
          plans' = plans \cup {[c EXCEPT ![k] = Absent]}
    /\ UNCHANGED <<link, approved, run, proc>>

Approve ==
    /\ \E p \in plans : approved' = approved \cup {p}
    /\ UNCHANGED <<link, plans, run, proc>>

Retarget ==
    /\ link' \in Dirs \cup {Outside}
    /\ UNCHANGED <<plans, approved, run, proc>>

-----------------------------------------------------------------------------
(* handle_system_run up to the spawn.  An approval envelope is a run id    *)
(* and one of the three signs of approval.                                 *)

(* _verify_authorization *)
Authorized(p, envelope) == p # Null /\ envelope

SameIfBound(p, c) ==
    /\ p.argv = c.argv /\ p.text = c.text
    /\ \A k \in {"cwd", "agent", "session"} : p[k] \in {c[k], Absent}

(* _verify_plan_consistency: a key that is missing is a mismatch, and null *)
(* means that nothing may be given.                                        *)
PlanMatches(p, c) ==
    /\ p.argv = c.argv /\ p.text = c.text
    /\ \A k \in {"cwd", "agent", "session"} : p[k] = c[k]

Refuse(r) == run' = [run EXCEPT ![r] = [IdleRun EXCEPT !.ans = Refused]]

(* fits stands for the checks that see no other field: the environment,    *)
(* the sizes and timeoutMs.  A thread is reused when its last command is   *)
(* gone.                                                                   *)
Forward(r) ==
    /\ run[r].pc = "idle"
    /\ proc[r].child # "running" /\ proc[r].desc = "none"
    /\ \E q \in Requests, p \in plans \cup {Null}, envelope \in BOOLEAN, fits \in BOOLEAN :
          /\ envelope => p \in approved
          /\ IF /\ Authorized(p, envelope)
                /\ RawMatches(q)
                /\ CwdAllowed(q)
                /\ PlanMatches(p, CommandOf(q))
                /\ fits
             THEN run' = [run EXCEPT ![r] = [IdleRun EXCEPT !.pc = "spawn", !.cmd = CommandOf(q)]]
             ELSE Refuse(r)
    /\ proc' = [proc EXCEPT ![r] = NoProcess]
    /\ UNCHANGED <<link, plans, approved>>

(* Popen: the child leads a session and a process group of its own.        *)
Spawn(r) ==
    /\ run[r].pc = "spawn"
    /\ run' = [run EXCEPT ![r].pc = "communicate"]
    /\ proc' = [proc EXCEPT ![r] = [child |-> "running", desc |-> "none", pipes |-> {"child"}]]
    /\ UNCHANGED <<link, plans, approved>>

SpawnFails(r) ==
    /\ run[r].pc = "spawn"
    /\ Refuse(r)
    /\ UNCHANGED <<link, plans, approved, proc>>

-----------------------------------------------------------------------------
(* The command's processes.                                                *)
Alive(r) == proc[r].child = "running"

Fork(r) ==
    /\ Alive(r) /\ proc[r].desc = "none"
    /\ \E held \in BOOLEAN :
          proc' = [proc EXCEPT ![r].desc = "group",
                               ![r].pipes = IF held /\ "child" \in @ THEN @ \cup {"desc"} ELSE @]
    /\ UNCHANGED <<link, plans, approved, run>>

LeaveGroup(r) ==
    /\ proc[r].desc = "group"
    /\ proc' = [proc EXCEPT ![r].desc = "left"]
    /\ UNCHANGED <<link, plans, approved, run>>

DescendantExits(r) ==
    /\ proc[r].desc # "none"
    /\ proc' = [proc EXCEPT ![r].desc = "none", ![r].pipes = @ \ {"desc"}]
    /\ UNCHANGED <<link, plans, approved, run>>

(* A process may close its ends of the pipes and go on.                    *)
ClosesPipes(r) ==
    /\ \E who \in proc[r].pipes : proc' = [proc EXCEPT ![r].pipes = @ \ {who}]
    /\ UNCHANGED <<link, plans, approved, run>>

ChildExits(r) ==
    /\ Alive(r)
    /\ \E how \in {"succeeded", "failed"} :
          proc' = [proc EXCEPT ![r].child = how, ![r].pipes = @ \ {"child"}]
    /\ UNCHANGED <<link, plans, approved, run>>

-----------------------------------------------------------------------------
(* The rest of handle_system_run.                                          *)

(* communicate() returns at end of file on both pipes once the child is    *)
(* reaped.                                                                 *)
Done(r) == proc[r].pipes = {} /\ ~Alive(r)

Communicated(r) ==
    /\ run[r].pc = "communicate"
    /\ Done(r)
    /\ run' = [run EXCEPT ![r].pc = "answer"]
    /\ UNCHANGED <<link, plans, approved, proc>>

Expires(r) ==
    /\ run[r].pc = "communicate"
    /\ run' = [run EXCEPT ![r].pc = "expired"]
    /\ UNCHANGED <<link, plans, approved, proc>>

(* poll() is None: a genuine timeout, or so it is reported from here on.   *)
TimesOut(r) ==
    /\ run[r].pc = "expired"
    /\ Alive(r)
    /\ run' = [run EXCEPT ![r].pc = "kill", ![r].timedOut = TRUE]
    /\ UNCHANGED <<link, plans, approved, proc>>

(* _kill_group: killpg reaches what is in the child's process group.  A    *)
(* child that has exited since poll() keeps its status.                    *)
KilledChild(p) == [p EXCEPT !.child = IF @ = "running" THEN "killed" ELSE @,
                            !.pipes = @ \ {"child"}]
Killed(p) ==
    [p EXCEPT !.child = IF @ = "running" THEN "killed" ELSE @,
              !.desc = IF @ = "group" THEN "none" ELSE @,
              !.pipes = @ \ (IF p.desc = "group" THEN {"child", "desc"} ELSE {"child"})]
KillGroup(r) ==
    /\ run[r].pc = "kill"
    /\ run' = [run EXCEPT ![r].pc = "drain"]
    /\ proc' = [proc EXCEPT ![r] = Killed(@)]
    /\ UNCHANGED <<link, plans, approved>>

(* The child is gone and a descendant has the pipes, or everything ended   *)
(* just now: not a timeout.                                                *)
ExitedAfterAll(r) ==
    /\ run[r].pc = "expired"
    /\ ~Alive(r)
    /\ run' = [run EXCEPT ![r].pc = "answer", ![r].incomplete = TRUE]
    /\ UNCHANGED <<link, plans, approved, proc>>

Drained(r) ==
    /\ run[r].pc = "drain"
    /\ Done(r)
    /\ run' = [run EXCEPT ![r].pc = "answer"]
    /\ UNCHANGED <<link, plans, approved, proc>>

(* One second later someone outside the group still has the pipes: reap    *)
(* the child and close this end.                                           *)
DrainUnbounded(r) ==
    /\ run[r].pc = "drain"
    /\ Done(r)
    /\ run' = [run EXCEPT ![r].pc = "answer", ![r].incomplete = TRUE]
    /\ UNCHANGED <<link, plans, approved, proc>>
DrainExpires(r) ==
    /\ run[r].pc = "drain"
    /\ ~Alive(r)
    /\ run' = [run EXCEPT ![r].pc = "answer", ![r].incomplete = TRUE]
    /\ UNCHANGED <<link, plans, approved, proc>>

Report(r) ==
    /\ run[r].pc = "answer"
    /\ run' = [run EXCEPT ![r].pc = "idle",
                          ![r].ans = [success |-> ~run[r].timedOut /\ proc[r].child = "succeeded",
                                      timedOut |-> run[r].timedOut,
                                      incomplete |-> run[r].incomplete]]
    /\ UNCHANGED <<link, plans, approved, proc>>

Handler(r) == \/ Spawn(r) \/ SpawnFails(r) \/ Communicated(r) \/ Expires(r) \/ TimesOut(r)
              \/ KillGroup(r) \/ ExitedAfterAll(r) \/ Drained(r) \/ DrainExpires(r) \/ Report(r)
Command(r) == Fork(r) \/ LeaveGroup(r) \/ DescendantExits(r) \/ ClosesPipes(r) \/ ChildExits(r)
RunNext == \/ Prepare \/ ForeignPlan \/ Approve \/ Retarget
           \/ \E r \in Runs : Forward(r) \/ Handler(r) \/ Command(r)

(* The handler's thread runs.  Nothing is assumed of the command.          *)
RunSpec == RunInit /\ [][RunNext]_runVars /\ \A r \in Runs : WF_runVars(Handler(r))

-----------------------------------------------------------------------------
(* A process only ever starts with the argument vector, text, directory,   *)
(* agent and session of a plan an operator approved, key by key, wherever  *)
(* the directory's name leads by then: the approval-bound fields of        *)
(* system_run.py.                                                          *)
RunsApprovedPlan == \A r \in Runs : run[r].cmd # Null => run[r].cmd \in approved

(* An answer is true of the processes it is about, whatever they did       *)
(* between poll(), killpg and the end of the drain: after a timeout the    *)
(* child is gone and so is all of its process group; a child that was      *)
(* killed is never reported but as timed out; success is the child's own   *)
(* exit and no timeout; output is called complete only when no process     *)
(* could still add to it.  (A child that exits between poll() and killpg   *)
(* is reported as timed out, and a descendant that left the group lives.)  *)
AnswerTrue ==
    \A r \in Runs : run[r].pc = "idle" /\ run[r].ans \notin {Null, Refused} =>
        /\ run[r].ans.timedOut => ~Alive(r) /\ proc[r].desc # "group"
        /\ proc[r].child = "killed" => run[r].ans.timedOut
        /\ run[r].ans.success <=> proc[r].child = "succeeded" /\ ~run[r].ans.timedOut
        /\ ~run[r].ans.incomplete => proc[r].pipes = {}

(* Every forward is answered, whatever the command's processes do: the     *)
(* drain is bounded and the pipes are given up.                            *)
EveryForwardAnswered == \A r \in Runs : run[r].pc # "idle" ~> run[r].pc = "idle"
=============================================================================
