----------------------------- MODULE FileBackups -----------------------------
(***************************************************************************)
(* The node's file mutations (fs.write, fs.patch, fs.delete, fs.move and   *)
(* fs.restore) and the backup store they capture prior bytes in            *)
(* (backup_store.py).                                                      *)
(*                                                                         *)
(* The handlers are synchronous functions that the node's one event loop   *)
(* runs one at a time, so at most one is in flight; `job' is its locals.   *)
(* An action is one effect on disk (a rename of a staged file, an append,  *)
(* an unlink), and the process may die between any two of them; what it    *)
(* has written stays written.  A power loss, which could also undo a       *)
(* rename whose directory was not fsynced, is not modelled.  Other         *)
(* processes (Home Assistant, the user's editor) may change a live file    *)
(* between any two effects as well.                                        *)
(*                                                                         *)
(* Contents stand for byte strings and for their sha256.  The size, actor, *)
(* op tag and prev_sha256 of a version line are audit data nothing here    *)
(* reads.  A request that a policy check or a parameter check refuses      *)
(* changes no file and no log.                                             *)
(***************************************************************************)
EXTENDS Integers, Sequences, FiniteSets

CONSTANTS
    Paths,        \* path strings as callers spell them
    Files,        \* the files they resolve to
    FileOf,       \* [Paths -> Files], _resolve_write_target
    NameLen,      \* [Paths -> Nat], length of the url-encoded path
    Contents,     \* byte strings
    Empty,        \* the zero-length one
    Proposals,    \* proposal_id values callers send
    None,         \* no file, no bytes
    Faults,       \* what the environment does, see FaultKinds
    MaxVersions,  \* bound: no command starts when a log has this many lines
    MaxDisturbed, \* bound: short writes and changes by other processes
    MaxTime       \* bound on the clock

FaultKinds == {"crash", "io_error", "short_write", "external"}
IndexNameMax == 250                       \* _INDEX_NAME_MAX
FileNameMax == 255                        \* NAME_MAX of ext4
IndexSuffix == 6                          \* ".jsonl"

ASSUME PathAssumption ==
    /\ FileOf \in [Paths -> Files]
    /\ NameLen \in [Paths -> Nat]
ASSUME ContentAssumption == Empty \in Contents /\ None \notin Contents
ASSUME NoneAssumption == None \notin Paths
ASSUME FaultAssumption == Faults \subseteq FaultKinds
ASSUME BoundAssumption == MaxVersions \in Nat /\ MaxDisturbed \in Nat /\ MaxTime \in Nat

VARIABLES
    live,      \* [Files -> bytes or None]
    trash,     \* the fallback trash: the files it has copies of
    objects,   \* objects/: the bodies that are stored
    index,     \* [Paths -> sequence of intact version lines]
    broken,    \* per log: "no", "torn" (last line has no newline), "yes"
    now,       \* the clock, in the second precision of a line's ts
    job,       \* the command in flight
    reply,     \* the last command's outcome; for "ok" its path and the bytes replaced
    disturbed  \* history: short writes and other processes' changes so far

vars == <<live, trash, objects, index, broken, now, job, reply, disturbed>>

Kinds == {"write", "patch", "delete", "move", "restore"}
PCs == {"idle", "object", "append", "source", "apply", "unlink_live",
        "history", "unlink_log", "purge"}
Codes == {"none", "ok", "refused", "BACKUP_ERROR", "COMMAND_ERROR", "READ_ERROR",
          "WRITE_ERROR", "MOVE_ERROR", "TRASH_ERROR"}

(* A version line records a proposal id.  fs.restore and fs.move put a     *)
(* prefix before it, so an id is the caller's id and the prefixes it got.  *)
Ids == [base : Proposals, prefixes : Seq({"restore-from", "pre-move"})]
ProposalId(id) == [base |-> id, prefixes |-> <<>>]
Prefixed(word, id) == [base |-> id.base, prefixes |-> <<word>> \o id.prefixes]
RestoreFrom(id) == Prefixed("restore-from", id)
PreMove(id) == Prefixed("pre-move", id)
Versions == [sha : Contents, id : Ids, ts : Nat]

Bytes == Contents \cup {None}
Idle == [pc |-> "idle", kind |-> "none", path |-> None, dst |-> None,
         cap |-> None, prior |-> None, id |-> None, data |-> None]
NoReply == [code |-> "none", path |-> None, prior |-> None]

-----------------------------------------------------------------------------
Exists(p) == live[FileOf[p]] # None
HasLog(p) == index[p] # <<>> \/ broken[p] # "no"
Readable(p) == broken[p] = "no"
Last(s) == s[Len(s)]

(* What resolve_version returns: the position of the line, 0 for none.     *)
(* `version' counts from 1 or from the end, a proposal id means the first  *)
(* line that carries it, a digest the last one, a time the last line in    *)
(* log order whose ts is not later.                                        *)
Matching(log, sel) ==
    {i \in DOMAIN log :
        CASE sel.by = "version"  -> \/ i = sel.value
                                    \/ i = Len(log) + 1 + sel.value
          [] sel.by = "proposal" -> log[i].id = sel.value
          [] sel.by = "sha256"   -> log[i].sha = sel.value
          [] OTHER               -> log[i].ts <= sel.value}
ResolveVersion(log, sel) ==
    LET found == Matching(log, sel)
    IN IF found = {} THEN 0
       ELSE IF sel.by = "proposal"
            THEN CHOOSE i \in found : \A j \in found : i <= j
            ELSE CHOOSE i \in found : \A j \in found : j <= i
Selectors(log) ==
         {[by |-> "version", value |-> n] : n \in DOMAIN log}
    \cup {[by |-> "version", value |-> -n] : n \in DOMAIN log}
    \cup {[by |-> "proposal", value |-> log[i].id] : i \in DOMAIN log}
    \cup {[by |-> "sha256", value |-> log[i].sha] : i \in DOMAIN log}
    \cup {[by |-> "at", value |-> t] : t \in 0..now}

-----------------------------------------------------------------------------
Init ==
    /\ live \in [Files -> Bytes]
    /\ trash = {} /\ objects = {}
    /\ index = [p \in Paths |-> <<>>]
    /\ broken = [p \in Paths |-> "no"]
    /\ now = 0
    /\ job = Idle
    /\ reply = NoReply
    /\ disturbed = 0

(* The command returns (or raises, which the dispatcher turns into         *)
(* COMMAND_ERROR).                                                         *)
Return(prior) ==
    /\ job' = Idle
    /\ reply' = [code |-> "ok", path |-> IF job.kind = "move" THEN job.dst ELSE job.path,
                 prior |-> prior]
Abort(code) ==
    /\ job' = Idle
    /\ reply' = [NoReply EXCEPT !.code = code]

Start(kind, p, d, cap, id, data) ==
    /\ reply' = NoReply
    /\ job' = [pc |-> IF cap = None THEN "apply" ELSE "object", kind |-> kind,
               path |-> p, dst |-> d, cap |-> cap, prior |-> None,
               id |-> id, data |-> data]
    /\ UNCHANGED <<live, trash, objects, index, broken, now, disturbed>>

Ready == job.pc = "idle" /\ \A p \in Paths : Len(index[p]) < MaxVersions

FsWriteSkipsEmpty(p, c, id) ==
    /\ Ready
    /\ Start("write", p, None, IF live[FileOf[p]] = Empty THEN None ELSE live[FileOf[p]], id, c)
(* handle_fs_write: an existing file is captured, an empty one too; a      *)
(* fresh create is not.                                                    *)
FsWrite(p, c, id) ==
    /\ Ready
    /\ Start("write", p, None, live[FileOf[p]], id, c)

(* handle_fs_patch: the diff is applied in memory first; c is the result.  *)
FsPatch(p, c, id) ==
    /\ Ready /\ Exists(p)
    /\ Start("patch", p, None, live[FileOf[p]], id, c)

FsDelete(p, id) ==
    /\ Ready /\ Exists(p)
    /\ Start("delete", p, None, live[FileOf[p]], id, None)

(* handle_fs_restore: a missing file is captured as empty bytes.           *)
FsRestore(p, sel) ==
    /\ Ready /\ Readable(p)
    /\ LET i == ResolveVersion(index[p], sel)
       IN /\ i \in DOMAIN index[p]
          /\ index[p][i].sha \in objects
          /\ Start("restore", p, None, IF Exists(p) THEN live[FileOf[p]] ELSE Empty,
                   RestoreFrom(index[p][i].id), index[p][i].sha)

(* handle_fs_move: the destination, if there is one, is captured first.    *)
FsMove(s, d, id) ==
    /\ Ready /\ Exists(s) /\ FileOf[s] # FileOf[d]
    /\ IF Exists(d)
       THEN Start("move", s, d, live[FileOf[d]], id, None)
       ELSE /\ reply' = NoReply
            /\ job' = [Idle EXCEPT !.pc = "source", !.kind = "move",
                                   !.path = s, !.dst = d, !.id = id]
            /\ UNCHANGED <<live, trash, objects, index, broken, now, disturbed>>

(* The early returns: unknown keys, missing parameters, .storage, a        *)
(* protected path without approval, a path outside the roots, bytes that   *)
(* do not decode or are too many, a missing file, a diff that does not     *)
(* apply, a version that does not resolve; and a dry run of fs.patch.      *)
Refused ==
    /\ job.pc = "idle"
    /\ reply' = [NoReply EXCEPT !.code = "refused"]
    /\ UNCHANGED <<live, trash, objects, index, broken, now, job, disturbed>>

-----------------------------------------------------------------------------
(* capture(): the move reads and captures twice, first for the destination *)
(* (job.prior is None then), then for the source.                          *)
CapturesDst == job.kind = "move" /\ job.data = None
CapPath == IF CapturesDst THEN job.dst ELSE job.path
CapId == IF CapturesDst THEN PreMove(job.id) ELSE job.id

StoreObjectOfResult ==
    /\ job.pc = "object"
    /\ objects' = objects \cup {job.data}
    /\ job' = [job EXCEPT !.pc = "append"]
    /\ UNCHANGED <<live, trash, index, broken, now, reply, disturbed>>
StoreObjectUnlessLogged ==
    /\ job.pc = "object"
    /\ objects' = IF HasLog(CapPath) THEN objects ELSE objects \cup {job.cap}
    /\ job' = [job EXCEPT !.pc = "append"]
    /\ UNCHANGED <<live, trash, index, broken, now, reply, disturbed>>
StoreObject ==
    /\ job.pc = "object"
    /\ objects' = objects \cup {job.cap}
    /\ job' = [job EXCEPT !.pc = "append"]
    /\ UNCHANGED <<live, trash, index, broken, now, reply, disturbed>>

(* mkstemp, write, fsync or replace raises OSError.  The handlers catch    *)
(* BackupStoreError only, so it leaves the handler.                        *)
StoreObjectFails ==
    /\ "io_error" \in Faults
    /\ job.pc = "object" /\ job.cap \notin objects
    /\ Abort("COMMAND_ERROR")
    /\ UNCHANGED <<live, trash, objects, index, broken, now, disturbed>>

AfterAppend ==
    /\ job' = IF CapturesDst THEN [job EXCEPT !.pc = "source"]
                             ELSE [job EXCEPT !.pc = "apply"]
    /\ UNCHANGED <<live, trash, objects, now, reply>>

NameFits(p) == NameLen[p] + IndexSuffix <= FileNameMax
(* _atomic_append_line.  A line appended after a torn one shares its line, *)
(* and neither can be parsed.                                              *)
AppendLine ==
    /\ job.pc = "append" /\ NameFits(CapPath)
    /\ IF broken[CapPath] = "torn"
       THEN /\ broken' = [broken EXCEPT ![CapPath] = "yes"]
            /\ UNCHANGED index
       ELSE /\ index' = [index EXCEPT ![CapPath] =
                            Append(@, [sha |-> job.cap, id |-> CapId, ts |-> now])]
            /\ UNCHANGED broken
    /\ UNCHANGED disturbed
    /\ AfterAppend

(* os.write returns a short count (a full disk), which is not looked at:   *)
(* the line is cut off before its end.                                     *)
ShortWrite ==
    /\ "short_write" \in Faults /\ disturbed < MaxDisturbed
    /\ job.pc = "append" /\ NameFits(CapPath)
    /\ disturbed' = disturbed + 1
    /\ broken' = [broken EXCEPT ![CapPath] = "torn"]
    /\ UNCHANGED index
    /\ AfterAppend

(* The index file name is too long: _encode_path raises a BackupStoreError *)
(* above its cap; at the cap the open fails with OSError.  Or the append   *)
(* fails by itself.                                                        *)
AppendFails ==
    /\ job.pc = "append"
    /\ \/ NameLen[CapPath] > IndexNameMax /\ Abort("BACKUP_ERROR")
       \/ /\ NameLen[CapPath] <= IndexNameMax
          /\ ~NameFits(CapPath) \/ "io_error" \in Faults
          /\ Abort("COMMAND_ERROR")
    /\ UNCHANGED <<live, trash, objects, index, broken, now, disturbed>>

(* handle_fs_move reads the source after the destination's capture.        *)
ReadSource ==
    /\ job.pc = "source"
    /\ IF Exists(job.path)
       THEN /\ job' = [job EXCEPT !.pc = "object", !.cap = live[FileOf[job.path]],
                                  !.data = live[FileOf[job.path]]]
            /\ UNCHANGED reply
       ELSE Abort("READ_ERROR")
    /\ UNCHANGED <<live, trash, objects, index, broken, now, disturbed>>

-----------------------------------------------------------------------------
(* atomic_write_safe at the end of fs.write, fs.patch and fs.restore.      *)
ApplyWrite ==
    /\ job.pc = "apply" /\ job.kind \in {"write", "patch", "restore"}
    /\ live' = [live EXCEPT ![FileOf[job.path]] = job.data]
    /\ IF job.kind = "restore"
       THEN /\ job' = [job EXCEPT !.pc = "purge", !.prior = live[FileOf[job.path]]]
            /\ UNCHANGED reply
       ELSE Return(live[FileOf[job.path]])
    /\ UNCHANGED <<trash, objects, index, broken, now, disturbed>>

(* _trash_file without send2trash: /config and the trash are different     *)
(* mounts, so shutil.move copies the file and then unlinks it.             *)
ApplyDelete ==
    /\ job.pc = "apply" /\ job.kind = "delete" /\ Exists(job.path)
    /\ trash' = trash \cup {FileOf[job.path]}
    /\ job' = [job EXCEPT !.pc = "unlink_live"]
    /\ UNCHANGED <<live, objects, index, broken, now, reply, disturbed>>
UnlinkLive ==
    /\ job.pc = "unlink_live" /\ Exists(job.path)
    /\ live' = [live EXCEPT ![FileOf[job.path]] = None]
    /\ Return(live[FileOf[job.path]])
    /\ UNCHANGED <<trash, objects, index, broken, now, disturbed>>

(* replace_safe; the destination's bytes are what the move replaces.       *)
ApplyMove ==
    /\ job.pc = "apply" /\ job.kind = "move" /\ Exists(job.path)
    /\ live' = [live EXCEPT ![FileOf[job.dst]] = live[FileOf[job.path]],
                            ![FileOf[job.path]] = None]
    /\ job' = [job EXCEPT !.pc = "history", !.prior = live[FileOf[job.dst]]]
    /\ UNCHANGED <<trash, objects, index, broken, now, reply, disturbed>>

ApplyError == CASE job.kind = "move"   -> "MOVE_ERROR"
                [] job.kind = "delete" -> "TRASH_ERROR"
                [] OTHER               -> "WRITE_ERROR"
(* The mutation raises OSError and the file is as it was.                  *)
ApplyFails ==
    /\ job.pc \in {"apply", "unlink_live"}
    /\ \/ "io_error" \in Faults
       \/ job.kind \in {"delete", "move"} /\ ~Exists(job.path)
    /\ Abort(ApplyError)
    /\ UNCHANGED <<live, trash, objects, index, broken, now, disturbed>>

(* The merge of rename_history ends both halves with a newline, so a torn  *)
(* line stays a line of its own.                                           *)
MergedBroken(s, d) ==
    IF broken[s] = "no" /\ broken[d] = "no" THEN "no" ELSE "yes"
MergedAfter(src, dst) == dst \o src
Merged(src, dst) == src \o dst

RenameDropsDst ==
    /\ job.pc = "history" /\ NameLen[job.dst] <= IndexNameMax /\ NameFits(job.dst)
    /\ index' = [index EXCEPT ![job.dst] = index[job.path], ![job.path] = <<>>]
    /\ broken' = [broken EXCEPT ![job.dst] = broken[job.path], ![job.path] = "no"]
    /\ Return(job.prior)
    /\ UNCHANGED <<live, trash, objects, now, disturbed>>
(* rename_history: the source log is renamed, or prepended to the          *)
(* destination's log.                                                      *)
RenameHistory ==
    /\ job.pc = "history" /\ NameLen[job.dst] <= IndexNameMax /\ NameFits(job.dst)
    /\ IF HasLog(job.dst)
       THEN /\ index' = [index EXCEPT ![job.dst] = Merged(index[job.path], @)]
            /\ broken' = [broken EXCEPT ![job.dst] = MergedBroken(job.path, job.dst)]
            /\ job' = [job EXCEPT !.pc = "unlink_log"]
            /\ UNCHANGED reply
       ELSE /\ index' = [index EXCEPT ![job.dst] = index[job.path], ![job.path] = <<>>]
            /\ broken' = [broken EXCEPT ![job.dst] = broken[job.path], ![job.path] = "no"]
            /\ Return(job.prior)
    /\ UNCHANGED <<live, trash, objects, now, disturbed>>

UnlinkLog ==
    /\ job.pc = "unlink_log"
    /\ index' = [index EXCEPT ![job.path] = <<>>]
    /\ broken' = [broken EXCEPT ![job.path] = "no"]
    /\ Return(job.prior)
    /\ UNCHANGED <<live, trash, objects, now, disturbed>>

(* A BackupStoreError is logged and the move succeeds without its history; *)
(* an OSError leaves the handler although the file has moved.              *)
RenameFails ==
    /\ job.pc \in {"history", "unlink_log"}
    /\ \/ NameLen[job.dst] > IndexNameMax /\ Return(job.prior)
       \/ /\ NameLen[job.dst] <= IndexNameMax
          /\ ~NameFits(job.dst) \/ "io_error" \in Faults
          /\ Abort("COMMAND_ERROR")
    /\ UNCHANGED <<live, trash, objects, index, broken, now, disturbed>>

(* purge_trash_entries_for: an entry that cannot be removed is skipped.    *)
Purge ==
    /\ job.pc = "purge"
    /\ \/ trash' = trash \ {FileOf[job.path]}
       \/ "io_error" \in Faults /\ UNCHANGED trash
    /\ Return(job.prior)
    /\ UNCHANGED <<live, objects, index, broken, now, disturbed>>

-----------------------------------------------------------------------------
(* The process dies.  What it had written is durable; a restart reads no   *)
(* log and repairs none.                                                   *)
Crash ==
    /\ "crash" \in Faults
    /\ job.pc # "idle"
    /\ job' = Idle /\ reply' = NoReply
    /\ UNCHANGED <<live, trash, objects, index, broken, now, disturbed>>

(* external: another process writes or removes a live file.                *)
ExternalChange ==
    /\ "external" \in Faults /\ disturbed < MaxDisturbed
    /\ disturbed' = disturbed + 1
    /\ \E f \in Files, c \in Bytes :
          /\ live[f] # c
          /\ live' = [live EXCEPT ![f] = c]
    /\ UNCHANGED <<trash, objects, index, broken, now, job, reply>>

Tick ==
    /\ now < MaxTime
    /\ now' = now + 1
    /\ UNCHANGED <<live, trash, objects, index, broken, job, reply, disturbed>>

Request ==
    \/ \E p \in Paths, id \in Proposals :
          \/ \E c \in Contents : FsWrite(p, c, ProposalId(id)) \/ FsPatch(p, c, ProposalId(id))
          \/ FsDelete(p, ProposalId(id))
          \/ \E d \in Paths : FsMove(p, d, ProposalId(id))
    \/ \E p \in Paths : \E sel \in Selectors(index[p]) : FsRestore(p, sel)
    \/ Refused
Capture == StoreObject \/ StoreObjectFails \/ AppendLine \/ ShortWrite
           \/ AppendFails \/ ReadSource
Apply == ApplyWrite \/ ApplyDelete \/ UnlinkLive \/ ApplyMove \/ ApplyFails
Finish == RenameHistory \/ UnlinkLog \/ RenameFails \/ Purge

Next == Request \/ Capture \/ Apply \/ Finish \/ Crash \/ ExternalChange
        \/ Tick
Spec == Init /\ [][Next]_vars

-----------------------------------------------------------------------------
JobType ==
    [pc : PCs, kind : Kinds \cup {"none"}, path : Paths \cup {None},
     dst : Paths \cup {None}, cap : Bytes, prior : Bytes, id : Ids \cup {None},
     data : Bytes]
ReplyType ==
    [code : Codes, path : Paths \cup {None}, prior : Bytes]

(* Only bytes are ever stored, logged or written: an absent file never     *)
(* reaches the object store or a log.                                      *)
TypeOK ==
    /\ live \in [Files -> Bytes]
    /\ trash \subseteq Files
    /\ objects \subseteq Contents
    /\ index \in [Paths -> Seq(Versions)]
    /\ broken \in [Paths -> {"no", "torn", "yes"}]
    /\ now \in Nat /\ disturbed \in Nat
    /\ job \in JobType
    /\ reply \in ReplyType

(* Every version fs.history lists can be fetched: capture() stores the     *)
(* body before it appends the line, so no crash, failed write or move      *)
(* leaves a line whose object is missing.                                  *)
NoDanglingVersion ==
    \A p \in Paths : \A i \in DOMAIN index[p] : index[p][i].sha \in objects

Begins(was, is) == Len(was) <= Len(is) /\ \A i \in 1..Len(was) : is[i] = was[i]
Ends(was, is) ==
    Len(was) <= Len(is) /\ \A i \in 1..Len(was) : is[Len(is) - Len(was) + i] = was[i]

(* No step loses or reorders a path's recorded versions: afterwards they   *)
(* are the beginning or the end of some log.  The risk is rename_history,  *)
(* which rewrites one log and unlinks another, with a crash in between.    *)
LogsKept == \A p \in Paths : \E q \in Paths :
                Begins(index[p], index'[q]) \/ Ends(index[p], index'[q])
HistoryNeverLost == [][LogsKept]_vars

(* The bytes of f are a line of a readable log of f.                       *)
Captured(f) == \E p \in Paths : /\ FileOf[p] = f /\ Readable(p)
                                /\ \E i \in DOMAIN index[p] : index[p][i].sha = live[f]
ReplacesCaptured ==
    disturbed = 0 /\ job' # job =>
        \A f \in Files : live[f] # None /\ live'[f] # live[f] => Captured(f)

(* "Captures prior bytes of any file the node is about to mutate": the     *)
(* bytes a command replaces or removes are in a readable log of that file  *)
(* when it does so, as long as no short write has cut a log and no other   *)
(* process has changed a file.                                             *)
OverwritesOnlyCaptured == [][ReplacesCaptured]_vars

(* "Every applied proposal is file-level reversible": once a command has   *)
(* replied ok, fs.restore version=-1 on the path it was given selects      *)
(* exactly the bytes it replaced; after a move onto an existing file these *)
(* are the destination's, not the ones that moved in.  As above, until the *)
(* first short write or change by another process.                         *)
LastVersionUndoes ==
    disturbed = 0 /\ reply.code = "ok" /\ reply.prior # None =>
        LET log == index[reply.path]
            i == ResolveVersion(log, [by |-> "version", value |-> -1])
        IN Readable(reply.path) /\ i # 0 /\ log[i].sha = reply.prior
=============================================================================
