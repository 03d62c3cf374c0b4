# A TLA+ model of the OpenClaw Home Assistant node

This project models the parts of `openclaw-hass-node` where state outlives one
function call: the chat relay, the file commands with their undo history, the
two gateway connections with their pairing, the invokes that arrive over one of
them, the Home Assistant commands behind their approval gate, the exec approval
policy and `system.run`, the hand-over of the local API token, and camera
descriptions. TLC checks the models on small instances. TLAPS proves their
safety properties, and the two refinements, for every value of the constants.

Paths below are relative to the repository's `src/` copy; `node/` stands for
`app/node/src/openclaw_node/`.

## 1. The system

The node is one Python process inside Home Assistant (HA), with one asyncio
event loop. It keeps two WebSocket connections to an OpenClaw gateway. The
*node* role receives commands (`node.invoke.request`) and runs them: file
edits, HA calls, shell runs. The *operator* role carries Assist conversations
to gateway agents. A local HTTP API serves the HA integration.

```
 HA Assist -- custom_components -- HTTP API (http_api.py)
                                      | stream_turn / relay_turn
                                   ChatRelay (chat_relay.py)
                                      | chat.send, sessions.*     events, acks
 gateway ==== operator connection ====+
         ==== node connection ---- dispatcher -- commands/fs_*.py -- BackupStore
              (gateway_ws.py, pairing.py)        commands/ha*.py, system_run.py
```

| Component | State it keeps | Operations | What is hard |
|---|---|---|---|
| Chat relay, `node/chat_relay.py` | per-session locks, sentinel or run id, stream queues, reply events, text buffers, caller registry, agent inventory | `stream_turn`, `relay_turn`, `handle_response`, `handle_event`, `reset` | events, acks, deadlines, cancellations and disconnects in any order |
| File commands, `node/commands/fs_write.py`, `fs_patch.py`, `fs_move_delete.py`, `node/backup_store.py`, `node/safe_fd.py` | live files, object store, version logs, trash | write, patch, delete, move, restore | a crash or failure between two effects on disk |
| Gateway connections, `node/gateway_ws.py`, `node/pairing.py` | token in memory and in a file per role, pairing machine, back-off, runtime flags | connect, pair, persist, drain, serve, reconnect | two clients share files and a runtime object; single-use tokens; crashes |
| Start-up, `node/__main__.py`, `config.py` | reset markers, legacy token file | resets, migration, load | one-shot markers across restarts |
| Invoke drain and dispatch, `gateway_ws.py`, `commands/dispatcher.py` | the gateway's queue, the invoke in hand | pull, handle, answer, ack | lost acks, interleaved frames, whose authority an invoke runs under |
| HA commands and approvals, `commands/ha*.py`, `ha_client.py`, `commands/config_mutation.py`, `approval_policy.py` | used marker ids | about forty commands, consume a marker | single use across retries, expiry and restarts; writes carried out after a timeout |
| Exec approvals and `system.run`, `commands/exec_approvals.py`, `system_run.py` | policy document, lock file, a child process | get, set (compare and swap), prepare, run | concurrent writers; processes that outlive the call |
| HTTP API and bootstrap, `http_api.py`, `token_store.py` | local API token, consumed and claimed markers | bootstrap, claim | rotation with a lost answer or a crash |
| Camera descriptions, `vision.py` | in-flight request per source | `SingleFlight.run` | replacement racing cancellation |
| Authorization, `authz.py`, `safe_path.py` | none | pure decisions | case analysis |
| Identity, HA integration, plugin tools | little of their own | request adapters | see section 8 |

The components interact in six ways. The operator client creates one
`ChatRelay` for each connection, feeds it frames and calls `reset()` when the
connection ends. The HTTP API reads `NodeRuntime` (flags, pairing state,
relay), which both clients write. Each client writes its own token file, and
the answer to one role may carry the other role's token. The node client
dispatches invokes, and file commands among them use the backup store. The
caller an invoke runs as is looked up in the relay of the other connection. And
the config flow of the integration fetches and claims the API's token.

What makes each component correct:

- **Relay**: a turn shows its own run's reply only. A reply that has arrived is
  not lost. A failed turn leaves nothing behind. The caller registry is exact.
  Every turn ends.
- **Files**: what a command overwrites can be restored, and recorded history is
  never lost or left pointing at nothing, whatever fails in between.
- **Connections**: roles' tokens stay apart. A served token is on disk. A good
  token is not thrown away (true but for one race, section 4). What the HTTP API
  shows is true. Both roles recover after an eviction.
- **Invokes**: the gateway lets go of an invoke only when it is answered, and an
  invoke never runs with somebody else's authority.
- **HA commands**: an approval covers one call and is spent once. An effect was
  authorised, however late it happens. The answer is true.
- **Exec approvals**: concurrent writers see one compare-and-swap register.
  **system.run** runs only what was approved, always answers, and tells the
  truth about how the command ended.
- **Bootstrap**: the token is handed over once, a repeated claim gets the same
  answer, and the token the integration has stored works.
- **Camera descriptions**: the newest request of a source wins; every caller is
  answered.

`PROJECT.json` lists the hazards behind these properties, each at its line.

## 2. Modules

| Module | Models | Composes |
|---|---|---|
| `RelayService` | abstract: what `stream_turn` and `relay_turn` promise the HTTP handler | |
| `ChatRelay` | `chat_relay.py`, one relay object for the life of one connection | implements `RelayService` |
| `ChatRelayProofs` | theorems about it, and the refinement | `ChatRelay` |
| `FileBackups` | the five mutating file commands over the backup store | |
| `FileBackupsProofs` | theorems about it | `FileBackups` |
| `GatewayClient` | both gateway clients, the pairing machine and a model of the gateway's device record | |
| `GatewayClientProofs` | theorems about it | `GatewayClient` |
| `NodeInvokes` | the drain, live invokes, dispatch and the caller lookup | the node connection with the turns of the relay |
| `NodeInvokesProofs` | theorems about it | `NodeInvokes` |
| `HaCommands` | every `ha.*` handler as a script, the approval gate, two calls at once | |
| `HaCommandsProofs` | theorems about it | `HaCommands` |
| `PolicyRegister` | abstract: what `system.execApprovals.set` promises | |
| `ExecApprovals` | get and set by several processes, the lock file | implements `PolicyRegister` |
| `SystemRun` | prepare, approval, forward, the command's processes | |
| `ExecApprovalsProofs` | theorems about both, and the refinement | `ExecApprovals`, `SystemRun` |
| `Bootstrap` | the token file and markers, start-up, the two endpoints, the config flow | node and integration |
| `BootstrapProofs` | theorems about it | `Bootstrap` |
| `Vision` | the endpoint, `SingleFlight`, the RPC | HTTP API and relay |
| `VisionProofs` | theorems about it | `Vision` |
| `MC*` | values of the constants for TLC | |

Definitions whose comment begins with "Mutant of", or that stand directly above
the definition they vary (`LoseKeepsRelay` above `Lose`), are plausible bugs.
Nothing in the specifications uses them. Each is paired with the property that
fails when it replaces the original.

### ChatRelay and RelayService

A turn is one call of `stream_turn` or `relay_turn`. `pc` says where its
coroutine is suspended and `fut` is the future of the RPC it awaits. An action
is the code between two awaits, or one frame handled by the reader. So a
response (`RpcResponse`, `ChatSendAck`) and the coroutine's resumption
(`Created`, `StreamResumes`, ...) are separate steps, as they are in asyncio.
The dicts of the class are variables of the same shape: `_active_run_id` is
`runId`, `_delta_queues` is `queueReg`, `_reply_events` is `replyReg`,
`_active_turns` is `activeTurns`. A reply text is represented by the turn whose
run produced it, so another turn's reply is visible as such.

`AssistantEvent` is `handle_event` for reply text, with the staleness filter as
`Stale`. `Reset` is the loss of the connection. Turns still suspended resume
afterwards on the cleared dicts, with locks from a new dict (`lateLock`).

A stream turn is two generators: `stream_turn` has the lock and the registry,
`_stream_turn_locked`, which it iterates, the queue. `Cancel` is a cancellation
while the turn itself awaits: the exception passes through both at once, with
the `finally` blocks that run. It is different while both are suspended at a
`yield` and the handler writes the chunk (`write`, reached with a text or by
`StreamProgress`). If that write fails or is cancelled, nobody closes the
generators (`http_api.py:710` has no `aclosing`). The loop closes the outer one
in one task (`OuterCloses`: lock and principal go) and the inner one in a later
one (`InnerCloses`: the queue registered by then is popped). `robbed` records
whose queue that was; it is not in the code.

External: the gateway accepts runs and emits events. It runs one session's runs
in order, so an event of a run means that earlier runs are quiet. `CanonOf` is
its mapping from raw to canonical session keys.

`RelayService` is the relay as its callers see it: a call is idle, open or
ended, and `given` is the sequence of replies its caller was handed, so that the
same reply twice is a different state from the reply once. The mapping takes
`Phase` from `pc` (a dropped stream has ended for its caller), the end from
`outcome`, what the caller has from `yielded`, and the turns
whose run is known from `ackTagged`. The service promises a stream its own run's
reply for the turns in `Protected`. The relay keeps that promise to the turns in
`Unshared`, those whose session no other raw key leads to.

### FileBackups

The handlers are synchronous and the event loop runs one at a time, so `job`
holds the locals of the one command in flight. One action is one effect on
disk: `StoreObject`, `AppendLine`, `ApplyWrite`/`ApplyDelete`/`ApplyMove`,
`RenameHistory`, `UnlinkLog`, and so on. Each can fail where the code can
(`*Fails`), with the handler's own answer. `Crash` may fall between any two,
`ShortWrite` is a partial `os.write`, and `ExternalChange` is another process;
`disturbed` counts these two, which the undo properties make no promise after.
`Contents` stands for byte strings and their hashes. A version line keeps its
hash, id and timestamp. The requested edit (`fs.patch` hunks) is abstracted to
the bytes it yields. A crash keeps what was written; the loss of renames in a
power failure is not modelled.

### GatewayClient

`phase[r]` is where role r's `run()` is. From `start` it goes through `sent`
(connect request out) and the writes of token files (`own`, `sibling`), or
`pending`, to `drain` (node only) and `serving`. `failing` and `sleep` are the
except branch. `mem` and `file` are `_device_token` and
`device-token.<role>`. `pairing` is the `PairingMachine`, `backoff` the
rate-limit delay, and `runtime` what `NodeRuntime` shows. Both clients are
tasks of one loop, so only one can be between two token writes (`busy`), while
a crash may still fall there (`Restart`). `ans` is the connect response and
afterwards the exception.

External: the gateway's record of the device, modelled from what the client and
`docs/operations/LESSONS.md` rely on. A connect with the pairing token files a
request. After approval each role may redeem the pairing token once. An answer
to a role in `Seeds` carries both tokens; both roles are in it, as
`_PERSISTABLE_SIBLING_ROLES` allows. Removing the device (`Evict`) closes
its connections. The model assumes that a pairing token is configured, that
sleeps end, and that a delay the gateway gives is only a delay.

### NodeInvokes

`node` is where the client's task is: pulling, going through what it pulled,
running a handler, waiting for the answer to an acknowledgement, or in its event
loop. `up` and `down` are the frames on the connection. `ReadAck` takes one
frame, whatever it is, and `AwaitDrops` drops what is not the awaited answer, as
`_ack_pending` and `_await_res` do. `Dispatch` resolves the caller as
`active_caller` does, over raw and canonical keys in lower case. What a handler
does is a name here; its parameters and permissions are `Allowed`.

External: the gateway keeps an invoke until it is acknowledged or, if it was
sent live, until its result arrives, and queues what is open when the
connection is lost. The comment at `gateway_ws.py:1178` relies on just that.

### HaCommands

A handler checks parameters, passes the gate or does not have one, checks more
parameters, and makes requests one after another. So each handler is a record
(`handle_ha_history`, `lovelace_save`, ...) and `Step` runs any of them.
Everything before the first request is one action, because it contains no
await. A request can be answered, fail, time out or raise, by transport
(`ha_get`, ..., `supervisor_post_json`). A frame of `ha_ws_call` has a type, and
the payload is merged over it. So the handlers that pass the caller's `attrs` on
are marked `Merged`, `AttrsType` gives what the `attrs` of a parameter name, and
`Frame` is the command the frame really asks for. `flying` holds the writes Home
Assistant may still carry out, `done` those it has. A marker is a record with
the binding and the expiry; `used` is `_USED_IDS`, which `Pruned` prunes and
`Restart` forgets. Two calls can be in progress, one from the gateway
connection and one from the HTTP API. Home Assistant, the plugin that mints
markers and the clock are external. The clock does not step back.

### ExecApprovals and PolicyRegister

Writers are processes, and an action is one of their system calls. `lock` is
the inode at the lock file's path, so that replacing the file under a waiting
writer (`SwapLock`) is visible. `exposed` records the one case the docstring of
`_approvals_write_lock` excepts, a swap while a writer is past its check. The
abstract register has one document and one step per accepted set. The mapping
takes the document itself and, of each writer, the request it has not committed
yet (`Pending`).

### SystemRun

`Prepare` makes a plan, `Approve` is the operator, `Forward` is the gateway with
anything in the forward, and `Retarget` changes what the directory's name
resolves to. `proc` is the child, its descendants inside or outside its process
group (`LeaveGroup`: `setsid` or `setpgid`) and who holds the pipes. A
descendant does not rejoin the group. The deadline is two steps, as in the code:
`TimesOut` finds the child running (`poll`), `KillGroup` signals the group
(`killpg`), and the processes may act in between. The handler is synchronous and
blocks the event loop, so one run at a time is what the program has. Its
definitions bear the prefix `Run` (`RunInit`, `RunNext`, `RunSpec`, `RunTypeOK`)
where `ExecApprovals` has the same name, so that one module of proofs can extend
both.

### Bootstrap

`disk` is the token file and the two markers, `node` the runtime, `busy` a
handler between two writes. The handlers do not await, so nothing else runs in
between, but the node may die there (`Crash`). A config flow waits for a moment,
repeats the claim once and gives up; its requests and their replies may arrive
at any time. `served` (each time a token was served: in which run, and whether
the marker could be written), `given` and `retired` record what happened and
guard nothing.

### Vision

A request is its HTTP handler (`caller`) and the task it awaits (`task`). A
cancellation is noted first (`cancel`) and raised when the task runs again,
which is where the races are. `overtaken` records which requests were still
running when a later one began and is not in the code. Errors are not told
apart.

## 3. Runs

| Run | Instance | Distinct states | Checks |
|---|---|---|---|
| `relay_turns` | any two of two stream turns and a relay turn of one conversation, two of them without an agent of their own; fairness | 499,666 | `TypeOK`, `NothingStranded`, `RegistryExact`, `OwnedUnlessRobbed`, `ReplyFromOwnRun`, `NoLostReply`, `ImplementsService`, `TurnEnds` |
| `relay_abandoned` | two stream turns of one conversation | violated | `CaptureStateOwned`, see section 4 |
| `files` | two files, one with a second spelling over the name limit; two contents; crashes, I/O errors, a short append or another writer | 2,308,344 | `TypeOK`, `NoDanglingVersion`, `LastVersionUndoes`, `HistoryNeverLost`, `OverwritesOnlyCaptured` |
| `gateway_pairing` | two pairings, either answer carrying both tokens; three closes, clean closes, lost answers, refusals or crashes; fairness | 210,007 | `TypeOK`, `TokensKeptApart`, `StatusTruthful`, `ServingIsDurable`, `LostToStaleRejectionOnly`, `SelfHeals` |
| `gateway_seeds` | the same | violated | `ValidTokenKept`, see section 4 |
| `invokes` | three invokes, one malformed, one from a turn; two turns whose keys meet; fairness | 261,392 | `TypeOK`, `RetiredMeansAnswered`, `OwnAuthority`, `PulledIsAnswered` |
| `ha_commands` | each command twice, lifecycle commands next to `ha.addon_stop`; one marker, two parameters, the `attrs` of one naming a removal, five callers, a restart | 2,295,326 | `TypeOK`, `ApprovalSpentOnce`, `EffectsAuthorised`, `AnswersTrue` |
| `exec_cas` | two writers, two attempts at the lock; crashes, I/O errors, lock swaps; fairness | 259,808 | `WritersExclude`, `EchoKeepsSocket`, `EverySetAnswered`, `ImplementsRegister` |
| `exec_blind` | the same with reads that fail | violated | `ImplementsRegister`, see section 4 |
| `system_run` | two plans, two argument vectors that read the same, a directory name that changes its target; fairness | 565,110 | `RunTypeOK`, `RunsApprovedPlan`, `AnswerTrue`, `EveryForwardAnswered` |
| `bootstrap` | two config flows, three tokens, three starts, every write can fail | 1,648,056 | `TypeOK`, `StoredTokenWorks`, `HandedOverOnce` |
| `vision` | three requests for one source or none, fairness | 614,325 | `NewestWins`, `EveryCallerAnswered` |

What they show:

- `NothingStranded`, `RegistryExact`, `OwnedUnlessRobbed`: every exit of a turn
  removes what it installed. Nobody else's exit does, with one exception: the
  late close of an abandoned stream (`relay_abandoned`) can take the next turn's
  queue. `NoLostReply` has the same exception.
- `ReplyFromOwnRun`, `NoLostReply`, `ImplementsService`: whatever trailers
  earlier runs send, a stream turn with a tagged ack shows its own text. A
  final reply handled after the ack stays with the turn, also before its
  coroutine resumes. A caller is given one reply at most, however often frames
  repeat it, nothing once it is gone, and a disconnect never looks like a
  finished turn.
- `TurnEnds`: no lock, future, queue or finaliser waits for ever.
- `NoDanglingVersion`, `HistoryNeverLost`: bodies are stored before lines, and
  `rename_history` rewrites one log before it unlinks the other, a crash between
  the two included.
- `LastVersionUndoes`, `OverwritesOnlyCaptured`: until the first short write or
  change by another process, `fs.restore version=-1` gives back exactly what a
  command replaced.
- `TokensKeptApart`, `ServingIsDurable`, `StatusTruthful`, `SelfHeals`: the
  pairing promises of section 1. `LostToStaleRejectionOnly`: an accepted token
  file is never overwritten, and one step only can remove it, the one
  `gateway_seeds` shows.
- `RetiredMeansAnswered`, `PulledIsAnswered`: an acknowledgement follows the
  result on the same connection, and neither a malformed action nor a missing or
  unexpected answer to an acknowledgement ends the drain.
- `OwnAuthority`: an invoke with a hint never runs as the operator, nor as
  another turn while its own is active, although the two turns' keys meet when
  the gateway's name for one is the other's raw key.
- `ApprovalSpentOnce`, `EffectsAuthorised`, `AnswersTrue`: pruning used ids
  never makes a marker good again, what Home Assistant carries out late is still
  covered by its approval, and a lifecycle call whose outcome is unknown says so.
  `EffectsAuthorised` goes by what the frame asks for. A marker covers a call with
  its `attrs`. Without one a destructive frame is sent only if an exempt admin's
  `attrs` name it (section 4).
- `ImplementsRegister`: any number of swaps of the lock file while writers wait
  for it, crashes and failing writes leave sets that look atomic.
  `WritersExclude` is the reason, `EchoKeepsSocket` is what the merge of the
  hidden socket is for, and `EverySetAnswered` shows that starting over ends.
- `RunsApprovedPlan`: key by key, also when the directory's name leads elsewhere
  by the time of the run. `AnswerTrue`, `EveryForwardAnswered`: a reported timeout
  leaves nothing of the child's process group, a child that was killed is never
  reported otherwise, success is the child's own exit, and descendants that keep
  the pipes do not block the answer. A child that exits between the poll and the
  kill may be reported as timed out (section 4).
- `StoredTokenWorks`, `HandedOverOnce`: whatever dies, fails or comes late
  between serving, rotating, marking and answering. `HandedOverOnce` has two
  parts. `ServedOnce`: a token is served once per run of the node, and again
  after a restart only if the marker could not be written. `RetriesAgree`: a
  claim with the token this run served, once answered, is answered again alike
  and never refused.
- `NewestWins`, `EveryCallerAnswered`: a caller's own cancellation is never
  mistaken for a replacement, and a request cleans up only after itself.

**Bounds.** Two calls of one conversation (`MaxCalls`) give every pair of an
earlier and a later run that the filters are about, of either kind; relations
between sessions are covered by the proofs. Two files whose logs have up to
one line when a command starts (`MaxVersions`) allow a move of a
file with a history onto a file that has one, so `rename_history` merges two logs,
with a crash at each of its steps and a further command after the crash. A command
in flight finishes, so logs grow to four lines; the name over the limit belongs to
the third path, which cannot be captured. One short write or foreign change
(`MaxDisturbed`) may fall anywhere; the clock (`MaxTime`) moves once. Two pairings
(`MaxGen`) are what an eviction with a stale token needs. Three upsets
(`MaxUpsets`) allow, for example, a lost answer, a crash and a close in one
pairing. Invokes, turns and tokens are used once each: three invokes are one
malformed, one of a turn and one of the operator, in any order. In `HaCommands`
two calls compete for one marker; `TTL` = 1 and `MaxNow` = 2 put the clock
before, at and after its expiry. `Inodes` has one number more than there are
writers, enough for each to wait for a file of its own while a new one appears;
two `Attempts` (the code has five) give one that starts over
and one that gives up. `MaxPlans` = 2 lets a forward name the other plan. Three
tokens (`MaxTokens`) are the first one and two rotations; three starts
(`MaxBoots`) let the node die before and after each. Three requests
(`MaxRequests`) let a third find what the second left in the registry.

**Deadlock** is checked except in the runs of `GatewayClient`, `HaCommands`,
`Bootstrap` and `Vision`. In these a fixed number of pairings, calls, flows or
requests is used up, and then nothing more happens. In `ChatRelay` the ended
state stutters (`Finished`).

**Fairness.** `ChatRelay`: each turn's own steps and the inventory task are
weakly fair, since the loop runs every ready task and each await has a timeout. A
write returns or fails, because the client reads or its connection ends, and the
loop closes dropped generators. `DeadlineReturns` is strongly fair: progress lines
may be yielded again and again, but the deadline is looked at after each of them.
Nothing is assumed of the gateway. `GatewayClient`: each client's steps are
weakly fair for the same reason. The gateway answers a connect and ends a
pending connection sooner or later, and the user approves. The last two are
assumptions about the environment: `_await_approval` (`gateway_ws.py:954`) has
no timeout of its own. `NodeInvokes`: the client's task and the gateway keep
going, and handlers return; the connection need never be made. `ExecApprovals`:
each writer's steps are weakly fair; `Flock` is strongly fair, since `flock(2)`
serves its waiters, while another writer may take the lock again and again.
`SystemRun`: the handler's steps are weakly fair, nothing is assumed of the
command. `Vision`: each request's steps are weakly fair, since the loop runs
what is ready, the deadline passes, and a send ends because the keepalive closes
a dead connection. Nothing is assumed of the gateway.

`SelfHeals` has two premises, which are limits of the protocol and not of the
model. If an answer that redeemed the pairing token is lost, nobody holds the
token (`Recoverable`). And a node that was let in by `connect.approved` has no
device token until it reconnects, so the operator waits for that.

## 4. Where the code disagrees with its text

Three runs state what the repository says and are violated by what it does:

- `relay_abandoned`: `_stream_turn_locked` is the "Inner streaming turn under the
  per-session lock" (`chat_relay.py:568`), but after a failed write its `finally`
  runs when the lock is already free (section 2), and pops `_delta_queues` by key
  (`:828`). The queue may be that of the next turn, which then gets no reply and
  waits for its deadline.
- `gateway_seeds`: "If the persisted device_token was rejected, fall back to
  pairing_token" (`gateway_ws.py:516`). The file is removed as it is when the
  rejection is handled (`:546`). The operator's answer may have renewed it with a
  token that was not rejected, and the pairing token is used up by then.
- `exec_blind`: `_read_snapshot` treats every `OSError` as a missing document
  (`exec_approvals.py:417`). A set without `baseHash` then replaces a policy that
  exists and that its caller never saw. `docs/reference/COMMAND-COVERAGE.md:4245`
  requires a matching base hash "whenever the document exists".

The following were met while modelling. They are not runs of their own.

Relay, files and connections:

- At the deadline of a stream turn `{"done": true}` is written although the run
  has not finished (`chat_relay.py:757`); `http_api.py:646` says "once the run
  finishes cleanly".
- A relay turn takes the previous run's `session.message` without a run id as
  its reply (`chat_relay.py:1705`); the docstring at `:1374` says that stale
  events are filtered.
- The turn lock uses the raw key, the capture state the canonical one
  (`chat_relay.py:469`, `:482`), so two raw keys of one session defeat it.
- `_rpc` forgets its pending entry on `except Exception` (`chat_relay.py:1242`),
  which a `CancelledError` during the send is not. The entry stays until the
  connection ends. Nobody reads it.
- A short `os.write` to a version log counts as a capture and makes the log
  unreadable from there on (`backup_store.py:352`).
- After a merge of logs, `at` selects by log order and not by time
  (`backup_store.py:648`, docstring at `:605`).
- An `OSError` from `rename_history` fails a move that has happened
  (`fs_move_delete.py:358`, comment at `:353`).
- `backup_store.py:54` counts 250 + 6 as "safely below" 255, so a path whose
  encoded name has exactly 250 characters cannot be captured.
- Two spellings that resolve to one file have two logs (`backup_store.py:430`).
- Between the read that is captured and the replace (`fs_write.py:313`) another
  process's change is lost; the code takes no lock against it.
- A reply that arrives before the `chat.send` ack is dropped
  (`chat_relay.py:1666`), and the turn waits for its deadline.
- A device token whose first write fails is in memory already and is never
  written (`gateway_ws.py:804`); `docs/operations/LESSONS.md:80` says that the
  node must persist it.
- `run()` is documented to use a fixed delay and to exit on a fatal error
  (`gateway_ws.py:463`). After a clean close it reconnects at once, the pairing
  state unchanged, and it never exits.
- `PAIRING_REQUIRED` is listed among the rejections that drop a token
  (`gateway_ws.py:519`), but it never becomes an exception.

Commands:

- Used marker ids are in memory, so a marker can be spent again after a restart
  while it is good (`config_mutation.py:29`). Checks that come after the gate in
  `ha.config.*` spend the approval of a call they refuse.
- A lifecycle command whose POST succeeded and whose next read fails with an
  `HAClientError` answers with a plain error (`ha.py:1396`), although the action
  has happened. `AnswersTrue` promises something for timeouts only.
- `ha_ws_call` sets the frame's type and then merges the payload over it
  (`ha_client.py:264`). The helper create and update
  (`ha_config_helpers.py:119`, `:168`) and the entity, area and device updates
  (`ha_config_entity_registry.py:122`, `ha_config_area_registry.py:94`, `:112`,
  `ha_config_device_registry.py:99`) put the caller's `attrs` there unchecked. The
  gate goes by the command, so the update of an exempt admin can be sent as a
  removal without approval; `approval_policy.py:19` says of the destructive ones
  "Always needs approval, for every caller". `EffectsAuthorised` names the
  exception.
- `system.run` does not compare the policy snapshot again and does not make a
  run id single-use. If the node dies, the command goes on.
- A child that exits by itself between `poll()` (`system_run.py:416`) and
  `killpg` (`:420`) is reported as timed out and failed. `killpg` reaches the
  process group; the comment at `:417` speaks of "the whole session". A descendant
  that called `setpgid` or `setsid` lives on.

Bootstrap:

- `docs/security-notes.md:39` says that after a failed write of the marker "the
  token cannot be served twice". It can after a restart: `ServedOnce` promises
  once per run, and once between two resets only for a serving whose marker could
  be written.
- A claim is documented as idempotent within a runtime (`http_api.py:1110`,
  `docs/security-notes.md:59`). That holds for the token this run served
  (`RetriesAgree`). After a restart the token of the run before is accepted as the
  API's own and rotated, but it is not remembered as claimed, so if the answer is
  lost the repeated claim gets 403.
- `__main__.py:530` warns that the API will be open when no token can be
  written; the middleware refuses everything.
- Opening the config flow after a reset claims, and so rotates, the token, also
  if the user then cancels. The entry in use stops working, hence the premise
  `retired` of `StoredTokenWorks`.
- A token file that cannot be read at the start is replaced
  (`token_store.py:99`). If the node dies between the rotation and its answer,
  the integration has no token until `reset_bootstrap`.

Camera descriptions:

- A caller that is cancelled after its request was superseded ends with
  `SUPERSEDED`: the cancellation is swallowed (`vision.py:303`).

## 5. Proofs

All theorems hold for every value of the constants that satisfies the modules'
named assumptions (`TurnsAssumption`, `PathAssumption`, `TokenAssumption`,
`DocumentAssumption`, `ConstantAssumption`, ...). These say that functions have
their domains, that sentinels differ from data and, in `NodeInvokes`, that the
turns are finitely many. The bounds are arbitrary naturals. What a theorem
needs beyond that is a named hypothesis in its statement:

| Hypothesis | Says | Theorems | Why it is needed |
|---|---|---|---|
| `KeysDistinct` | canonical keys of distinct raw keys differ | `Ownership`, `OwnReply`, `NothingLost` | locks go by the raw key, capture state by the canonical one (section 4); without it the results hold for the turns in `Unshared` |
| `Reliable` | reads of the policy do not fail | `EchoKept`, `Refinement` | `exec_blind` (section 4) |

`relay_turns` and `exec_cas` are instances that satisfy the hypotheses.

**ChatRelayProofs.** `TypeCorrect`, one lemma per action. `Registry`
(`RegistryExact`) needs `LocksShared`: while the connection lives no lock comes
from a second dict. `NoStranding` (`NothingStranded`) needs `PathInv`: a stream
turn never waits for a reply event. The results about replies rest on
`ReplyInv`, an invariant of every instance. For the turns in `Unshared` it adds
`RunIdInv` (the session's run id is the sentinel until the ack, then what the
ack carried), `RunOrderInv` (the session's other runs are older than the turn's
own, and quiet once an event of its own was seen) and `EmptyBeforeAck` (no text
is queued before the ack). Without these a trailer of an earlier run could be
queued in a state the invariant allows. `Exclusive` says that the turn lock
keeps all other turns out of an unshared session, `OwnershipUnshared` that
nothing takes the turn's reply event and only the late close of an abandoned
stream its queue (`robbed`), and `OwnReplyUnshared` that it shows no other run's
text. None has a hypothesis: turns that do share a session cannot disturb those
that do not. When all canonical keys differ every turn is unshared
(`AllUnshared`), which gives `Ownership` (`OwnedUnlessRobbed`) and `OwnReply`
(`ReplyFromOwnRun`).

`CleanClose` (`CleanCloseHasReply`) needs no hypothesis: `ClosedByReply` says
that a close stands in a queue only behind a text or after one was handed over.
`NothingLostUnshared`, and from it `NothingLost` (`NoLostReply`), add `KeptInv`
to `ReplyInv`. An error is queued only after the connection is lost
(`ErrorsAfterReset`), a final reply counts only after the ack (`FinalAfterAck`),
and from then on it is in the queue or handed over unless the stream was
`robbed` (`StreamKept`), or is the captured text with its event set
(`RelayKept`), also while the coroutine has not resumed.

`Implements` (`ImplementsService`) is the refinement of `RelayService`, again
without a hypothesis. `Shaped` lists all a queue can hold beside what its
consumer has been given: nothing, an error, one reply with its close, or that
close alone. So a reply that the gateway sends as an event and again as a
`session.message` is handed over once: `given` is a sequence, and a second
`Yield` of the same reply would be no step of the service. A first step of a
turn maps to `Call`, an ack with a run id to `Identify`, a text taken from the
queue to `Yield`, every exit to `End` (a relay turn's with the reply), and the
rest stutters.

**FileBackupsProofs.** `TypeCorrect` and `NoDangling` (`NoDanglingVersion`)
from `IInv`, whose part `JobOK` says what the handler's locals hold at each
point, above all that a line is appended only while its body is stored.
`LogsNeverLost` (`HistoryNeverLost`) adds `MergeOK`: before the source log is
unlinked, the destination's log begins with it. `Reversible`
(`LastVersionUndoes`) and `CapturedFirst` (`OverwritesOnlyCaptured`) add `Undo`,
which holds as long as `disturbed` is 0, for any paths and spellings.
From the read to the mutation the bytes in hand are those on disk, and once
captured they head their log (`InHand`). After the mutation the replaced bytes
head the log from which they would be restored, also after a move has merged
two logs (`Replaced`). No log is broken (`Whole`).

**GatewayClientProofs.** `TypeCorrect`, `Apart` (`TokensKeptApart`), `Truthful`
(`StatusTruthful`) and, when token files can be written, `Durable`
(`ServingIsDurable`) from `IInv`. `RoleOK` follows a token from the gateway's
record through the answer into memory and file. `ShownOK` ties the pairing
state shown to the node's phase. `KeptOK` says that only a client about to
write holds a token without a file. `LostOnlyLate` (`LostToStaleRejectionOnly`)
holds whichever answers carry both tokens. `PromiseOK` says that the tokens in an
answer stay the accepted ones while the client acts on it; `RejectOK` that,
without operator answers that carry the node's token, the file a rejection would
remove holds the rejected token; `StaleOK` that a rejected token still in memory
is not accepted; and `FreshOK` that the tokens of a new pairing are new, without
which an old token in memory could be accepted again.

**VisionProofs.** `TypeCorrect` and `Newest` (`NewestWins`), for any number of
requests and sources, from `IInv`. `Known` says that a running request is in
flight or superseded, `Named` that the registry names unanswered requests of
their source, and `Marked` that the superseded requests are the overtaken ones
without an answer, all of them told to stop. Without `Named` an exit could
remove a registry entry that is not its own.

**ExecApprovalsProofs.** `TypeCorrect` and `Exclusion` (`WritersExclude`) from
`IInv`. Two writers never hold one inode (`OneHolder`), and a writer past its
check holds the inode the path names (`Guarded`) until the lock is swapped under
it. `RInv` adds `Staged`: what a writer has staged was merged with the document
it read, which its `baseHash` names if it has one; that document is the one on
disk, unless the lock was swapped under the writer (`exposed`) or the read
failed and a set without `baseHash` took the document for missing.
`HashedCompare` (`HashedSetsCompare`) follows for every instance, failing reads
included: unless `exposed`, a set that names a document replaces that document
and no other, and keeps its hidden socket. `EchoKept` (`EchoKeepsSocket`) and
`Refinement` (`ImplementsRegister`) need `Reliable` as well. In the refinement
`Set` asks, `Replace` commits, and every other action stutters or gives up a
pending request.

The same module proves three theorems about `SystemRun`: `RunTypeCorrect`
(`RunTypeOK`), `ApprovedOnly` (`RunsApprovedPlan`) and
`AnsweredTruly` (`AnswerTrue`), from `RunInv`. `MatchIsEqual` is what approval
rests on: a plan that matches leaves no key open, so it is the command. For the
answer, the handler's place in the code tells what has become of the child
(`Running`, `Started`, `Draining`, `Settled`, `Over`), and `Moves` is all the
command's processes can do to that, between the poll and the kill as well: a
child that is gone starts nothing, and nobody enters the process group again.

**NodeInvokesProofs.** `TypeCorrect` and `NothingLetGo`
(`RetiredMeansAnswered`) from `IInv`. `ResultFirst` says that on the wire an
acknowledgement stands behind its result; `FromGateway` that only what the
gateway has is in the node's hands. `OwnCaller` (`OwnAuthority`) is an action
property and needs `Traced`: while an invoke's turn is active its canonical key
is recorded. So the turn is then among those the hint names, and `ActiveCaller`
takes a turn only when it is the one named.

**HaCommandsProofs.** `TypeCorrect`, `SpentOnce` (`ApprovalSpentOnce`),
`Authorised` (`EffectsAuthorised`) and `Truth` (`AnswersTrue`) from `IInv`. The
lemma `Scripted` goes through every handler's script once and states what they
have in common (`WellFormed`, `TellsUnknown`); the steps use only that. `Sent`
ties the writes with Home Assistant to where the call is in its script.
`LetThrough` keeps the marker that let a call through bound to it, or the
exemption. No destructive command is exempt (`DestructiveNeverExempt`), so what
the frame of an exempt call asks for is destructive only by its `attrs`.
`Remembered` is why pruning is harmless: a marker spent since the start is
remembered or has expired.

**BootstrapProofs.** `TypeCorrect`, `StoredWorks` (`StoredTokenWorks`) and
`HandedOver` (`HandedOverOnce`) from `IInv`. `Exchange` says which token is on
disk at each point of a claim, `Counted` that no run serves twice and a serving
whose marker was written is the last, and `ClaimsWork` that what a claim answers
with works, wherever the answer has got to. `Fresh` says that what a rotation
makes was never handed out, so no late claim can bear it. The part on retries of
`HandedOverOnce` is `RepeatsAlike`: by `Exchange` every answer given in this run
is the token the run rotated to, and a repeated claim is answered with that.

## 6. Only model-checked

- `TurnEnds`, `SelfHeals`, `PulledIsAnswered`, `EverySetAnswered`,
  `EveryForwardAnswered` and `EveryCallerAnswered`: liveness under fairness is
  outside the prover.
- The three violations of section 4 are counterexamples of TLC. What is proved
  of the same code bounds them. `HashedCompare`: the sets that carry a `baseHash`
  still compare and swap when reads fail. `Ownership` and `LostOnlyLate`: the step
  each trace ends with is the only one that does such harm.
- For turns that reach one session by different raw keys, `TypeCorrect`,
  `Registry`, `NoStranding`, `CleanClose` and `Implements` hold; that they keep
  their capture state and replies is false of the code (section 4).

Every other property of a run is proved. `CleanCloseHasReply` of `ChatRelay`,
`HashedSetsCompare` and `TypeOK` of `ExecApprovals`, and `TypeOK` of `Vision` are
proved without being in a run.

## 7. Plan

1. Done: the modules of section 2 and the proofs of section 5.
2. The plugin's session grants and the lazily loaded policy, composed with the
   node's markers.
3. `reset_pairing` and the migration of the legacy token file in
   `GatewayClient`.
4. Authorization rules as operators checked against a reference definition.

## 8. Not modelled

- `identity.py`: key generation and signing. `authz.py`, `safe_path.py`: pure
  decisions; a verdict is a parameter of the models (`Allowed`, `Refused`).
- The plugin's grants and tool descriptors. A marker is minted by an external
  action.
- Tool-progress and approval lines, keepalives and logging of the relay;
  `recently_ended`, which chooses between `REQUEST_EXPIRED` and
  `PERMISSION_DENIED` for an invoke that is refused anyway
  (`docs/STATUS.md:90`).
- YAML validation, diff matching, ETags and size limits of the file commands: a
  request they refuse changes nothing (`Refused`). `fs.read`, `fs.list`,
  `fs.stat`, `fs.glob`, `fs.history`, `fs.diff`, `ping` and `system.which` keep
  no state. The approval marker of `fs.*` commands goes through the same
  `consume_approval_marker`, but `FileBackups` does not have it.
- Of the HA commands, what is in a request or a reply. A call names one item by
  its parameters, and its `attrs` are modelled only by the frame they name. That
  an update's `attrs` could name another item is refused by
  `ha_config_helpers.py:157`; the registry updates merge `attrs` without that
  check (`ha_config_entity_registry.py:122`). `ha_ws_call` has no timeout of its
  own after the upgrade, so "timeout" may stand for a wait without end there.
- The status and health endpoints of the HTTP API and the integration's
  conversation entity.
- Tests, docs, scripts and CI.

## 9. Running

```
tlc -workers 2 -config ChatRelay_turns.cfg MCChatRelay
tlapm GatewayClientProofs.tla
```
