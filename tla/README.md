# A TLA+ model of the WeChat agent bridge

The repository connects WeCom chats to an agent that operates the user's computer.
This directory holds TLA+ modules of its parts, the TLC configurations that check them on
small instances, and TLAPS proofs about them for every value of the constants. Paths below
are relative to `wechat-aibot-bridge/src/wechat_agent/` unless they begin with `scripts/` or
`wechat-gui-bridge/`, which are directories of the repository.

Run, in this directory, for example:

    tlc -workers 2 -config TaskLifecycle.cfg MCTaskLifecycle.tla
    tlapm TaskLifecycle_proofs.tla

`PROJECT.json` maps every definition to the lines it models, and lists the runs, a mutant for
each property, the hazards and the theorems. A definition under a comment `FAULT:` is not part of
the specification: it is a plausible bug that a property of a run has to notice.

## 1. Inventory

| Part | State | Operations | What is hard | What makes it correct | Model |
|---|---|---|---|---|---|
| `MessageProcessor` (`application.py`) | accepted tasks, one lock per chat, chats being ended, recent message ids | handle, cancel_task, stop_chat_session, end_chat_session, close | a task is two coroutines; cancellation lands at any await; time-outs; lost streams | every message gets one terminal event and one end of its stream; nothing runs while a chat is ended | `TaskLifecycle`, `HarnessTurn` |
| `DeepSeekHarnessBackend` (`adapters/deepseek_harness.py`) | one runtime for all chats, its nonce, active task, stop flags, history offsets, one executor thread | reply, stop_session, stop_task, end_session, dispatch authorisation, tool calls | a run cannot be cancelled, only its runtime closed; closers are threads; stops race results | turns are served one at a time; a stopped turn is not answered; approvals die with their runtime | `HarnessTurn`, `SessionMemory` |
| `HarnessSessionRegistry` (`session_registry.py`) | generation and state of each chat, in a file | begin, finish, rotate | crash between begin and finish; a file that cannot be read | "running" only while a turn is in flight; an interrupted generation is not resumed | `HarnessTurn`, `SessionMemory` |
| `ConfirmationCoordinator` (`confirmations.py`) | rows in SQLite, futures in memory | request, decide, cancel_task | decision, timer and cancellation race, in two stores and two threads | an approval is the user's; a refusal stops the run | `Confirmation` |
| `FileDeliverySession` (`file_delivery.py`) | receipts in memory, in the journal and in the console's table | send, resend | time-out, cancellation, crash around a send whose outcome is unknown | no file is sent twice for one task; "sent" is true | `FileDelivery` |
| `ConversationJournal`, history recovery | facts, epochs, summaries | append, context, end, save_checkpoint | a summary takes long; the native session of the runtime may know the same facts or not | a run knows all of its epoch and nothing of another | `SessionMemory` |
| Control commands (`admin/store.py`, `control_worker.py`, `admin/runtime_worker.py`) | a table of leased commands; request and response files | enqueue, claim, complete, release, dispatch | two processes, leases that expire, batches, restarts | a command is executed by one worker at a time and completed once | `CommandQueue` |
| Task projection (`admin/task_lifecycle.py`, `admin/store.py`) | a status per task | record_event, enqueue_task_cancel, reconcile | events late or out of order | a terminal status is final; an active one has a handler | `TaskStates`, `TaskLifecycle` |
| Connections (`admin/store.py`, `admin/connection_probe.py`) | rows with credentials and versions, the selected one, the pending switch | create, edit, delete, probe, activate, confirm, roll back, import | edits during a probe; restarts that fail; events of an old process | a switch is confirmed or undone, with the credentials that were probed | `ConnectionSwitch` |
| Local Supervisor (`scripts/LocalSupervisor.ps1`) | requests, processing and response files, state file, process ids | start, stop, restart, emergency stop, shutdown, recovery | its own crash between any two effects; process ids that are reused | one started bridge, recorded; only its own bridge is killed; every request answered | `LocalSupervisor` |
| GUI bridge (`wechat-gui-bridge/bridge.py`) | three bounded caches, a window that its user shares | read, answer, send | misreading, eviction, a user who switches chats between check and paste | no message answered twice, none of its own answered, the right chat | `GuiBridge` |
| Execution policy, delivery broker | tokens, the channel of each task | authorise, deliver, confirm over HTTP | a thread gives up while its coroutine goes on | as for confirmations and deliveries | choices and threads in `HarnessTurn`, `Confirmation`, `FileDelivery` |
| Unified backend, Spring chat adapter | none | route, control commands | - | - | the control commands in `TaskLifecycle` |
| Configuration revisions, users, audit | tables | draft, publish, roll back, login | - | compare-and-set in single transactions | not modelled |
| Admin API, settings, logging | - | one transaction per handler, mostly | probe and activation in two | - | the exceptions, in `ConnectionSwitch` |
| Desktop tools, Spring service, admin pages | - | - | input, output and formatting | - | not modelled |

How they interact. `WeComChannel` calls `MessageProcessor.handle` for each message.
`handle` creates a *work* coroutine; that creates a *reply* coroutine in the backend; that
gives a *job* to the backend's executor thread. The job runs the agent, whose tools call
back over HTTP on further threads (`DeliveryBroker`): to authorise a dispatch, ask the user,
deliver a file. Stops come from the chat, from the admin console through the command table,
and from shutdown. Every part records events in the admin store, which projects them to task
states. The console's restarts go from the command table through the admin process's worker to the
Local Supervisor, which is a process of its own and talks in files; the bridge reads its
connection from the store when it boots.

## 2. How the modules fit

    TaskLifecycle ---- one message, its handler, the console, the restart     (EXTENDS TaskStates)
      HarnessTurn ---- one turn inside the backend            refines  TurnService
        Confirmation -- a tool call that asks the user                        (EXTENDS TaskStates)
        FileDelivery -- a tool call, or the reply, that sends files
        SessionMemory - what the turn's run is told
    CommandQueue ----- the leases of commands                 refines  CommandLedger
    ConnectionSwitch - probe, switch, restart, boot, confirm or undo
    LocalSupervisor -- the process that a restart command reaches
    GuiBridge -------- a second, independent front end                    (EXTENDS GuiPromises)

Each module describes the steps of its own part in full and those of its neighbours by what
they may do to it: `TaskLifecycle` lets a reply take any time and end in any way, which is what
`HarnessTurn` details; `ConnectionSwitch` lets a restart succeed, fail or time out, which is
what `CommandQueue` and `LocalSupervisor` detail. `TurnService` and `CommandLedger` are the
abstract promises, checked as refinements and proved. `TaskStates` is the table of statuses,
used by the two modules that project events; `GuiPromises` has the properties of `GuiBridge`, apart from the
machine, so that a run and a proof name the same ones.

Every module is a state machine with one action per operation, handler or stretch of a coroutine
between two awaits; a store transaction is one step. The `MC*` modules name the model values.
`TypeOK` in each module, except the two abstract ones, is its type invariant, and it is proved.

### Plan

Done: everything above. Every safety property that a run checks is proved for all values of the
constants; what is left to TLC is liveness (section 13).

## 3. The runs

| Run | Instance | Properties |
|---|---|---|
| `harness_two_sessions` | tasks a1, b1 in two chats, lost streams and stops, `FairSpec` | `RegistryMarksLiveTurn`, `RunReachable`, `DrainedUnlessAbortCut`, `EveryTurnEnds` |
| `harness_same_session` | a1, a2 in one chat, stops; a1's run asks for dispatches, whose threads may give up | `ApprovalReachesItsRun`, `RefusedRunLosesRuntime`, `ImplementsTurnService` |
| `claim_newer_task` | a1, a2 in one chat, time-outs | a violation of `NewerTaskNotStopped`, section 14 |
| `queue_bridge` | two Bridge commands, two Bridge lifetimes, lease 2 for a batch of two that take 1 each, one fault, `FairSpec` | `HeldUnlessStale`, `NoStaleCompletion`, `EveryCommandEnds` |
| `queue_service` | a service command, two admin lifetimes, a Bridge with the shorter lease, two faults, of which the Supervisor's crashes are some | `NothingLeasedAfterClose`, `OnceUnlessRacedOrCut`, `ImplementsCommandLedger` |
| `task_lifecycle` | two deliveries of up to two messages, recent ids of capacity 1, one console command, one fault, one restart, `FairSpec` | `AtMostOnce`, `ActiveAccounted`, `CancelConfirmed`, `StreamEnds`, `Undisturbed`, `TerminalFinal`, `EverythingSettles` |
| `confirmation` | two tasks, two requests, owner and guest, one end of the chat, one restart, `FairSpec` | `ApprovalGenuine`, `RefusalStops`, `WaitingShown`, `EveryRequestReturns` |
| `file_delivery` | two tool calls, two files, one resend whose lease runs out at most once, one restart, `FairSpec` | `SentOnce`, `ReceiptsTrue`, `SuccessDelivered`, `ReplySettles` |
| `session_memory` | four turns, a budget of four facts, two stops, one end, one failure of the registry's file, one restart | `HistoryComplete`, `HistoryOwn`, `SummaryStillValid` |
| `connection_switch` | the .env connection and another, two bot ids, two administrators, two edits, two switches, one fault | `SelectionConfirmed`, `ActivatedAsProbed`, `BridgeFollows` |
| `gui_bridge` | a contact, an unlisted chat with a similar name and a group whose name contains the contact's, two messages, two positions, caches of one entry, one misreading, one fault, one switch of chats | `NoEcho`, `AnsweredOnce`, `RightChat` |
| `local_supervisor` | two requests of any action, two process ids, two births of others, two faults, `FairSpec` | `Accounted`, `StopsMeant`, `EveryRequestAnswered` |

`CHECK_DEADLOCK FALSE` is set where the bounded system really stops: every message handled,
every switch used up, no Supervisor running.

## 4. HarnessTurn: a turn inside the backend

The task lane of `MessageProcessor` on top of `DeepSeekHarnessBackend`: one bridge process
without a restart.

| In the model | In the code |
|---|---|
| `work[t]` | where `_handle_task` / `_reply_with_progress` of the task is suspended: waiting for the chat's lock, for the reply, in the abort of its backend session, in `gather`, delivering, settled |
| `reply[t]`, `result[t]` | where `reply` / `_reply_impl` is suspended, and its result |
| `job[t]`, `jobNonce`, `jobHarness` | the executor's item `_run_sync`, the nonce it read and the harness it bound |
| `closer[c]`, `victim[c]` | a thread in `_close_runtime_sync`, by who awaits it: the turn itself, the abort of a task, the refusal of a dispatch |
| `harness`, `nonce`, `policySession`, `activeTask` | `_harness is not None`, `_runtime_nonce`, `_active_policy_session`, `_active_task_id` |
| `interrupts` | `_interrupt_requested_for` |
| `gen`, `regState`, `lease` | the registry file and the lease of a turn |
| `call` | the dispatch that holds `_policy_lock` |
| `hit`, `approvals` | history: turns that were told to stop; dispatches that were approved |

The coroutines share an event loop, so one action runs from one await to the next. Threads
interleave at `_runtime_guard`. `CancelReply` is the whole effect of `task.cancel()`: which
handler it lands in depends on where the reply is suspended, and a second cancellation leaves
that handler. Abstractions:

- cancelling a coroutine and its resumption are one step (nothing in between reads its state);
- `asyncio.Lock` is granted to any waiter, not to the first (more behaviours than the code);
- recovery of the history may always suspend; in the code it does only when it summarises;
- the harness is named by the nonce at its creation; nonces are counted instead of drawn;
- at most one dispatch is in progress (`_policy_lock` refuses the others), and it takes part in
  the stop through the request to the user; that request ends approved, refused, or dropped; while
  a refusal stops the run, its thread may give up after its 100 s (`DispatchGivesUp`) and answer with its exception;
- a run asks while the SDK call is on its way, and also after the call has raised: the child may go
  on working (the comment at `adapters/deepseek_harness.py:401`) as long as its runtime is there;
- one `Stop` per task (`_ManagedTask.stopping`), from whichever source.

No counter needs a bound: a task is submitted once and each actor starts a bounded number of
closers. Two tasks are enough for every pair of the interactions: a stale flag, closer, job or
registry mark is left by one task and met by the other. Two chats matter for what is shared
between chats (the runtime, the turn lock); one chat for what is per chat (flag, registry
record, session lock).

`GiveUps` says which of three things may happen in a run: a time-out and a lost stream differ for the
turn only in the outcome of the task, and a lost stream also lets the last progress update fail after the reply is
done; the third is the dispatch's thread that gives up.

Fairness: weak fairness of each coroutine step (the event loop runs what is ready), of the
executor and closer threads, and of the end of a run: the SDK's request has a time-out, after
which `harness.run` raises; a summary has one of 90 s; `close()` of the runtime is bounded by its
shutdown time-out. Nothing is assumed of users, time-outs or stops. The run with liveness has
no dispatches: a dispatch blocks its run for at most the bounded wait of `_confirm_from_tool`.

`ImplementsTurnService` says more than "a stopped turn is never answered" (`StoppedTurnNeverSucceeds`
in the module): it also excludes two turns in the operation at once. Therefore the run lists only
the refinement; the invariant is proved.

## 5. CommandQueue: leased commands

The table `control_commands` of `admin/store.py` and the two loops that lease its rows:
`AdminControlWorker` of the Bridge process (a batch of ten, executed in order) and
`SupervisorRuntimeCommandWorker` of the admin process (one service command, dispatched to the
Local Supervisor through a request and a response file).

| In the model | In the code |
|---|---|
| `status`, `owner`, `age`, `created` | columns `status`, `claimed_by`, now minus `claimed_at`, `created_at` |
| `phase[w]`, `current[w]`, `batch[w]` | where the `_run` / `_execute` / `dispatch` coroutine of a process lifetime is suspended; its command; the rest of its batch |
| `thread[w]` | the `asyncio.to_thread` call in flight: it survives the cancellation of the coroutine |
| `request`, `processing`, `response` | the files in `commands`, `processing` and `responses`; of the one in `processing`, how far the Supervisor got with it: claimed, executed well or badly, answered |
| `spent[w]` | time used of the response window, or of a Bridge command |
| `carried`, `stale`, `raced`, `cut` | history: executions; commands a worker holds without a lease; answers that came between look and request; executed commands whose file the Supervisor left behind |

A worker stands for one process lifetime; a second one of the same kind starts only when the
first is gone and its store calls have returned. Between two awaits there is no step of the
same process, but there is one of another process: `LookForResponse` and `Dispatch` are two actions
although `dispatch()` runs from line 151 to 158 without an await, because the Supervisor writes
its files meanwhile. A tick passes no time inside such a stretch or inside a completing
transaction. Expiry is by the lease of the *claiming* worker, for every type of row, as the SQL has it.

Bounds: `Faults` bounds crashes, shutdowns and store errors; an age stops counting above the
longest lease. The lease of the Bridge is so short that the second command of its batch can
expire before it starts. Two lifetimes of a kind are the fewest in which one inherits the rows
and files of another; two faults allow a store error before a shutdown, or two shutdowns. With every
process dead nothing could move, so there are fewer faults than processes.

The Supervisor claims, executes, answers and removes in steps of its own (`LocalSupervisor.ps1:879-924`),
may die or fail to remove the file between any two of them, and its next start executes again what it finds in
`processing/` (926-943). A service command may be executed twice for two reasons only: the race that `raced`
records, and a file left in `processing/` after its execution (`cut`), both named in `OnceUnlessRacedOrCut`. In every
other order of restarts and lost leases the files make `dispatch()` safe to repeat. That is
why `CommandLedger` promises only that a command which succeeded was carried out, and that a
command ends once: a request that timed out may still be executed later.

Fairness: each worker's loop runs whenever it can (its process is started again after a fault,
and the loops poll for ever), the Supervisor serves its queue, time passes. Faults are bounded,
not fair. `EveryCommandEnds` is checked in `queue_bridge`; with a Bridge lease shorter than the
response window, contrary to the default settings (180, 120 and 60 seconds), the Bridge's polls
could take a service command back for ever.

## 6. TaskLifecycle: from a message to its last event

`handle()` of `MessageProcessor` for one chat, with the memory of recent ids and the table of
claimed messages, the stop and end commands, the console's cancellations and ends as
`AdminControlWorker` serves them, the projected status, the shutdown in the order of
`__main__.py` (the channel cancels its handlers, the worker closes, the processor, the
backend), and a restart that reconciles.

| In the model | In the code |
|---|---|
| `phase[d]` | where `handle` and the work of the delivery are suspended: in its own sends (`rejecting`, `refusing`, `replying`, `apologizing`, `ack`), in a stop or an end (`control`), in `_handle_task` (`waiting` for the lock, `greeting`, `asking`, `timing_out`, `cutting_off`, `answering`, `excusing`), `draining` |
| `recent`, `claimed` | `RecentMessageIds`, the table `processed_messages` |
| `lock`, `ending`, `waits` | the chat's lock, `_ending_sessions`, the tasks a stop or an end gathers |
| `worker`, `cmd`, `endCmd` | the command that the control worker executes, and its rows |
| `status` | `agent_tasks.status`, by `Projected` of `TaskStates` |
| `open`, `forgot`, `lost`, `mute`, `finishes`, `ran`, `born` | history: claims that failed, ids that fell out, events and frames that were lost, confirmed final frames |

An event whose store call fails is swallowed by the telemetry, as in the code; so is a claim,
which then lets the message through. `AtMostOnce` says exactly when that matters: the claim of one
of two copies failed, and the memory lost it as well. `Undisturbed` is the reason for the refusals
while a chat is ending; `EverythingSettles` shows that a stop sent from a handler, an end from the console
and the shutdown never wait for each other.

Bounds: two deliveries, which may be copies of one message, two requests, or a request and a
stop, an end or another command; a capacity of one so that an id is forgotten; one fault and
one restart: a fault before the restart and a copy after it is the longest story that `AtMostOnce`
tells. Fairness: ready coroutines run, sends and replies return, the worker polls, a shutdown goes on, the
Supervisor starts the process again. Messages, commands, faults and crashes are not fair.

## 7. Confirmation: a tool call that asks the user

`ConfirmationCoordinator.request` and `decide`, the thread of the broker that waits for it
(`_authorize_dispatch`, `_confirm_from_tool`), and the turns of the chat around it.

| In the model | In the code |
|---|---|
| `active`, `flag`, `stage`, `begun` | `_active_task_id`, `_interrupt_requested_for`, where the task is, the epoch of its turn |
| `phase[q]`, `locker` | where the coroutine of the request is; `_policy_lock`, which the tool `request_confirmation` does not take |
| `row[q]`, `future[q]`, `timer[q]` | `confirmations.status`, the future, the time-out of `wait_for` |
| `holds` | requests whose run still has the runtime it asked with |
| `answer[q]`, `gaveUp` | what the thread is told; that its own time-out of 100 s came first |

The decision commits a row and sets a future; the timer may win in between, and then the row says
approved while the answer is a refusal: `ApprovalGenuine` is one direction only. "refused"
stands for rejected, expired, cancelled and errors. Bounds: the second request meets what the
first leaves (lock, future, row, waiting status), the second task what the first leaves. The guest is a
second member of a group. Fairness: the loop, the timer, the notice's own time-out and the closing thread;
nothing is assumed of users.

## 8. FileDelivery: the files of a task

`FileDeliverySession.send` as used by the tool's threads (`_deliver_from_tool`) and by the reply,
the three records of a delivery, and `RESEND_FILE`.

| In the model | In the code |
|---|---|
| `phase[s]`, `file[s]`, `lock` | where `send` of a sender is suspended, `FileDeliverySession._lock` |
| `answer[c]`, `cut` | what the tool's thread told the agent after its 65 s, and that its cancellation is on its way |
| `results`, `stored`, `row` | the session's memory, the journal's deliveries, `file_deliveries.status` |
| `turn`, `todo`, `failed`, `outcome` | `_handle_task` after the reply, and the status it ends with |
| `command`, `attempt`, `expired` | the resend's command in the table, the worker's step with it, and how often its lease ran out |
| `again` | resends whose row says SENT |
| `copies`, `resent` | what the platform took, from the task and from a resend: the send itself is external and its answer may be lost on the way back |

Every write may fail as it does in the code. An event of a delivery goes through `safe_record`, which
swallows the exception of the store (`Tells`): the row may lag behind. The journal's exception after a send hides the
receipt (`Recorded`); before it, it prevents the attempt (`Refused`). A stop may come at any point of the reply's own sends and of
the summary (`StopSending`). A resend goes back to the queue when its lease runs out (`Expire`), whether the
worker died, is still uploading, or failed to complete it (`Completes`); the worker claims the next batch when it
is done with the last one. Hence the bounds of `SentOnce`: once from a task, and from a resend once more per expired
lease; and what `SuccessDelivered` says of the row: it is SENT, or not there, or still UPLOADING, but never failed or
unconfirmed.

Bounds: two files and two calls, so that a call meets the lock, the claim and the receipt of
another, and the reply meets both; one restart and one expiry, of one resend: a restart and an expiry are the two ways to a second
upload. Batches of several resends are in the proofs. Fairness: time-outs fire, what is ready runs, and the
platform answers the reply's own sends; a tool's send may hang for ever, which is what
`ReplySettles` is about.

## 9. SessionMemory: what a run is told

The journal's facts, epochs and summaries, the generation in the registry's file, and the native
sessions that live in the runtime and die with it. `offset` is `_history_offsets`: up to where the
runtime is believed to know the chat. A run gets the summary and the facts after its offset; `shown` is
what it then knows. `HistoryComplete` and `HistoryOwn` relate that to the journal across every path that closes
a runtime or leaves a generation: failures of this chat and of another, stops, ends, restarts and crashes between
begin and finish. A stop may come while a recovery waits for its summary, in the run, or while a failed run closes its runtime
(`phase = "failing"`): then its flag outlives the turn, the next recovery is not cancelled by the next stop, which waits for the whole
turn, and the next run ends as stopped. A stop that is itself cut leaves its close to a thread, which may hit a later turn.
Each write of the registry's file may fail (`Fault`): `finish`, `rotate` after a failed run, after a stop, and in `end_session`
after the journal's epoch is committed.

Sizes are counted in facts instead of bytes and a summary takes the room of one fact;
`CanSummarize` and `Batch` keep the rule of `summary_batch` about groups. Four turns are enough
for a summary to be made and used after the runtime is gone. `damaged` marks what the code does not
cover, until the runtime is closed: a registry file that was lost or could not be written, and a close, by an earlier
stop or by another chat's, that hit a turn of this chat.

## 10. ConnectionSwitch: another connection

Creating, editing, deleting and probing connections, the switch in one transaction
(`activate_connection_after_probe`), the restart commands, the boot of the bridge and its
authentication events, and the rollback.

| In the model | In the code |
|---|---|
| `listed`, `cred`, `version`, `active` | the rows of `channel_connections`; `cred` is what the secrets decrypt to, 0 for those of `.env` |
| `pending` | `pending_connection_activation` |
| `probe[a]` | what `get_connection_probe_target` returned to a request that is probing |
| `queue`, `row`, `work` | the restart commands, their status, what the Supervisor has done |
| `bot` | `bot_id`, unique over the rows |
| `bridge` | the process: down, reading its settings, starting, up; what it read; whether the store failed (`blind`), and whether it booted with the `.env` file while another row had that file's bot id (`aside`) |
| `confirmed`, `tested` | history: the last connection confirmed; the credentials probed for the pending switch |

Commands go one at a time (section 5 has the leases), a Supervisor request at a time. Only the import of the `.env`
connection changes credentials without a new version; a probe that it overtakes is marked and `tested` is then
empty: that exception is named in `ActivatedAsProbed`. The import (`ensure_environment_connection`) takes the row with the id of
the `.env` connection *or with its bot id*: another row may get the credentials of the file and be selected, or the unique
bot id makes it fail, while the process goes on with the settings of the file (`__main__.py:28-35` ignores the result). `BridgeFollows`
names this exception (`aside`) beside the store that failed at boot. Bounds: two connections and two administrators
(interchangeable, hence the symmetry), two edits, two switches and one fault: a probe can be overtaken by an
edit and by another administrator's switch, and a switch may fail and be undone. Two faults of one switch, so that its
rollback fails as well, are in the proofs.

## 11. LocalSupervisor: the process beside the bridge

`Invoke-PendingCommands` and what it calls, step by step between the effects that a crash can
separate: claim, start, record, stop request, wait, kill, remove the record, answer, remove the
request; `Recover-InterruptedCommands`; and the bridge's side of the stop file
(`_run_channel_until_shutdown`). A birth number stands for the start time that
`Test-RecordedProcess` compares, so that a reused process id is a stranger. Both services run the same code:
the model has one. The processes are external: they may be started by hand, die, or leave their id to
another program. Two error paths leave a started bridge without a record while the Supervisor lives: the record cannot be
written and the kill that follows fails silently (`LocalSupervisor.ps1:569-582`); `orphans` has those, and the ones that a crash
before the record left, and `Accounted` names them. Bounds: two requests of any action, so that a recovered request meets a new one; two
process ids; `MaxBirths` bounds what others start, `MaxFaults` crashes and failures. Fairness:
a running Supervisor goes on. `EveryRequestAnswered` therefore says "or no Supervisor runs".

## 12. GuiBridge: the window

One round of `process_current_chat` and the caches `processed`, `handled_request` and
`outgoing_text`, with the fingerprints as the code builds them. The window, OCR and the language
model are external: a reading may be of an older bubble, of the wrong side or garbled, each at the cost of a
misreading; the title may be misread, and it may change between the check and the paste and between the paste and the key.
The check of the title accepts any name that contains the target's or is contained in it (`chat_title_matches`): `Alike` is the set of
such pairs, and `RightChat` says no more than the check does. So an answer may go to another listed chat with an overlapping
name without any disturbance; its text is then remembered for the wrong target, which is why `NoEcho` has that case
among its exceptions. A text of the model stands for the words and the sender that the fingerprint is made of, and a
garbled one for either of them misread. An exception may come after the outgoing text was cached (`Check`). The
properties name what is excused (`excused`, `wrongSide`, `meddled`). Capacity one makes the second entry evict
the first; two bubbles are the bridge's own answer and one more, or two requests. One misreading, one fault and
one switch of the window may come together; several misreadings are in the proofs. Messages that the owner
types by hand are not modelled. No fairness: the loop polls while the user lets it. Its three properties are
proved for caches of any size (section 13).

## 13. Proofs

For every value of the constants that satisfies the module's named assumption:

| Module | Theorems | The inductive invariant, and why it is needed |
|---|---|---|
| `HarnessTurn_proofs` | `TypeCorrect`, `TurnInvariant`, `RegistryCorrect`, `StopCorrect`, `Refinement` (`ImplementsTurnService`), `RunCorrect`, `RunReachableCorrect`, `ApprovalCorrect`, `RefusalCorrect`, `DrainCorrect`, `ServedCorrect` | `TurnInv`. That the registry says "running" only for the active turn depends on one turn in the operation lock (`OneTurn`) and on the active ids being its (`ActiveOperates`); that a stopped turn is not answered depends on its flag still being there when the run returns (`StopMarked`). `RunInv`: a job binds a harness once (`JobOnce`) and a closer that holds one is not started again (`CloserOnce`), so no bound harness is lost (`RuntimesHeld`); the closer of a refusal outdates the runtime of the run that asked (`CallBound`). `DrainInv`: an abort under way has its reason. `ServedInv`: a job that has not ended is that of the executing turn, or its task was aborted (`JobServed`); a run that a raised call left on the bridge's runtime is that of a turn still to take the exception or closing the runtime, or was left behind (`RaisedServed`, `FailingCloses`); and so is the run that a call came from (`CallServed`) |
| `CommandQueue_proofs` | `TypeCorrect`, `QueueInvariant`, `HeldCorrect`, `CloseCorrect`, `CompletionCorrect`, `Refinement` (`ImplementsCommandLedger`), `OnceCorrect` | `QueueInv`: what a worker has in its hands is of its phase (`HandMatchesPhase`), and of its own kinds (`LeasesOfKind`). The refinement adds `LedgerInv`: what is reported as success was carried out. `OnceInv`: one process of the admin at a time serves its commands (`Alone`), workers hold commands of their kind also after losing the lease (`HandKind`), a command has one file (`OneFile`), and what was carried out has its answer in `processing/` or in `responses` until nobody will look for it (`Answers`) |
| `TaskLifecycle_proofs` | `TypeCorrect`, `FinalCorrect`, `OnceCorrect`, `UndisturbedCorrect`, `HandlerCorrect`, `StreamCorrect`, `ActiveCorrect`, `CancelCorrect` | `ClaimInv`: the message of a delivery that was not dropped is in the table, unless its claim failed, and in the memory of its process, unless it was forgotten. `WaitInv`: every held task is waited for by whoever is ending or closing. `HandlerInv`: a stream is finished by the step that ends the handler (`Streams`), the same that shows a success (`Succeeded`); in the phases after the last event the status is terminal or the event was lost (`Accounted`); the worker of a cancel command awaits a task that it has told to stop (`CancelWaits`), so what it reports stays true (`Confirmed`) |
| `Confirmation_proofs` | `ConfirmationCorrect`, `ApprovalIsGenuine`, `RefusalTakesRuntime`, `WaitingIsShown` | `ConfirmationInv`: nothing is settled before the row is there (`Fresh`); the coroutine sees an approval only after `decide()` wrote it, and the table keeps who decided in which epoch (`Genuine`); only the active task is inside its turn (`OneTurn`) |
| `Delivery_proofs`, of `FileDelivery` | `FilesCorrect`, `OnceCorrect`, `ReceiptsCorrect`, `SuccessCorrect` | `FileInv`: a sender under way holds the lock and a stored claim (`ClaimHeld`); a file goes once, after its claim, and success is recorded later, or not at all (`RecordsTrue`); resends are counted by the leases that ran out; while a task runs, each attempt that the journal does not confirm is in its list (`TaskKnows`) |
| `Delivery_proofs`, of `GuiBridge` | `GuiCorrect`, `EchoCorrect`, `AnswerCorrect`, `ChatCorrect` | `GuiInv`. That an answer reaches its chat rests on every draft knowing whether its paste was disturbed (`Aimed`, `MineAimed`, `DraftsAimed`). That the bridge does not answer itself rests on what it remembers of its own bubbles: each is in the cache of texts or excused by its eviction (`OwnRemembered`, `ReplyRemembered`, `Pasted`), so a bubble that is answered was misread (`PeerAsked`, `MineJustified`, `DraftsJustified`). That it answers once rests on a sent or pasted request being among the handled ones or excused (`SentHandled`, `DraftHandled`), while the one in hand is neither (`Unanswered`, `DraftOnce`, `NotBoth`) |
| `SessionMemory_proofs` | `MemoryCorrect`, `SummaryIsValid`, `HistoryIsOwn`, `HistoryIsComplete` | `MemoryInv`. That a run knows nothing of an ended epoch rests on each generation belonging to one epoch (`Generations`, `LeaseEpoch`). That it knows its whole epoch rests on the offset: between runs the native session knows everything up to it (`RestKnows`), beyond it there is at most the delivery that the next turn is told (`FewBeyond`), and a stop forgets the offset before anything is lost (`StopForgets`, `StoppedRun`); a flag that came too late for its run is only ever left with no runtime (`FailedRun`). While the registry's file is damaged, nothing is claimed of its generations, as in the properties |
| `LocalSupervisor_proofs` | `SupervisorCorrect`, `AccountedCorrect`, `StopsCorrect` | `SupervisorInv`: births are distinct and recorded ids are of started bridges (`Births`); only one step records (`Recording`); a started bridge is recorded, being recorded, or one of the orphans (`Known`); a bridge that looks at the stop file has removed the older ones (`FreshRequest`) |
| `ConnectionSwitch_proofs` | `SwitchCorrect`, `SelectionCorrect`, `ProbedCorrect`, `RestartCorrect`, `FollowsCorrect` | `SwitchInv`: a pending switch goes back to what was confirmed (`Selection`); versions only grow and one that is still the probed one stands for the probed credentials (`ProbeFresh`); a bridge that reports has read a connection (`BridgeReads`). `RestartInv`: commands are numbered without gaps and an activation has at most one rollback, so every change of the selection finds room for its restart (`Numbered`); what is selected has credentials (`Equipped`); once the restart of the last change has started the bridge, what the bridge read is the selection, unless it booted blind or aside (`Follows`) |

Each is laid out alike: one lemma per conjunct (or per action, in the two oldest) with one step per action,
then the theorem; a property is a consequence of the invariant. The history variables are part of the modules.
The two ways by which something leaves for the user share a proof module: `Delivery_proofs` extends
`FileDelivery` and `GuiPromises`, and has `GuiBridge` as the instance `Gui`, whose constants and variables are the module's own;
`GuiAssumption` is therefore a hypothesis of the last four theorems.

Only model-checked: liveness and everything under fairness, which is out of the prover's reach
(`EveryTurnEnds`, `EveryCommandEnds`, `EverythingSettles`, `EveryRequestReturns`,
`ReplySettles`, `EveryRequestAnswered`), and so is `ENABLED`. The run of section 14 shows a violation.

## 14. What the model shows of the code

One statement of the code does not hold, and a run shows it:

- `claim_newer_task`: `adapters/deepseek_harness.py:650` "Stop the exact active task without cancelling a
  newer task by accident." A stop arrives while a failed turn closes its runtime; its flag is
  never consumed; the next task of the chat completes and is reported as stopped.

Other things that reading and checking brought up, which the modules contain but which no
comment or document contradicts outright, or which have no run of their own:

- A stop that cuts the abort of a timed-out task settles it as cancelled while its run goes on
  (`application.py:349`); `DrainedUnlessAbortCut` names it. A turn told to stop before the executor starts
  its run may build and keep a new runtime (`deepseek_harness.py:401`); a flag left over from an earlier
  stop keeps a later one from cancelling the recovery (`deepseek_harness.py:674`).
- `README.md:177` of the bridge says that every tool has to pass "the check of the current Runtime, task and call
  identity". `_authorize_dispatch` compares the runtime and the session, but of the task only asks whether one
  is active (`deepseek_harness.py:119-123`). A stop may let go of a turn before the executor has started its run; that
  run builds a new runtime, the next turn begins, and a dispatch of the old run is taken for the new task's. The same
  happens when an SDK call raises, which may leave its run working, and the turn takes a flag left by an earlier stop for
  its own: then it ends as stopped and keeps the runtime (399-400). `LeftBehind` in `ApprovalReachesItsRun` names these two ways.
- The Supervisor may answer between the look for a response and the test for the request's files:
  the request is written and executed again (`admin/runtime_worker.py:158`); `OnceUnlessRacedOrCut` names it,
  and the execution that a Supervisor repeats after it died with the request in `processing/`.
- Command rows: a cancellation that comes while its message is still a control command fails while the row of the
  task stays CANCEL_REQUESTED until its terminal event. The default key `end:{conv}:{user}` (`admin/api.py:316`)
  makes a second end of the same chat answer with the first command; it only concerns clients that send no key.
- Deliveries: a cancellation leaves the row UPLOADING and the journal "unknown", and so does a store that does not take
  the event, even of a file that a succeeded task has sent; a resend that raises is FAILED although the platform may have
  accepted it; a resend is allowed whatever the status of the delivery; an upload that outlasts the lease of its command, or a completion that
  fails, makes the same process send the file again (`store.py:1589`);
  a call cut while it waits for the lock is answered "unknown" although nothing was attempted; a file may
  go out after a stop was acknowledged.
- Connections: the import of the `.env` connection replaces credentials without a new version, so that a probe in
  flight does not notice. The credentials of the previous connection may be edited while a switch is pending, and a
  rollback then restores unproven ones. A failed restart without a previous connection, and a lost authentication event,
  leave the switch pending. A client key used twice answers ACTIVATING without a switch. There is no
  handler for a manual rollback. If the store cannot be read at boot the `.env` connection is used without a word; and if another row has the bot id of
  the `.env` file, that row is given the file's credentials and selected, while the process goes on as the `.env` connection.
- Supervisor: a crash between `Start-Process` and the record leaves a bridge nobody manages, and so does a record
  that cannot be written when the kill after it fails: the repeated start
  answers a conflict, a later stop answers "stopped" while it runs (`orphans`). A crash after the client has read an
  answer executes the request again; a recovered shutdown ends the new Supervisor. A hand-started bridge
  shares the stop file and may take the managed one's request, which is then killed after its wait.
- History: a close by another chat's stop may come between the reading of an offset (`deepseek_harness.py:275`) and the run, which
  then knows only the part after the offset; an end whose `rotate` fails has already committed the new epoch, and a later
  run may resume the native session of the old one. `damaged` excuses both.
- GUI bridge: two listed chats of which one's name contains the other's pass for each other in the check before a send. Only the chat that is shown is served, and only its latest bubble; a second message with the same
  text is not answered until the first is evicted; a peer who repeats an answer of the bridge is ignored; a draft
  left by a failed or disturbed send goes out with the next answer; a reply pasted but not sent counts as handled; files
  are not among the remembered outgoing texts.

## 15. Not modelled

- Configuration revisions, users and audit: every operation is one transaction with its own compare-and-set
  (the rollback of a revision is two, which may leave a draft behind); nothing interleaves but whole transactions.
- The other handlers of the admin API, schema creation, redaction, log tables, parsing of settings: one store
  call, or formatting.
- Unified backend and Spring chat adapter: routing by prefix and one HTTP call; no state.
- The desktop tools (Windows UI automation), the Spring service and the admin pages: external effects
  or rendering.
- In the modelled parts: HTTP framing and tokens of the broker, texts and prompts, the events of single tool calls and
  the projections other than the task's, configuration errors and the status file of the Supervisor, the retention of
  its responses, and milliseconds between a check and its effect inside one PowerShell statement pair (start after
  the look for conflicts, kill after the validation).
- Assumptions about the outside: the operating system tells the truth about processes; a store transaction is
  atomic; the platform's acknowledgement may be lost but is not wrong.
