----------------------------- MODULE HarnessTurn -----------------------------
(***************************************************************************)
(* One bridge process: the task lane of MessageProcessor (application.py)  *)
(* on top of DeepSeekHarnessBackend (adapters/deepseek_harness.py).        *)
(*                                                                         *)
(* A task has a WORK coroutine (_handle_task and _reply_with_progress),    *)
(* which owns a REPLY coroutine (DeepSeekHarnessBackend.reply), which      *)
(* hands a JOB (_run_sync) to a one-thread executor.  Both coroutines run  *)
(* on one event loop, so a step lasts from one await to the next; jobs,    *)
(* CLOSERS (asyncio.to_thread(_close_runtime_sync)) and tool callbacks run *)
(* on threads and interleave at their critical sections (_runtime_guard).  *)
(*                                                                         *)
(* Cancelling a coroutine is merged with its next resumption.  A harness   *)
(* is named by the runtime nonce it was created under.                     *)
(***************************************************************************)
EXTENDS Naturals

CONSTANTS
  Tasks,      \* task ids; each is one accepted message
  Sessions,   \* chat session ids
  SessionOf,  \* the session a task belongs to
  NoTask,     \* None in _active_task_id, and the idle dispatch slot
  GiveUps,    \* what may happen: a task ends early by its "timeout" or a lost
              \* "stream", the thread of a "dispatch" does not wait for its answer
  ToolUsers   \* the tasks whose runs issue tool dispatches

ASSUME TaskAssumption == /\ SessionOf \in [Tasks -> Sessions]
                         /\ NoTask \notin Tasks
                         /\ GiveUps \subseteq {"timeout", "stream", "dispatch"}
                         /\ ToolUsers \subseteq Tasks

VARIABLES
  work,          \* where each task's work coroutine is suspended
  outcome,       \* the terminal event recorded for the task
  stopping,      \* _ManagedTask.stopping: work.cancel() was called, once
  reason,        \* why _reply_with_progress is leaving early
  awaits,        \* the reply an abort waits for (interrupt_session, recovering)
  reply,         \* where each task's reply coroutine is suspended
  result,        \* how the reply coroutine ended
  lease,         \* generation leased by HarnessSessionRegistry.begin
  activeTask,    \* _active_task_id (and with it _active_chat_session_id)
  interrupts,    \* _interrupt_requested_for
  gen, regState, \* the session registry file: generation and state
  nonce,         \* _runtime_nonce, counted
  harness,       \* self._harness is not None
  dead,          \* harnesses whose close() has returned
  policySession, \* _active_policy_session
  closer,        \* threads running _close_runtime_sync, by who started them
  victim,        \* the harness a closer took
  job,           \* the executor job of each task
  jobNonce,      \* the nonce _run_sync put into the runtime session id
  jobHarness,    \* the harness _run_sync bound
  call,          \* the dispatch that holds _policy_lock
  approvals,     \* history: <<asking job, task it was approved for>>
  hit            \* history: tasks whose turn was told to stop

workVars == <<work, outcome, stopping, reason, awaits>>
turnVars == <<reply, result, lease, activeTask>>
regVars  == <<gen, regState>>
rtVars   == <<nonce, harness, dead, policySession, closer, victim>>
jobVars  == <<job, jobNonce, jobHarness>>
callVars == <<call, approvals>>
flagVars == <<interrupts, hit>>
vars == <<workVars, turnVars, regVars, rtVars, jobVars, callVars, flagVars>>

WorkState == {"idle", "queued", "replying", "abortRecovery", "abortRuntime",
              "gathering", "delivering", "settled"}
Outcome   == {"none", "succeeded", "failed", "timed_out", "cancelled"}
Reason    == {"none", "timeout", "stream", "cancel"}
ReplyState == {"none", "turnwait", "recovering", "recoveryCancelled", "executing",
               "failing", "cancelRotate", "cancelOnly", "teardown", "done"}
Result    == {"none", "ok", "interrupted", "cancelled", "error"}
JobState  == {"none", "queued", "picked", "running", "returned", "raised", "dropped"}
Closers   == {"turn", "abort", "confirm"} \X Tasks
NoSid     == <<>>
NoCall    == [st |-> "idle", from |-> NoTask, task |-> NoTask]

(* Throughout, the operators marked "fault:" are variants of the definition   *)
(* after them with one plausible error; no action uses them.                  *)

(* The session lock of _handle_task is held from task.started to the end. *)
HoldsSession == {"replying", "abortRecovery", "abortRuntime", "gathering", "delivering"}
(* _operation_lock is held, and the active ids are set, in these states... *)
InOperation  == {"executing", "failing", "cancelRotate", "cancelOnly"}
(* fault: _turn_lock survives the reply *)
InTurnForever == InOperation \cup {"recovering", "recoveryCancelled", "teardown", "done"}
(* ... and _turn_lock in these. *)
InTurn       == InOperation \cup {"recovering", "recoveryCancelled", "teardown"}
Recovering   == {"recovering", "recoveryCancelled"}

SessionBusy(t) == \E u \in Tasks \ {t} :
                    SessionOf[u] = SessionOf[t] /\ work[u] \in HoldsSession
TurnBusy       == \E u \in Tasks : reply[u] \in InTurn
Live(t)        == work[t] \notin {"idle", "settled"}
ActiveIn(s)    == activeTask # NoTask /\ SessionOf[activeTask] = s
(* The delivery ticket and the confirmation presenter are bound. *)
Bound(t)       == work[t] \in {"replying", "abortRecovery", "abortRuntime", "gathering"}
Sid(t)         == <<SessionOf[t], jobNonce[t], lease[t]>>

-----------------------------------------------------------------------------
Init ==
  /\ work = [t \in Tasks |-> "idle"]
  /\ outcome = [t \in Tasks |-> "none"]
  /\ stopping = {}
  /\ reason = [t \in Tasks |-> "none"]
  /\ awaits = [t \in Tasks |-> t]
  /\ reply = [t \in Tasks |-> "none"]
  /\ result = [t \in Tasks |-> "none"]
  /\ lease = [t \in Tasks |-> 0]
  /\ activeTask = NoTask
  /\ gen = [s \in Sessions |-> 1]
  /\ regState = [s \in Sessions |-> "idle"]
  /\ nonce = 1
  /\ harness = TRUE                   \* start() initialised a runtime
  /\ dead = {}
  /\ policySession = NoSid
  /\ closer = [c \in Closers |-> "idle"]
  /\ victim = [c \in Closers |-> 0]
  /\ job = [t \in Tasks |-> "none"]
  /\ jobNonce = [t \in Tasks |-> 0]
  /\ jobHarness = [t \in Tasks |-> 0]
  /\ call = NoCall
  /\ approvals = {}
  /\ interrupts = {}
  /\ hit = {}

-----------------------------------------------------------------------------
(* Effects shared by several steps. *)

Settle(t, o) == /\ work' = [work EXCEPT ![t] = "settled"]
                /\ outcome' = [outcome EXCEPT ![t] = o]

EndReply(t, r) == /\ reply' = [reply EXCEPT ![t] = "done"]
                  /\ result' = [result EXCEPT ![t] = r]

Rotate(s) == /\ gen' = [gen EXCEPT ![s] = @ + 1]
             /\ regState' = [regState EXCEPT ![s] = "idle"]

(* fault: a lease is only finished by the rotation of its session *)
FinishLeaseNever(t) == UNCHANGED regVars

(* finish(lease): only while the lease is still the current generation. *)
FinishLease(t) ==
  LET s == SessionOf[t]
  IN  /\ regState' = [regState EXCEPT ![s] = IF gen[s] = lease[t] THEN "idle" ELSE @]
      /\ UNCHANGED gen

(* The finally block of _reply_impl, apart from finish(lease). *)
LeaveOperation == activeTask' = NoTask /\ policySession' = NoSid

(* fault: the stop closes the runtime without leaving its mark *)
FlagForgotten(s) == UNCHANGED interrupts

(* _interrupt_requested_for.add *)
Flag(s) == interrupts' = interrupts \cup {s}

StartCloser(c) == closer' = [closer EXCEPT ![c] = "queued"]

(* task.cancel() on the reply coroutine of t, up to its next await. *)
CancelReply(t) ==
  LET s == SessionOf[t]
  IN
  \/ /\ reply[t] = "turnwait"
     /\ EndReply(t, "cancelled")
     /\ UNCHANGED <<activeTask, policySession, closer, job, interrupts>>
  \/ /\ reply[t] = "recovering"
     /\ reply' = [reply EXCEPT ![t] = "recoveryCancelled"]
     /\ UNCHANGED <<result, activeTask, policySession, closer, job, interrupts>>
  \/ /\ reply[t] \in {"recoveryCancelled", "done"}
     /\ UNCHANGED <<reply, result, activeTask, policySession, closer, job, interrupts>>
  \/ /\ reply[t] = "executing"        \* except asyncio.CancelledError
     /\ reply' = [reply EXCEPT ![t] = IF s \in interrupts THEN "cancelOnly"
                                                           ELSE "cancelRotate"]
     /\ interrupts' = interrupts \ {s}
     /\ job' = [job EXCEPT ![t] = IF @ = "queued" THEN "dropped" ELSE @]
     /\ StartCloser(<<"turn", t>>)
     /\ UNCHANGED <<result, activeTask, policySession>>
  \/ /\ reply[t] \in {"failing", "cancelRotate", "cancelOnly"}
     /\ EndReply(t, "cancelled")      \* leaves the handler, skips its rotate
     /\ LeaveOperation
     /\ UNCHANGED <<closer, job, interrupts>>
  \/ /\ reply[t] = "teardown"
     /\ EndReply(t, "cancelled")
     /\ UNCHANGED <<activeTask, policySession, closer, job, interrupts>>

(* What that cancellation does to the registry when nothing rotated before. *)
CancelledLease(t) == IF reply[t] \in InOperation \ {"executing"}
                     THEN FinishLease(t) ELSE UNCHANGED regVars

(* finally of _reply_with_progress with the reply still running:           *)
(* abort_session -> stop_session -> interrupt_session, up to its await.    *)
BeginAbort(t, why) ==
  LET s == SessionOf[t]
      R == {q \in Tasks : SessionOf[q] = s /\ reply[q] \in Recovering}
  IN
  /\ reason' = [reason EXCEPT ![t] = why]
  /\ UNCHANGED outcome
  /\ \/ \E q \in R :                  \* _recovering names this session
          /\ work' = [work EXCEPT ![t] = "abortRecovery"]
          /\ awaits' = [awaits EXCEPT ![t] = q]
          /\ Flag(s)
          /\ reply' = [reply EXCEPT ![q] = IF s \in interrupts THEN @
                                           ELSE "recoveryCancelled"]
          /\ hit' = IF s \in interrupts THEN hit ELSE hit \cup {q}
          /\ UNCHANGED <<result, activeTask, policySession, closer, job, regVars>>
     \/ /\ R = {} /\ ActiveIn(s)
        /\ work' = [work EXCEPT ![t] = "abortRuntime"]
        /\ Flag(s)
        /\ hit' = hit \cup {activeTask}
        /\ StartCloser(<<"abort", t>>)
        /\ UNCHANGED <<awaits, reply, result, activeTask, policySession, job, regVars>>
     \/ /\ R = {} /\ ~ActiveIn(s)     \* nothing to interrupt
        /\ work' = [work EXCEPT ![t] = "gathering"]
        /\ CancelReply(t)
        /\ CancelledLease(t)
        /\ UNCHANGED <<awaits, hit>>

-----------------------------------------------------------------------------
(* The work coroutine: handle, _handle_task, _reply_with_progress. *)

Submit(t) ==
  /\ work[t] = "idle"
  /\ work' = [work EXCEPT ![t] = "queued"]
  /\ UNCHANGED <<outcome, stopping, reason, awaits, turnVars, regVars, rtVars,
                 jobVars, callVars, flagVars>>

Start(t) ==
  /\ work[t] = "queued" /\ ~SessionBusy(t)
  /\ \/ /\ work' = [work EXCEPT ![t] = "replying"]
        /\ reply' = [reply EXCEPT ![t] = "turnwait"]
        /\ UNCHANGED outcome
     \/ /\ Settle(t, "failed")        \* INITIAL_RESPONSE_SEND_FAILED
        /\ UNCHANGED reply
  /\ UNCHANGED <<stopping, reason, awaits, result, lease, activeTask, regVars,
                 rtVars, jobVars, callVars, flagVars>>

(* Task timeout, or a progress update that the stream refuses. *)
GiveUp(t, why) ==
  /\ work[t] = "replying" /\ reply[t] # "done"
  /\ why \in GiveUps \cap {"timeout", "stream"}
  /\ BeginAbort(t, why)
  /\ UNCHANGED <<stopping, lease, nonce, harness, dead, victim, jobNonce,
                 jobHarness, callVars>>

(* _request_stops (user stop, admin cancel, close) or a cancelled handle():  *)
(* work.cancel(), at most once, thrown where the work coroutine is waiting.  *)
Stop(t) ==
  /\ Live(t) /\ t \notin stopping
  /\ stopping' = stopping \cup {t}
  /\ \/ /\ work[t] \in {"queued", "abortRecovery", "abortRuntime", "delivering"}
           \/ (work[t] = "replying" /\ reply[t] = "done")
        /\ Settle(t, "cancelled")
        /\ UNCHANGED <<reason, awaits, reply, result, activeTask, policySession,
                       closer, job, regVars, flagVars>>
     \/ /\ work[t] = "replying" /\ reply[t] # "done"
        /\ BeginAbort(t, "cancel")
     \/ /\ work[t] = "gathering"      \* gather() cancels the reply once more
        /\ reason' = [reason EXCEPT ![t] = "cancel"]
        /\ CancelReply(t)
        /\ CancelledLease(t)
        /\ UNCHANGED <<work, outcome, awaits, hit>>
  /\ UNCHANGED <<lease, nonce, harness, dead, victim, jobNonce, jobHarness, callVars>>

(* interrupt_session returned True: stop_session rotates, the finally block *)
(* cancels the reply and gathers it.                                        *)
AbortReturn(t) ==
  /\ \/ work[t] = "abortRecovery" /\ reply[awaits[t]] = "done"
     \/ work[t] = "abortRuntime" /\ closer[<<"abort", t>>] = "done"
  /\ work' = [work EXCEPT ![t] = "gathering"]
  /\ Rotate(SessionOf[t])
  /\ CancelReply(t)
  /\ UNCHANGED <<outcome, stopping, reason, awaits, lease, nonce, harness, dead,
                 victim, jobNonce, jobHarness, callVars, hit>>

(* fault: task.cancel() without gather() *)
GatheredEarly(t) ==
  /\ work[t] = "gathering"
  /\ Settle(t, "cancelled")
  /\ UNCHANGED <<stopping, reason, awaits, turnVars, regVars, rtVars, jobVars,
                 callVars, flagVars>>

Gathered(t) ==
  /\ work[t] = "gathering" /\ reply[t] = "done"
  /\ Settle(t, CASE reason[t] = "timeout" -> "timed_out"
                 [] reason[t] = "stream"  -> "failed"
                 [] OTHER                 -> "cancelled")
  /\ UNCHANGED <<stopping, reason, awaits, turnVars, regVars, rtVars, jobVars,
                 callVars, flagVars>>

ReplyDone(t) ==
  /\ work[t] = "replying" /\ reply[t] = "done"
  /\ \/ /\ result[t] = "ok"
        /\ work' = [work EXCEPT ![t] = "delivering"]
        /\ UNCHANGED outcome
     \/ result[t] = "error" /\ Settle(t, "failed")
     \/ result[t] \in {"interrupted", "cancelled"} /\ Settle(t, "cancelled")
     \/ "stream" \in GiveUps /\ Settle(t, "failed")   \* the last progress update failed
  /\ UNCHANGED <<stopping, reason, awaits, turnVars, regVars, rtVars, jobVars,
                 callVars, flagVars>>

Deliver(t) ==
  /\ work[t] = "delivering"
  /\ Settle(t, "succeeded")
  /\ UNCHANGED <<stopping, reason, awaits, turnVars, regVars, rtVars, jobVars,
                 callVars, flagVars>>

-----------------------------------------------------------------------------
(* The reply coroutine: reply and _reply_impl. *)

TurnStart(t) ==
  /\ reply[t] = "turnwait" /\ ~TurnBusy
  /\ reply' = [reply EXCEPT ![t] = "recovering"]
  /\ UNCHANGED <<workVars, result, lease, activeTask, regVars, rtVars, jobVars,
                 callVars, flagVars>>

(* recover_context returned, registry.begin, run_in_executor. *)
BeginTurn(t) ==
  LET s == SessionOf[t]
      g == IF regState[s] = "running" THEN gen[s] + 1 ELSE gen[s]
  IN
  /\ reply[t] = "recovering"
  /\ reply' = [reply EXCEPT ![t] = "executing"]
  /\ gen' = [gen EXCEPT ![s] = g]
  /\ regState' = [regState EXCEPT ![s] = "running"]
  /\ lease' = [lease EXCEPT ![t] = g]
  /\ activeTask' = t
  /\ job' = [job EXCEPT ![t] = "queued"]
  /\ UNCHANGED <<workVars, result, rtVars, jobNonce, jobHarness, callVars, flagVars>>

RecoveryFails(t) ==
  /\ reply[t] = "recovering"
  /\ EndReply(t, "error")
  /\ UNCHANGED <<workVars, lease, activeTask, regVars, rtVars, jobVars, callVars,
                 flagVars>>

RecoveryStopped(t) ==
  /\ reply[t] = "recoveryCancelled"
  /\ EndReply(t, IF SessionOf[t] \in interrupts THEN "interrupted" ELSE "cancelled")
  /\ interrupts' = interrupts \ {SessionOf[t]}
  /\ UNCHANGED <<workVars, lease, activeTask, regVars, rtVars, jobVars, callVars, hit>>

(* fault: the wait for the executor has a time-out of its own *)
ResumeTimesOut(t) ==
  LET s == SessionOf[t]
  IN
  /\ reply[t] = "executing"
  /\ IF s \in interrupts
     THEN /\ interrupts' = interrupts \ {s}
          /\ EndReply(t, "interrupted")
          /\ LeaveOperation /\ FinishLease(t)
          /\ UNCHANGED closer
     ELSE /\ reply' = [reply EXCEPT ![t] = "failing"]
          /\ StartCloser(<<"turn", t>>)
          /\ UNCHANGED <<result, activeTask, policySession, regVars, interrupts>>
  /\ UNCHANGED <<workVars, lease, nonce, harness, dead, victim, jobVars, callVars, hit>>

(* The executor future is done and nobody cancelled the reply. *)
Resume(t) ==
  LET s == SessionOf[t]
  IN
  /\ reply[t] = "executing" /\ job[t] \in {"returned", "raised"}
  /\ \/ /\ s \in interrupts           \* AgentTaskInterrupted
        /\ interrupts' = interrupts \ {s}
        /\ EndReply(t, "interrupted")
        /\ LeaveOperation /\ FinishLease(t)
        /\ UNCHANGED closer
     \/ /\ s \notin interrupts /\ job[t] = "raised"
        /\ reply' = [reply EXCEPT ![t] = "failing"]
        /\ StartCloser(<<"turn", t>>)
        /\ UNCHANGED <<result, activeTask, policySession, regVars, interrupts>>
     \/ /\ s \notin interrupts /\ job[t] = "returned"
        /\ LeaveOperation /\ FinishLease(t)
        /\ \/ EndReply(t, "ok") /\ UNCHANGED closer
           \/ /\ reply' = [reply EXCEPT ![t] = "teardown"]   \* bad finish_reason
              /\ StartCloser(<<"turn", t>>)
              /\ UNCHANGED result
        /\ UNCHANGED interrupts
  /\ UNCHANGED <<workVars, lease, nonce, harness, dead, victim, jobVars, callVars, hit>>

(* The closer this coroutine awaits has returned. *)
TurnClosed(t) ==
  /\ closer[<<"turn", t>>] = "done"
  /\ \/ /\ reply[t] = "failing"
        /\ EndReply(t, "error") /\ Rotate(SessionOf[t]) /\ LeaveOperation
     \/ /\ reply[t] = "cancelRotate"
        /\ EndReply(t, "cancelled") /\ Rotate(SessionOf[t]) /\ LeaveOperation
     \/ /\ reply[t] = "cancelOnly"
        /\ EndReply(t, "cancelled") /\ FinishLease(t) /\ LeaveOperation
     \/ /\ reply[t] = "teardown"
        /\ EndReply(t, "error") /\ Rotate(SessionOf[t])
        /\ UNCHANGED <<activeTask, policySession>>
  /\ UNCHANGED <<workVars, lease, nonce, harness, dead, closer, victim, jobVars,
                 callVars, flagVars>>

-----------------------------------------------------------------------------
(* Threads: the executor's one worker, and the closers. *)

PickJob(t) ==
  /\ job[t] = "queued"
  /\ \A u \in Tasks : job[u] \notin {"picked", "running"}
  /\ job' = [job EXCEPT ![t] = "picked"]
  /\ jobNonce' = [jobNonce EXCEPT ![t] = nonce]
  /\ UNCHANGED <<workVars, turnVars, regVars, rtVars, jobHarness, callVars, flagVars>>

BindJob(t) ==
  /\ job[t] = "picked"
  /\ harness' = TRUE
  /\ policySession' = Sid(t)
  /\ job' = [job EXCEPT ![t] = "running"]
  /\ jobHarness' = [jobHarness EXCEPT ![t] = nonce]
  /\ UNCHANGED <<workVars, turnVars, regVars, nonce, dead, closer, victim, jobNonce,
                 callVars, flagVars>>

(* harness.run ends; on a closed harness it can only raise. *)
RunEnds(t) ==
  /\ job[t] = "running"
  /\ \E how \in {"returned", "raised"} :
       /\ how = "returned" => jobHarness[t] \notin dead
       /\ job' = [job EXCEPT ![t] = how]
  /\ UNCHANGED <<workVars, turnVars, regVars, rtVars, jobNonce, jobHarness, callVars,
                 flagVars>>

(* The harness factory raises under the guard. *)
BindFails(t) ==
  /\ job[t] = "picked" /\ ~harness
  /\ job' = [job EXCEPT ![t] = "raised"]
  /\ UNCHANGED <<workVars, turnVars, regVars, rtVars, jobNonce, jobHarness, callVars,
                 flagVars>>

(* fault: self._harness is cleared before it is read *)
CloserSwapLate(c) ==
  /\ closer[c] = "queued"
  /\ closer' = [closer EXCEPT ![c] = "done"]
  /\ harness' = FALSE
  /\ nonce' = nonce + 1
  /\ policySession' = NoSid
  /\ UNCHANGED <<workVars, turnVars, regVars, dead, victim, jobVars, callVars, flagVars>>

CloserSwap(c) ==
  /\ closer[c] = "queued"
  /\ closer' = [closer EXCEPT ![c] = IF harness THEN "closing" ELSE "done"]
  /\ victim' = [victim EXCEPT ![c] = IF harness THEN nonce ELSE @]
  /\ harness' = FALSE
  /\ nonce' = nonce + 1
  /\ policySession' = NoSid
  /\ UNCHANGED <<workVars, turnVars, regVars, dead, jobVars, callVars, flagVars>>

CloserDone(c) ==
  /\ closer[c] = "closing"
  /\ closer' = [closer EXCEPT ![c] = "done"]
  /\ dead' = dead \cup {victim[c]}
  /\ UNCHANGED <<workVars, turnVars, regVars, nonce, harness, policySession, victim,
                 jobVars, callVars, flagVars>>

-----------------------------------------------------------------------------
(* Tool dispatches of a run: _authorize_dispatch, _confirm_from_tool. *)

(* The body's nonce and root session are the current ones; the call is      *)
(* attributed to whatever task is active.  An SDK call that raised may have *)
(* left its run working in the child.                                       *)
DispatchBegin(t) ==
  /\ call = NoCall /\ t \in ToolUsers
  /\ job[t] \in {"running", "raised"} /\ jobHarness[t] = nonce
  /\ policySession = Sid(t)
  /\ activeTask # NoTask /\ Bound(activeTask)
  /\ call' = [st |-> "asking", from |-> t, task |-> activeTask]
  /\ UNCHANGED <<workVars, turnVars, regVars, rtVars, jobVars, approvals, flagVars>>

(* fault: the second check asks for the task and the flag only *)
CallLiveTask == /\ activeTask = call.task
                /\ SessionOf[call.task] \notin interrupts

CallLive == /\ activeTask = call.task
            /\ jobHarness[call.from] = nonce
            /\ policySession = Sid(call.from)
            /\ Bound(call.task)
            /\ SessionOf[call.task] \notin interrupts

(* Allowed by policy or approved by the user: rechecked before it counts. *)
DispatchApprove ==
  /\ call.st = "asking"
  /\ call' = NoCall
  /\ approvals' = IF CallLive THEN approvals \cup {<<call.from, call.task>>}
                              ELSE approvals
  /\ UNCHANGED <<workVars, turnVars, regVars, rtVars, jobVars, flagVars>>

(* Denied by policy, or refused once the task is no longer active. *)
DispatchDrop ==
  /\ call.st = "asking"
  /\ call' = NoCall
  /\ UNCHANGED <<workVars, turnVars, regVars, rtVars, jobVars, approvals, flagVars>>

(* The confirmation was refused, expired or failed while its task is active: *)
(* request() interrupts the session, rotates and closes the runtime.  One    *)
(* refusal of a run: a second one is only possible while the closer of the   *)
(* first, whose thread gave up, has not run yet.                             *)
DispatchRefuse ==
  LET s == SessionOf[call.task]
  IN
  /\ call.st = "asking" /\ call.task = activeTask
  /\ closer[<<"confirm", call.from>>] = "idle"
  /\ call' = [call EXCEPT !.st = "stopping"]
  /\ Flag(s)
  /\ hit' = hit \cup {activeTask}
  /\ Rotate(s)
  /\ StartCloser(<<"confirm", call.from>>)
  /\ UNCHANGED <<workVars, turnVars, nonce, harness, dead, policySession, victim,
                 jobVars, approvals>>

(* fault: the closer is started and not awaited *)
DispatchStoppedEarly ==
  /\ call.st = "stopping"
  /\ call' = NoCall
  /\ UNCHANGED <<workVars, turnVars, regVars, rtVars, jobVars, approvals, flagVars>>

DispatchStopped ==
  /\ call.st = "stopping" /\ closer[<<"confirm", call.from>>] = "done"
  /\ call' = NoCall
  /\ UNCHANGED <<workVars, turnVars, regVars, rtVars, jobVars, approvals, flagVars>>

(* The asking thread waits for 100 seconds; then it answers with its exception. *)
DispatchGivesUp ==
  /\ "dispatch" \in GiveUps
  /\ call.st = "stopping"
  /\ call' = [call EXCEPT !.st = "late"]
  /\ UNCHANGED <<workVars, turnVars, regVars, rtVars, jobVars, approvals, flagVars>>

DispatchRaises ==
  /\ call.st = "late"
  /\ call' = NoCall
  /\ UNCHANGED <<workVars, turnVars, regVars, rtVars, jobVars, approvals, flagVars>>

-----------------------------------------------------------------------------
(* Every task of the instance has settled and every thread has ended. *)
Quiescent == /\ \A t \in Tasks : /\ work[t] = "settled"
                                 /\ reply[t] \in {"none", "done"}
                                 /\ job[t] \notin {"queued", "picked", "running"}
             /\ \A c \in Closers : closer[c] \in {"idle", "done"}
             /\ call = NoCall
             /\ UNCHANGED vars

WorkStep(t)  == \/ Submit(t) \/ Start(t) \/ Stop(t) \/ AbortReturn(t) \/ Gathered(t)
                \/ ReplyDone(t) \/ Deliver(t)
                \/ \E why \in GiveUps : GiveUp(t, why)
ReplyStep(t) == \/ TurnStart(t) \/ BeginTurn(t) \/ RecoveryFails(t)
                \/ RecoveryStopped(t) \/ Resume(t) \/ TurnClosed(t)
JobStep(t)   == PickJob(t) \/ BindJob(t) \/ RunEnds(t) \/ BindFails(t)
CloserStep(c) == CloserSwap(c) \/ CloserDone(c)
CallStep     == \/ \E t \in Tasks : DispatchBegin(t)
                \/ DispatchApprove \/ DispatchDrop \/ DispatchRefuse \/ DispatchStopped
                \/ DispatchGivesUp \/ DispatchRaises

Next == \/ \E t \in Tasks : WorkStep(t) \/ ReplyStep(t) \/ JobStep(t)
        \/ \E c \in Closers : CloserStep(c)
        \/ CallStep
        \/ Quiescent

Spec == Init /\ [][Next]_vars

(* The event loop and the threads run; a run ends by the SDK's request        *)
(* timeout, a summary by its 90 s one, a close by the shutdown timeout.       *)
Fairness ==
  /\ \A t \in Tasks :
       /\ WF_vars(Start(t)) /\ WF_vars(AbortReturn(t)) /\ WF_vars(Gathered(t))
       /\ WF_vars(ReplyDone(t)) /\ WF_vars(Deliver(t))
       /\ WF_vars(ReplyStep(t)) /\ WF_vars(JobStep(t))
  /\ \A c \in Closers : WF_vars(CloserStep(c))

FairSpec == Spec /\ Fairness

-----------------------------------------------------------------------------
(* Properties the code keeps. *)

WorkTypes ==
  /\ work \in [Tasks -> WorkState] /\ outcome \in [Tasks -> Outcome]
  /\ stopping \subseteq Tasks /\ reason \in [Tasks -> Reason]
  /\ awaits \in [Tasks -> Tasks]
TurnTypes ==
  /\ reply \in [Tasks -> ReplyState] /\ result \in [Tasks -> Result]
  /\ lease \in [Tasks -> Nat] /\ activeTask \in Tasks \cup {NoTask}
RegTypes ==
  /\ gen \in [Sessions -> Nat \ {0}] /\ regState \in [Sessions -> {"idle", "running"}]
RuntimeTypes ==
  /\ nonce \in Nat /\ harness \in BOOLEAN /\ dead \subseteq Nat
  /\ policySession \in (Sessions \X Nat \X Nat) \cup {NoSid}
  /\ closer \in [Closers -> {"idle", "queued", "closing", "done"}]
  /\ victim \in [Closers -> Nat]
JobTypes ==
  /\ job \in [Tasks -> JobState] /\ jobNonce \in [Tasks -> Nat]
  /\ jobHarness \in [Tasks -> Nat]
CallTypes ==
  /\ call \in [st : {"asking", "stopping", "late"}, from : Tasks, task : Tasks] \cup {NoCall}
  /\ approvals \subseteq Tasks \X Tasks
FlagTypes == interrupts \subseteq Sessions /\ hit \subseteq Tasks

(* Type invariant of every variable above. *)
TypeOK == /\ WorkTypes /\ TurnTypes /\ RegTypes /\ RuntimeTypes
          /\ JobTypes /\ CallTypes /\ FlagTypes

(* The registry file says "running" only for the turn that is in flight, under *)
(* its current generation, whatever mixture of finish and rotate calls its end *)
(* and the stops around it made: the next begin() after a crash rotates the    *)
(* sessions the crash cut off and no others.                                   *)
RegistryMarksLiveTurn ==
  \A s \in Sessions : regState[s] = "running" =>
     ActiveIn(s) /\ lease[activeTask] = gen[s]

(* A turn that was told to stop while it ran never returns a normal reply,     *)
(* even when its run completes before the stop takes effect.                   *)
StoppedTurnNeverSucceeds == \A t \in hit : result[t] # "ok"

(* _turn_lock: one turn at a time... *)
OneTurn ==
  \A t, u \in Tasks : reply[t] \in InTurn /\ reply[u] \in InTurn => t = u
(* ... and the active ids are those of the turn inside _operation_lock. *)
ActiveOperates ==
  \A t \in Tasks : activeTask = t <=> reply[t] \in InOperation
(* A stop that reached a turn is remembered until that turn consumes it. *)
StopMarked ==
  \A t \in hit : /\ reply[t] \notin {"none", "turnwait", "recovering"}
                 /\ reply[t] = "executing" => SessionOf[t] \in interrupts
(* A reply has a result when it is done, and is not created before Start.      *)
ResultAtEnd == \A t \in Tasks : reply[t] # "done" => result[t] = "none"
StartedOnce == \A t \in Tasks : work[t] \in {"idle", "queued"} => reply[t] = "none"

(* The inductive invariant behind the two properties above: the turn lock, the *)
(* active ids, the stop flag and the registry file agree with each other in    *)
(* every interleaving of turns, stops and aborts.                              *)
TurnInv == /\ StartedOnce /\ ResultAtEnd
           /\ OneTurn /\ ActiveOperates /\ StopMarked
           /\ StoppedTurnNeverSucceeds /\ RegistryMarksLiveTurn

(* A running job is on the runtime that a stop would take, or on one that some *)
(* closer holds or has closed: no run escapes the reach of the bridge.         *)
RunReachable ==
  \A t \in Tasks : job[t] = "running" =>
     \/ harness /\ jobHarness[t] = nonce
     \/ jobHarness[t] \in dead
     \/ \E c \in Closers : closer[c] = "closing" /\ victim[c] = jobHarness[t]

(* A task settles with its reply still draining only if a stop interrupted an  *)
(* abort that a timeout or a lost stream had begun.                            *)
DrainedUnlessAbortCut ==
  \A t \in Tasks : work[t] = "settled" /\ reply[t] \notin {"none", "done"} =>
     t \in stopping /\ reason[t] \in {"timeout", "stream"}

(* The runs that a turn leaves behind: it was stopped or given up, or its SDK   *)
(* call raised and it took a stop mark for its own, with which it ends as       *)
(* stopped and keeps the runtime (_reply_impl).                                *)
LeftBehind(t) ==
  /\ reply[t] = "done"
  /\ reason[t] # "none" \/ (job[t] = "raised" /\ result[t] = "interrupted")

(* "... runtime replacement invalidates approval" (_authorize_dispatch): a     *)
(* decision that was pending while a closer took the runtime of the asking run *)
(* is never returned as an approval.  And although the code takes the active   *)
(* task for the one that asks, it is another only for a run left behind in one *)
(* of these ways: a turn that ends by itself, or fails and closes its runtime, *)
(* leaves no run that could ask.                                               *)
ApprovalReachesItsRun ==
  [][\A a \in approvals' \ approvals :
       /\ harness /\ jobHarness[a[1]] = nonce
       /\ a[1] # a[2] => LeftBehind(a[1])]_vars

(* "Denial/expiry must not return control to an executing agent"               *)
(* (_confirm_from_tool): when a refusal is returned to the run that asked (and  *)
(* not the exception of a thread that gave up), that run has already lost its  *)
(* runtime, to this closer or to another one.                                  *)
RefusedRunLosesRuntime ==
  [][call.st = "stopping" /\ call'.st = "idle" =>
       jobHarness[call.from] \in dead \cup {victim[c] : c \in Closers}]_vars

(* The turns refine the service of TurnService.tla: one at a time over all     *)
(* sessions (_turn_lock), and no stopped one is answered normally.             *)
StatusOf(r)  == CASE r \in {"none", "turnwait"} -> "waiting"
                  [] r = "done" -> "ended"
                  [] OTHER -> "active"
VerdictOf(r) == IF r \in {"none", "ok"} THEN r ELSE "refused"
Service == INSTANCE TurnService WITH
  status  <- [t \in Tasks |-> StatusOf(reply[t])],
  verdict <- [t \in Tasks |-> VerdictOf(result[t])],
  told    <- hit
ImplementsTurnService == Service!Spec

(* Every accepted message comes to a terminal event, and the reply it started  *)
(* ends and lets the next turn in, even when the task settled without it:       *)
(* whatever stops, give-ups and runtime failures happen around them.            *)
EveryTurnEnds ==
  \A t \in Tasks : work[t] = "queued" ~> work[t] = "settled" /\ reply[t] \in {"none", "done"}

-----------------------------------------------------------------------------
(* A claim of the documentation that the code does not keep. *)

(* "Stop the exact active task without cancelling a newer task by accident"    *)
(* (stop_task): a turn ends as stopped only if it was told to stop, or its own  *)
(* task was stopped or gave up.                                                *)
NewerTaskNotStopped ==
  \A t \in Tasks : result[t] = "interrupted" =>
     t \in hit \cup stopping \/ reason[t] # "none"
=============================================================================
