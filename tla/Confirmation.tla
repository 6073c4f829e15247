---------------------------- MODULE Confirmation ----------------------------
(***************************************************************************)
(* A tool call that needs the user's word: ConfirmationCoordinator and the *)
(* broker threads that wait for it (_authorize_dispatch and                *)
(* _confirm_from_tool), while the tasks of one chat run, are stopped and   *)
(* leave, the user answers, the timer fires, and the process restarts.     *)
(***************************************************************************)
EXTENDS TaskStates, Naturals

CONSTANTS
  Tasks,      \* of one chat, in their order: 1..n
  Requests,   \* confirmations, each with its one-time code: 1..n
  Users,      \* members of the chat
  Requester,  \* the sender of the tasks
  NoTask, NoAsker,
  MaxEnds,    \* times the chat is ended
  MaxBoots    \* restarts of the process

ASSUME ConfirmationAssumption ==
  /\ Tasks \subseteq Nat /\ Requests \subseteq Nat
  /\ NoTask \notin Tasks /\ NoAsker \notin Requests
  /\ Requester \in Users
  /\ MaxEnds \in Nat /\ MaxBoots \in Nat

VARIABLES
  boots,    \* restarts so far: the owner of a confirmation
  epoch,    \* the journal's epoch of the chat
  active,   \* _active_task_id
  flag,     \* _interrupt_requested_for has the chat
  stage,    \* of a task: new, bound, leaving, finishing, over
  begun,    \* the epoch in which a task began its turn
  status,   \* agent_tasks.status
  phase,    \* where the coroutine of a request is suspended; answered: the thread has its answer
  locker,   \* of _policy_lock; a request of the request_confirmation tool takes no lock
  task,     \* the task a request is for
  holds,    \* requests whose run still has the runtime that it asked with
  row,      \* confirmations.status
  future,   \* the answer that the coroutine waits for
  timer,    \* its time-out has fired
  answer,   \* what request() returned, or raised
  by,       \* history: who approved, and in which epoch
  gaveUp    \* history: requests whose thread gave up

turns == <<boots, epoch, active, flag, stage, begun>>
asked == <<locker, task>>
vars == <<turns, status, phase, asked, holds, row, future, timer, answer, by, gaveUp>>

\* "refused" stands for rejected, expired, cancelled and, as an answer, for an error.
Answers == {"none", "approved", "refused"}
Waits(q) == phase[q] \in {"notifying", "waiting"}              \* in ConfirmationCoordinator.waiters
Waiting(t) == \E q \in Requests : task[q] = t /\ Waits(q)
InFlight(q) == phase[q] \in {"asked", "notifying", "waiting", "closing"}

TypeOK ==
  /\ boots \in 0..MaxBoots /\ epoch \in Nat
  /\ active \in Tasks \cup {NoTask} /\ flag \in BOOLEAN
  /\ stage \in [Tasks -> {"new", "bound", "leaving", "finishing", "over"}]
  /\ begun \in [Tasks -> Nat]
  /\ status \in [Tasks -> Statuses]
  /\ phase \in [Requests -> {"new", "asked", "notifying", "waiting", "closing", "abandoned",
                           "answered", "dead"}]
  /\ locker \in Requests \cup {NoAsker}
  /\ task \in [Requests -> Tasks \cup {NoTask}]
  /\ holds \subseteq Requests
  /\ row \in [Requests -> Answers \cup {"pending"}]
  /\ future \in [Requests -> Answers]
  /\ timer \in [Requests -> BOOLEAN]
  /\ answer \in [Requests -> Answers]
  /\ by \in [Requests -> {<<>>} \cup (Users \X Nat)]
  /\ gaveUp \subseteq Requests

Init ==
  /\ boots = 0 /\ epoch = 1 /\ active = NoTask /\ flag = FALSE
  /\ stage = [t \in Tasks |-> "new"]
  /\ begun = [t \in Tasks |-> 0]
  /\ status = [t \in Tasks |-> NoStatus]
  /\ phase = [q \in Requests |-> "new"]
  /\ locker = NoAsker
  /\ task = [q \in Requests |-> NoTask]
  /\ holds = {}
  /\ row = [q \in Requests |-> "none"]
  /\ future = [q \in Requests |-> "none"]
  /\ timer = [q \in Requests |-> FALSE]
  /\ answer = [q \in Requests |-> "none"]
  /\ by = [q \in Requests |-> <<>>]
  /\ gaveUp = {}

Event(t, event) == status' = [status EXCEPT ![t] = Projected(@, event)]
-----------------------------------------------------------------------------
\* The turns of the chat's tasks, one after the other.
NoRequest == UNCHANGED <<phase, asked, holds, row, future, timer, answer, by, gaveUp>>

Start(t) ==
  /\ stage[t] = "new" /\ \A u \in Tasks : stage[u] = IF u < t THEN "over" ELSE "new"
  /\ stage' = [stage EXCEPT ![t] = "bound"]
  /\ begun' = [begun EXCEPT ![t] = epoch]
  /\ active' = t
  /\ Event(t, "task.started")
  /\ UNCHANGED <<boots, epoch, flag>> /\ NoRequest

\* The heartbeat of _reply_with_progress.
Beat(t) ==
  /\ stage[t] = "bound"
  /\ Event(t, IF Waiting(t) THEN "task.waiting" ELSE "task.progress")
  /\ UNCHANGED turns /\ NoRequest

\* A stop or the time-out of the task takes the runtime from its run.
Interrupt(t) ==
  /\ active = t /\ ~flag
  /\ flag' = TRUE /\ holds' = {}
  /\ UNCHANGED <<boots, epoch, active, stage, begun, status>>
  /\ UNCHANGED <<phase, asked, row, future, timer, answer, by, gaveUp>>

\* The reply leaves its operation, with an answer or interrupted ...
Leave(t) ==
  /\ active = t
  /\ active' = NoTask /\ flag' = FALSE
  /\ stage' = [stage EXCEPT ![t] = "leaving"]
  /\ UNCHANGED <<boots, epoch, begun, status>> /\ NoRequest

\* ... and _handle_task unbinds the task's channel: cancel_task.
Cancelled(q, t) == task[q] = t /\ Waits(q)

Unbind(t) ==
  /\ stage[t] = "leaving"
  /\ stage' = [stage EXCEPT ![t] = "finishing"]
  /\ row' = [q \in Requests |-> IF Cancelled(q, t) /\ row[q] = "pending" THEN "refused" ELSE row[q]]
  /\ future' = [q \in Requests |-> IF Cancelled(q, t) /\ future[q] = "none" THEN "refused" ELSE future[q]]
  /\ UNCHANGED <<boots, epoch, active, flag, begun, status>>
  /\ UNCHANGED <<phase, asked, holds, timer, answer, by, gaveUp>>

Finish(t) ==
  /\ stage[t] = "finishing"
  /\ stage' = [stage EXCEPT ![t] = "over"]
  /\ Event(t, "task.completed")
  /\ UNCHANGED <<boots, epoch, active, flag, begun>> /\ NoRequest

\* end_chat_session, after its tasks have settled.
EndChat ==
  /\ epoch <= MaxEnds /\ \A t \in Tasks : stage[t] \in {"new", "over"}
  /\ epoch' = epoch + 1
  /\ UNCHANGED <<boots, active, flag, stage, begun, status>> /\ NoRequest

\* The process dies; a pending row stays as it is.
Restart ==
  /\ boots < MaxBoots /\ boots' = boots + 1
  /\ active' = NoTask /\ flag' = FALSE /\ holds' = {}
  /\ stage' = [t \in Tasks |-> IF stage[t] = "new" THEN "new" ELSE "over"]
  /\ status' = [t \in Tasks |-> IF status[t] \in Active THEN "INTERRUPTED" ELSE status[t]]
  /\ phase' = [q \in Requests |-> IF InFlight(q) THEN "dead" ELSE phase[q]]
  /\ future' = [q \in Requests |-> "none"] /\ timer' = [q \in Requests |-> FALSE]
  /\ locker' = NoAsker
  /\ UNCHANGED <<epoch, begun, task, row, answer, by, gaveUp>>
-----------------------------------------------------------------------------
\* A request of the run that is executing.  The dispatches share _policy_lock.
Ask(q, t) ==
  /\ phase[q] = "new" /\ \A p \in Requests : p < q => phase[p] # "new"
  /\ active = t /\ stage[t] = "bound"
  /\ phase' = [phase EXCEPT ![q] = "asked"]
  /\ task' = [task EXCEPT ![q] = t]
  /\ holds' = holds \cup {q}
  /\ \/ UNCHANGED locker
     \/ ~Waiting(t) /\ locker \notin {p \in Requests : InFlight(p)} /\ locker' = q
  /\ UNCHANGED <<turns, status, row, future, timer, answer, by, gaveUp>>

\* FAULT: the run that asked goes on with its runtime.
FailWithKept(q) ==
  /\ answer' = [answer EXCEPT ![q] = "refused"]
  /\ phase' = [phase EXCEPT ![q] = "answered"] /\ UNCHANGED flag

\* A failure or a refusal takes the runtime from the task before it returns.
FailWith(q) ==
  /\ answer' = [answer EXCEPT ![q] = "refused"]
  /\ IF task[q] = active
       THEN phase' = [phase EXCEPT ![q] = "closing"] /\ flag' = TRUE
       ELSE phase' = [phase EXCEPT ![q] = "answered"] /\ UNCHANGED flag

StillTurn == UNCHANGED <<boots, epoch, active, stage, begun>>
Accepts(t) == t = active
Admissible(t) == ~Waiting(t) /\ begun[t] = epoch

Open(q) ==
  /\ phase[q] = "asked"
  /\ Accepts(task[q]) /\ Admissible(task[q])
  /\ phase' = [phase EXCEPT ![q] = "notifying"]
  /\ row' = [row EXCEPT ![q] = "pending"]
  /\ Event(task[q], "task.waiting")
  /\ UNCHANGED <<turns, asked, holds, future, timer, answer, by, gaveUp>>

NotOpened(q) ==
  /\ phase[q] = "asked"
  /\ \/ /\ ~Accepts(task[q])
        /\ answer' = [answer EXCEPT ![q] = "refused"]
        /\ phase' = [phase EXCEPT ![q] = "answered"] /\ UNCHANGED flag
     \/ Accepts(task[q]) /\ ~Admissible(task[q]) /\ FailWith(q)
  /\ StillTurn
  /\ UNCHANGED <<status, asked, holds, row, future, timer, by, gaveUp>>

Notified(q) ==
  /\ phase[q] = "notifying"
  /\ phase' = [phase EXCEPT ![q] = "waiting"]
  /\ UNCHANGED <<turns, status, asked, holds, row, future, timer, answer, by, gaveUp>>

\* The end of request(): the row gets the outcome if nobody has settled it.
Settled(q, outcome) ==
  /\ row' = [row EXCEPT ![q] = IF @ = "pending" THEN outcome ELSE @]
  /\ future' = [future EXCEPT ![q] = "none"]
  /\ timer' = [timer EXCEPT ![q] = FALSE]

NotifyFails(q) ==
  /\ phase[q] = "notifying"
  /\ FailWith(q)
  /\ Settled(q, "refused")
  /\ StillTurn
  /\ UNCHANGED <<status, asked, holds, by, gaveUp>>

\* FAULT: the time-out is not looked at.
OutcomeOfUser(q, outcome) == future[q] # "none" /\ outcome = future[q]

\* When the answer and the time-out are both there, either may win.
Outcome(q, outcome) ==
  \/ future[q] # "none" /\ outcome = future[q]
  \/ timer[q] /\ outcome = "refused"

\* FAULT: an approval is not projected.
ApprovedSilently(q) ==
  /\ phase[q] = "waiting" /\ Outcome(q, "approved")
  /\ phase' = [phase EXCEPT ![q] = "answered"]
  /\ answer' = [answer EXCEPT ![q] = "approved"]
  /\ Settled(q, "approved")
  /\ UNCHANGED <<turns, status, asked, holds, by, gaveUp>>

Approved(q) ==
  /\ phase[q] = "waiting" /\ Outcome(q, "approved")
  /\ phase' = [phase EXCEPT ![q] = "answered"]
  /\ answer' = [answer EXCEPT ![q] = "approved"]
  /\ Settled(q, "approved")
  /\ Event(task[q], "task.resumed")
  /\ UNCHANGED <<turns, asked, holds, by, gaveUp>>

Refused(q) ==
  /\ phase[q] = "waiting"
  /\ Outcome(q, "refused")
  /\ FailWith(q)
  /\ Settled(q, "refused")
  /\ StillTurn
  /\ UNCHANGED <<status, asked, holds, by, gaveUp>>

RuntimeClosed(q) ==
  /\ phase[q] \in {"closing", "abandoned"}
  /\ phase' = [phase EXCEPT ![q] = "answered"]
  /\ holds' = {}
  /\ UNCHANGED <<turns, status, asked, row, future, timer, answer, by, gaveUp>>

\* After 100 seconds, ten more than a request may take, the thread gives up and
\* cancels the coroutine; a close that has begun goes on in its own thread.
GiveUp(q) ==
  /\ gaveUp' = gaveUp \cup {q}
  /\ \/ /\ phase[q] = "closing"
        /\ phase' = [phase EXCEPT ![q] = "abandoned"]
        /\ UNCHANGED <<row, future, timer, answer>>
     \/ /\ phase[q] = "waiting" /\ timer[q]
        /\ phase' = [phase EXCEPT ![q] = "answered"]
        /\ answer' = [answer EXCEPT ![q] = "refused"]
        /\ Settled(q, "refused")
  /\ UNCHANGED <<turns, status, asked, holds, by>>
-----------------------------------------------------------------------------
\* FAULT: anybody who knows the code decides.
MatchesAnyone(q, u) == begun[task[q]] = epoch /\ row[q] = "pending"

\* decide(): the user's command, a step of the event loop while the code is waited for.
\* An approval after confirmations.expires, by the wall clock, counts as a refusal.
Matches(q, u) == u = Requester /\ begun[task[q]] = epoch /\ row[q] = "pending"
Decide(q, u, verdict) ==
  /\ Waits(q) /\ Matches(q, u)
  /\ row' = [row EXCEPT ![q] = verdict]
  /\ future' = [future EXCEPT ![q] = IF @ = "none" THEN verdict ELSE @]
  /\ by' = IF verdict = "approved" THEN [by EXCEPT ![q] = <<u, epoch>>] ELSE by
  /\ UNCHANGED <<turns, status, phase, asked, holds, timer, answer, gaveUp>>

\* The time-out of the wait runs on the loop's clock.
TimerFires(q) ==
  /\ phase[q] = "waiting" /\ ~timer[q]
  /\ timer' = [timer EXCEPT ![q] = TRUE]
  /\ UNCHANGED <<turns, status, phase, asked, holds, row, future, answer, by, gaveUp>>
-----------------------------------------------------------------------------
Turn == \E t \in Tasks : Start(t) \/ Beat(t) \/ Interrupt(t) \/ Leave(t) \/ Unbind(t) \/ Finish(t)

Progress(q) ==
  \/ Open(q) \/ NotOpened(q) \/ Notified(q) \/ NotifyFails(q) \/ Approved(q) \/ Refused(q)
  \/ RuntimeClosed(q)

Next ==
  \/ Turn \/ EndChat \/ Restart
  \/ \E q \in Requests :
       \/ \E t \in Tasks : Ask(q, t)
       \/ \E u \in Users, verdict \in {"approved", "refused"} : Decide(q, u, verdict)
       \/ Progress(q) \/ GiveUp(q) \/ TimerFires(q)

Spec == Init /\ [][Next]_vars

\* The loop resumes what is ready, notify() has a time-out of its own, the timer
\* fires and the thread that closes a runtime comes back.
FairSpec == Spec /\ \A q \in Requests : WF_vars(Progress(q)) /\ WF_vars(TimerFires(q))
-----------------------------------------------------------------------------
\* An approval that request() returns was given by the sender of the task, in the epoch
\* of its turn, and is the one the table keeps: decide(), the timer, cancel_task and a
\* failed notice may settle the request in any order.
ApprovalGenuine ==
  \A q \in Requests :
    answer[q] = "approved" =>
      row[q] = "approved" /\ by[q] = <<Requester, begun[task[q]]>>

\* Control returns to the run that asked only after a refused or failed request took its
\* runtime, or its turn is over, unless the thread gave up: _confirm_from_tool's
\* "Denial/expiry must not return control to an executing agent".
RefusalStops ==
  \A q \in Requests :
    phase[q] \in {"answered", "abandoned"} /\ answer[q] # "approved" =>
      active # task[q] \/ q \notin holds \/ q \in gaveUp

\* A task is shown as waiting only while a request of it waits, or it is being stopped or
\* has left, or the thread gave up: heartbeats and task.resumed in the projection.
WaitingShown ==
  \A t \in Tasks :
    status[t] = "WAITING_CONFIRMATION" =>
      \/ Waiting(t) \/ flag \/ stage[t] # "bound"
      \/ \E q \in Requests : task[q] = t /\ q \in gaveUp

\* Every broker thread gets its answer: a lost notice, an absent user and a task that
\* leaves all end the wait.
EveryRequestReturns ==
  \A q \in Requests : phase[q] = "asked" ~> phase[q] \in {"answered", "dead"}
=============================================================================
