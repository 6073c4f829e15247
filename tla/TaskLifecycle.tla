--------------------------- MODULE TaskLifecycle ---------------------------
(***************************************************************************)
(* One message from its arrival to its last event: MessageProcessor with   *)
(* its stop, end and close, the channel that feeds it, the commands of the *)
(* admin console, the status that the store shows, and restarts of the     *)
(* Bridge.  One chat; how a turn runs inside the backend is in             *)
(* HarnessTurn, the lease of a command in CommandQueue.                    *)
(***************************************************************************)
EXTENDS TaskStates, FiniteSets, Sequences

CONSTANTS
  Deliveries,   \* callbacks of the platform, in the order they arrive: 1..n
  Messages,     \* message ids; a retried callback carries the id again
  Capacity,     \* of the memory of recent message ids
  Carried,      \* the messages a delivery may carry
  Uses,         \* what its text may ask for
  Cancellable,  \* tasks that the console may cancel
  MaxCommands,  \* commands of the console
  MaxFaults,    \* store calls and sends that may fail
  MaxBoots,     \* restarts of the Bridge process
  Worker,       \* AdminControlWorker
  Closer,       \* the shutdown of the process
  Chat,         \* what the worker ends, when it is not a task
  Nobody, NoMessage

ASSUME LifecycleAssumption ==
  /\ Deliveries \subseteq Nat /\ IsFiniteSet(Deliveries)
  /\ {Worker, Closer, Chat, Nobody} \cap Deliveries = {}
  /\ Cardinality({Worker, Closer, Chat, Nobody}) = 4
  /\ NoMessage \notin Messages
  /\ Carried \in [Deliveries -> SUBSET Messages]
  /\ Uses \in [Deliveries -> SUBSET {"work", "stop", "end", "other"}]
  /\ Capacity \in Nat \ {0}
  /\ MaxFaults \in Nat /\ MaxCommands \in Nat
  /\ MaxBoots \in Nat

VARIABLES
  life,      \* of the process: up, cancelling, closing, closed, down
  boots,     \* restarts so far
  recent,    \* RecentMessageIds
  claimed,   \* the table processed_messages
  msg,       \* the message a delivery carries
  use,       \* what its text asks for: work, stop, end, other
  phase,     \* where handle() and its work are suspended
  lock,      \* the delivery that holds the chat's lock
  ending,    \* who is in end_chat_session
  waits,     \* the tasks whose settling a stop, an end or the shutdown awaits
  worker,    \* what the control worker stops: a task, or the chat
  status,    \* agent_tasks.status
  cmd,       \* the command that cancels the task
  endCmd,    \* the command that ends the chat
  epoch,     \* times the chat has been ended
  faults,    \* store calls and sends that failed
  ran,       \* history: deliveries that reached the backend
  open,      \* history: deliveries whose claim failed, and which were let through
  forgot,    \* history: messages that fell out of the recent ids
  born,      \* history: the process lifetime a delivery arrived in
  lost,      \* history: tasks with an event that was not recorded
  mute,      \* history: tasks with a response that was not confirmed, or cut
  finishes   \* history: confirmed final frames

store == <<claimed, status, cmd, endCmd>>
ghosts == <<ran, open, forgot, born>>
vars == <<life, boots, recent, store, msg, use, phase, lock, ending, waits, worker,
          epoch, faults, ghosts, lost, mute, finishes>>

Started == {"greeting", "asking", "timing_out", "cutting_off", "answering", "excusing"}
Phases == {"idle", "rejecting", "refusing", "control", "replying", "apologizing", "waiting",
           "draining", "ack", "ignored", "done", "dead"} \cup Started

Live(d) == phase[d] = "waiting" \/ phase[d] \in Started    \* its work is not done, nor told to stop
Held(d) == Live(d) \/ phase[d] \in {"draining", "ack"}     \* in MessageProcessor._tasks
\* FAULT: the wait is over when the tasks have been told to stop.
SettledOnceTold(who) == \A d \in waits[who] : ~Live(d)
Settled(who) == \A d \in waits[who] : ~Held(d)

TypeOK ==
  /\ life \in {"up", "cancelling", "closing", "closed", "down"}
  /\ boots \in 0..MaxBoots
  /\ recent \in Seq(Messages)
  /\ claimed \subseteq Messages
  /\ msg \in [Deliveries -> Messages \cup {NoMessage}]
  /\ use \in [Deliveries -> {"work", "stop", "end", "other"}]
  /\ phase \in [Deliveries -> Phases]
  /\ lock \in Deliveries \cup {Nobody}
  /\ ending \in Deliveries \cup {Nobody, Worker}
  /\ waits \in [Deliveries \cup {Worker, Closer} -> SUBSET Deliveries]
  /\ worker \in Deliveries \cup {Nobody, Chat}
  /\ status \in [Deliveries -> Statuses]
  /\ cmd \in [Deliveries -> {"none", "pending", "running", "succeeded", "failed"}]
  /\ endCmd \in {"none", "pending", "running", "succeeded", "failed"}
  /\ epoch \in Nat
  /\ faults \in 0..MaxFaults
  /\ ran \subseteq Deliveries
  /\ open \subseteq Deliveries
  /\ forgot \subseteq Messages
  /\ born \in [Deliveries -> 0..MaxBoots]
  /\ lost \subseteq Deliveries
  /\ mute \subseteq Deliveries
  /\ finishes \in [Deliveries -> Nat]

Init ==
  /\ life = "up" /\ boots = 0 /\ recent = <<>> /\ claimed = {}
  /\ msg = [d \in Deliveries |-> NoMessage]
  /\ use = [d \in Deliveries |-> "work"]
  /\ phase = [d \in Deliveries |-> "idle"]
  /\ lock = Nobody /\ ending = Nobody
  /\ waits = [w \in Deliveries \cup {Worker, Closer} |-> {}]
  /\ worker = Nobody
  /\ status = [d \in Deliveries |-> NoStatus]
  /\ cmd = [d \in Deliveries |-> "none"] /\ endCmd = "none"
  /\ epoch = 0 /\ faults = 0
  /\ ran = {} /\ open = {} /\ forgot = {}
  /\ born = [d \in Deliveries |-> 0]
  /\ lost = {} /\ mute = {}
  /\ finishes = [d \in Deliveries |-> 0]
-----------------------------------------------------------------------------
\* An event of a task reaches the projection, or telemetry swallows the error.
NoteAfter(d, event, failures) ==
  \/ /\ status' = [status EXCEPT ![d] = Projected(@, event)]
     /\ faults' = faults + failures
     /\ UNCHANGED lost
  \/ /\ faults + failures < MaxFaults
     /\ faults' = faults + failures + 1
     /\ lost' = lost \cup {d}
     /\ UNCHANGED status

Note(d, event) == NoteAfter(d, event, 0)

NoNote == UNCHANGED <<status, faults, lost>>

\* A final frame is confirmed, or its send fails and the user may see nothing.
Finish(d) == finishes' = [finishes EXCEPT ![d] = @ + 1] /\ UNCHANGED mute
Mute(d) == faults < MaxFaults /\ mute' = mute \cup {d} /\ UNCHANGED finishes
LastFrame(d) ==
  \/ Finish(d) /\ NoNote
  \/ Mute(d) /\ faults' = faults + 1 /\ UNCHANGED <<status, lost>>

\* _request_stops: the work of each task of S is cancelled, once.
Stopped(S) == [d \in Deliveries |-> IF d \in S /\ Live(d) THEN "draining" ELSE phase[d]]
Tasks == {d \in Deliveries : Held(d)}
Awaiting(who, S) == [waits EXCEPT ![who] = S]

Lifetime == UNCHANGED <<life, boots, recent, claimed, msg, use, open, forgot, born>>
Control == UNCHANGED <<ending, waits, worker, cmd, endCmd, epoch>>
-----------------------------------------------------------------------------
\* The arrival of a message: everything up to the first await of handle().
Remember(m) ==
  /\ recent' = IF Len(recent) < Capacity THEN Append(recent, m) ELSE Append(Tail(recent), m)
  /\ forgot' = IF Len(recent) < Capacity THEN forgot ELSE forgot \cup {Head(recent)}

Known(m) == \E i \in 1..Len(recent) : recent[i] = m
NextIn(d) == phase[d] = "idle" /\ \A c \in Deliveries : c < d => phase[c] # "idle"

Arrive(d, m, u) ==
  /\ life \in {"up", "cancelling", "closing"} /\ NextIn(d)
  /\ m \in Carried[d] /\ u \in Uses[d]
  /\ msg' = [msg EXCEPT ![d] = m]
  /\ use' = [use EXCEPT ![d] = u]
  /\ born' = [born EXCEPT ![d] = boots]
  /\ UNCHANGED <<life, boots, lock, worker, cmd, endCmd, epoch, ran, finishes>>

Ignore(d) == phase' = [phase EXCEPT ![d] = "ignored"] /\ UNCHANGED <<ending, waits>>

DropDuplicate(d, m, u) ==
  /\ Arrive(d, m, u)
  /\ Ignore(d)
  /\ \/ Known(m) /\ UNCHANGED <<recent, forgot>>
     \/ ~Known(m) /\ m \in claimed /\ Remember(m)
  /\ NoNote
  /\ UNCHANGED <<claimed, open, mute>>

\* Neither the memory nor the table knows the message.  A claim that cannot be
\* written lets it through.
Admit(d, m, u) ==
  /\ Arrive(d, m, u)
  /\ ~Known(m)
  /\ Remember(m)
  /\ UNCHANGED mute

\* FAULT: INSERT OR IGNORE, taken for a new message.
ClaimIgnored(d, m) == claimed' = claimed \cup {m} /\ open' = open
Claim(d, m) == m \notin claimed /\ claimed' = claimed \cup {m} /\ open' = open
ClaimFails(d) == faults < MaxFaults /\ open' = open \cup {d} /\ UNCHANGED claimed

Reject(d, m, u) ==
  /\ Admit(d, m, u)
  /\ \/ Claim(d, m) /\ UNCHANGED faults
     \/ ClaimFails(d) /\ faults' = faults + 1
  /\ phase' = [phase EXCEPT ![d] = "rejecting"]
  /\ UNCHANGED <<status, lost, ending, waits>>

Closed == life \in {"closing", "closed"}

\* FAULT: the ending flag is not looked at.
TakeWorkAlways(d) == phase' = [phase EXCEPT ![d] = "waiting"] /\ UNCHANGED <<ending, waits>>

\* What the text asks for decides how handle() goes on after task.queued.
TakeWork(d) ==
  /\ IF Closed \/ ending # Nobody
       THEN phase' = [phase EXCEPT ![d] = "refusing"]
       ELSE phase' = [phase EXCEPT ![d] = "waiting"]
  /\ UNCHANGED <<ending, waits>>

TakeStop(d) ==
  /\ phase' = [Stopped(Tasks) EXCEPT ![d] = "control"]
  /\ waits' = Awaiting(d, Tasks)
  /\ UNCHANGED ending

TakeEnd(d) ==
  IF ending # Nobody
    THEN phase' = [phase EXCEPT ![d] = "apologizing"] /\ UNCHANGED <<ending, waits>>
    ELSE /\ phase' = [Stopped(Tasks) EXCEPT ![d] = "control"]
         /\ waits' = Awaiting(d, Tasks)
         /\ ending' = d

TakeOther(d) == phase' = [phase EXCEPT ![d] = "replying"] /\ UNCHANGED <<ending, waits>>

\* A refusal is projected as cancelled, a failed command as failed, in this step.
FirstEvent(d) ==
  CASE phase'[d] = "refusing"    -> "task.cancelled"
    [] phase'[d] = "apologizing" -> "task.failed"
    [] OTHER                     -> "task.queued"

Accept(d, m, u) ==
  /\ Admit(d, m, u)
  /\ \/ u = "work" /\ TakeWork(d)
     \/ u = "stop" /\ TakeStop(d)
     \/ u = "end" /\ TakeEnd(d)
     \/ u = "other" /\ TakeOther(d)
  /\ \/ Claim(d, m) /\ Note(d, FirstEvent(d))
     \/ ClaimFails(d) /\ faults' = faults + 1 /\ lost' = lost \cup {d} /\ UNCHANGED status

Receive(d, m) ==
  \E u \in {"work", "stop", "end", "other"} : DropDuplicate(d, m, u) \/ Reject(d, m, u) \/ Accept(d, m, u)
-----------------------------------------------------------------------------
\* Replies of the processor itself.
Quiet == Lifetime /\ Control /\ UNCHANGED <<lock, ran>>
Done(d) == phase' = [phase EXCEPT ![d] = "done"]

\* The answer to a rejected, refused or failed message ends its stream or is lost.
SendRefusal(d) ==
  /\ phase[d] \in {"rejecting", "refusing", "apologizing"}
  /\ Done(d)
  /\ LastFrame(d) /\ Quiet

SendControlReply(d) ==
  /\ phase[d] = "replying"
  /\ Done(d)
  /\ \/ Finish(d) /\ Note(d, "task.completed")
     \/ Mute(d) /\ NoteAfter(d, "task.failed", 1)
  /\ Quiet

\* stop_chat_session and end_chat_session return when the tasks they found are
\* settled; the end then ends the backend's session, or fails.
StopReturns(d) ==
  /\ phase[d] = "control" /\ use[d] = "stop" /\ Settled(d)
  /\ phase' = [phase EXCEPT ![d] = "replying"]
  /\ waits' = Awaiting(d, {})
  /\ NoNote /\ Lifetime
  /\ UNCHANGED <<lock, ran, ending, worker, cmd, endCmd, epoch, mute, finishes>>

EndReturns(d) ==
  /\ phase[d] = "control" /\ use[d] = "end" /\ Settled(d)
  /\ ending' = Nobody
  /\ waits' = Awaiting(d, {})
  /\ \/ /\ phase' = [phase EXCEPT ![d] = "replying"]
        /\ epoch' = epoch + 1
        /\ NoNote
     \/ /\ phase' = [phase EXCEPT ![d] = "apologizing"]
        /\ Note(d, "task.failed")
        /\ UNCHANGED epoch
  /\ Lifetime
  /\ UNCHANGED <<lock, ran, worker, cmd, endCmd, mute, finishes>>
-----------------------------------------------------------------------------
\* The work of a task: _handle_task under the chat's lock.
Working == Lifetime /\ Control /\ UNCHANGED ran
Goes(d, p) == phase' = [phase EXCEPT ![d] = p] /\ UNCHANGED lock
WorkEnds(d) == Done(d) /\ lock' = Nobody

Begin(d) ==
  /\ phase[d] = "waiting" /\ lock = Nobody
  /\ phase' = [phase EXCEPT ![d] = "greeting"]
  /\ lock' = d
  /\ Note(d, "task.started")
  /\ Working /\ UNCHANGED <<mute, finishes>>

Greet(d) ==
  /\ phase[d] = "greeting"
  /\ \/ Goes(d, "asking") /\ ran' = ran \cup {d} /\ NoNote /\ UNCHANGED <<mute, finishes>>
     \/ WorkEnds(d) /\ Mute(d) /\ NoteAfter(d, "task.failed", 1) /\ UNCHANGED ran
  /\ Lifetime /\ Control

\* The heartbeat of _reply_with_progress, and the end of a confirmation.
Beat(d) ==
  /\ phase[d] = "asking"
  /\ \E event \in {"task.progress", "task.waiting", "task.resumed"} : Note(d, event)
  /\ Working /\ UNCHANGED <<phase, lock, mute, finishes>>

Answer(d) ==
  /\ phase[d] = "asking"
  /\ Goes(d, "answering") /\ NoNote
  /\ Working /\ UNCHANGED <<mute, finishes>>

\* The backend raises: told to stop, or failed.
ReplyFails(d) ==
  /\ phase[d] = "asking"
  /\ Goes(d, "excusing")
  /\ Note(d, "task.cancelled") \/ Note(d, "task.failed")
  /\ Working /\ UNCHANGED <<mute, finishes>>

\* The time is up, or a progress update could not be sent: the backend's session
\* is aborted before the failure is reported.
GiveUp(d) ==
  /\ phase[d] = "asking"
  /\ \/ Goes(d, "timing_out") /\ NoNote /\ UNCHANGED <<mute, finishes>>
     \/ Goes(d, "cutting_off") /\ Mute(d) /\ faults' = faults + 1 /\ UNCHANGED <<status, lost>>
  /\ Working

Aborted(d) ==
  /\ \/ phase[d] = "timing_out" /\ Goes(d, "excusing") /\ Note(d, "task.timeout")
     \/ phase[d] = "cutting_off" /\ WorkEnds(d) /\ Note(d, "task.failed")
  /\ Working /\ UNCHANGED <<mute, finishes>>

Excuse(d) ==
  /\ phase[d] = "excusing"
  /\ WorkEnds(d) /\ LastFrame(d)
  /\ Working

\* Files first, then the final text; what could not be confirmed is partial.
Deliver(d) ==
  /\ phase[d] = "answering"
  /\ WorkEnds(d)
  /\ \/ Finish(d) /\ (Note(d, "task.completed") \/ Note(d, "task.partial"))
     \/ Mute(d) /\ NoteAfter(d, "task.partial", 1)
  /\ Working

\* FAULT: a cancelled task is dropped without an acknowledgement.
DrainedSilently(d) ==
  /\ phase[d] = "draining"
  /\ Done(d)
  /\ lock' = IF lock = d THEN Nobody ELSE lock
  /\ Note(d, "task.cancelled")
  /\ Working /\ UNCHANGED <<mute, finishes>>

\* FAULT: a cancelled task keeps the lock of its chat.
DrainedLocked(d) ==
  /\ phase[d] = "draining"
  /\ phase' = [phase EXCEPT ![d] = "ack"]
  /\ Note(d, "task.cancelled")
  /\ Working /\ UNCHANGED <<lock, mute, finishes>>

\* A cancelled work has drained: handle() records it and acknowledges.
Drained(d) ==
  /\ phase[d] = "draining"
  /\ phase' = [phase EXCEPT ![d] = "ack"]
  /\ lock' = IF lock = d THEN Nobody ELSE lock
  /\ Note(d, "task.cancelled")
  /\ Working /\ UNCHANGED <<mute, finishes>>

Acknowledge(d) ==
  /\ phase[d] = "ack"
  /\ Done(d) /\ LastFrame(d)
  /\ Quiet
-----------------------------------------------------------------------------
\* The admin console and the control worker.
MayCommand ==
  Cardinality({d \in Deliveries : cmd[d] # "none"}) + (IF endCmd = "none" THEN 0 ELSE 1) < MaxCommands

EnqueueCancel(d) ==
  /\ d \in Cancellable /\ status[d] \in Active /\ cmd[d] = "none" /\ MayCommand
  /\ cmd' = [cmd EXCEPT ![d] = "pending"]
  /\ status' = [status EXCEPT ![d] = "CANCEL_REQUESTED"]
  /\ Lifetime
  /\ UNCHANGED <<phase, lock, ending, waits, worker, endCmd, epoch, faults, ran, lost, mute, finishes>>

EnqueueEnd ==
  /\ endCmd = "none" /\ MayCommand
  /\ endCmd' = "pending"
  /\ NoNote /\ Lifetime
  /\ UNCHANGED <<phase, lock, ending, waits, worker, cmd, epoch, ran, mute, finishes>>

Serving == life \in {"up", "cancelling"} /\ worker = Nobody

CancelTask(d) ==
  /\ Serving /\ cmd[d] = "pending"
  /\ IF Live(d) \/ phase[d] = "draining"
       THEN /\ phase' = Stopped({d})
            /\ waits' = Awaiting(Worker, {d})
            /\ worker' = d
            /\ cmd' = [cmd EXCEPT ![d] = "running"]
       ELSE cmd' = [cmd EXCEPT ![d] = "failed"] /\ UNCHANGED <<phase, waits, worker>>
  /\ NoNote /\ Lifetime
  /\ UNCHANGED <<lock, ending, endCmd, epoch, ran, mute, finishes>>

CancelReturns(d) ==
  /\ worker = d /\ Settled(Worker)
  /\ worker' = Nobody /\ waits' = Awaiting(Worker, {})
  /\ cmd' = [cmd EXCEPT ![d] = "succeeded"]
  /\ NoNote /\ Lifetime
  /\ UNCHANGED <<phase, lock, ending, endCmd, epoch, ran, mute, finishes>>

EndChat ==
  /\ Serving /\ endCmd = "pending"
  /\ IF ending # Nobody
       THEN endCmd' = "failed" /\ UNCHANGED <<phase, waits, worker, ending>>
       ELSE /\ phase' = Stopped(Tasks)
            /\ waits' = Awaiting(Worker, Tasks)
            /\ worker' = Chat /\ ending' = Worker
            /\ endCmd' = "running"
  /\ NoNote /\ Lifetime
  /\ UNCHANGED <<lock, cmd, epoch, ran, mute, finishes>>

EndChatReturns ==
  /\ worker = Chat /\ Settled(Worker)
  /\ worker' = Nobody /\ ending' = Nobody /\ waits' = Awaiting(Worker, {})
  /\ \/ endCmd' = "succeeded" /\ epoch' = epoch + 1
     \/ endCmd' = "failed" /\ UNCHANGED epoch
  /\ NoNote /\ Lifetime
  /\ UNCHANGED <<phase, lock, cmd, ran, mute, finishes>>
-----------------------------------------------------------------------------
\* Shutdown: the channel cancels the handlers it has; a handler that is in one of
\* its own sends, or waits for a stop or an end, goes without a further event.
Cut ==
  {d \in Deliveries : phase[d] \in {"rejecting", "refusing", "control", "replying", "apologizing", "ack"}}

CancelHandlers ==
  /\ life = "up" /\ boots < MaxBoots /\ life' = "cancelling"
  /\ phase' = [d \in Deliveries |-> IF d \in Cut THEN "done" ELSE Stopped(Tasks)[d]]
  /\ mute' = mute \cup Cut
  /\ ending' = IF ending \in Cut THEN Nobody ELSE ending
  /\ waits' = [w \in DOMAIN waits |-> IF w = Closer THEN Tasks \ Cut
                                       ELSE IF w \in Cut THEN {} ELSE waits[w]]
  /\ NoNote
  /\ UNCHANGED <<boots, recent, claimed, msg, use, ghosts, lock, worker, cmd, endCmd, epoch, finishes>>

\* disconnect(), AdminControlWorker.close(), and the first part of close().
CloseProcessor ==
  /\ life = "cancelling" /\ Settled(Closer)
  /\ life' = "closing"
  /\ worker' = Nobody
  /\ ending' = IF ending = Worker THEN Nobody ELSE ending
  /\ phase' = Stopped(Tasks)
  /\ waits' = [waits EXCEPT ![Closer] = Tasks, ![Worker] = {}]
  /\ NoNote
  /\ UNCHANGED <<boots, recent, claimed, msg, use, ghosts, lock, cmd, endCmd, epoch, mute, finishes>>

CloseBackend ==
  /\ life = "closing" /\ Settled(Closer)
  /\ life' = "closed"
  /\ NoNote /\ Control
  /\ UNCHANGED <<boots, recent, claimed, msg, use, ghosts, phase, lock, mute, finishes>>

\* The process ends, by itself or not; what its coroutines held is gone.
Gone ==
  /\ life' = "down"
  /\ recent' = <<>> /\ lock' = Nobody /\ ending' = Nobody /\ worker' = Nobody
  /\ waits' = [w \in DOMAIN waits |-> {}]
  /\ NoNote
  /\ UNCHANGED <<boots, use, cmd, endCmd, epoch, ran, forgot, mute, finishes>>

AllDead == [d \in Deliveries |-> IF phase[d] \in {"idle", "ignored", "done"} THEN phase[d] ELSE "dead"]

Exit ==
  /\ \/ life = "closed"
     \/ life \in {"up", "cancelling", "closing"} /\ boots < MaxBoots
  /\ phase' = AllDead
  /\ Gone /\ UNCHANGED <<claimed, msg, open, born>>

\* ... or right between the claim of a message and its first event.
DieAfterClaim(d, m) ==
  /\ life = "up" /\ boots < MaxBoots /\ NextIn(d) /\ m \in Carried[d]
  /\ ~Known(m) /\ Claim(d, m)
  /\ msg' = [msg EXCEPT ![d] = m]
  /\ born' = [born EXCEPT ![d] = boots]
  /\ phase' = [AllDead EXCEPT ![d] = "dead"]
  /\ Gone

\* The next process reconciles what the store shows as active; the lease of a
\* command that was running has run out.
Requeued(c) == IF c = "running" THEN "pending" ELSE c

\* FAULT: a task whose cancellation was requested is forgotten.
ReconciledRunning(s) == IF s \in {"QUEUED", "RUNNING", "WAITING_CONFIRMATION"} THEN "INTERRUPTED" ELSE s
Reconciled(s) == IF s \in Active THEN "INTERRUPTED" ELSE s

Restart ==
  /\ life = "down" /\ boots < MaxBoots
  /\ life' = "up" /\ boots' = boots + 1
  /\ status' = [d \in Deliveries |-> Reconciled(status[d])]
  /\ cmd' = [d \in Deliveries |-> Requeued(cmd[d])]
  /\ endCmd' = Requeued(endCmd)
  /\ UNCHANGED <<recent, claimed, msg, use, ghosts, phase, lock, ending, waits, worker, epoch,
                 faults, lost, mute, finishes>>
-----------------------------------------------------------------------------

Respond(d) == SendRefusal(d) \/ SendControlReply(d) \/ StopReturns(d) \/ EndReturns(d)

Work(d) ==
  \/ Begin(d) \/ Greet(d) \/ Answer(d) \/ ReplyFails(d) \/ GiveUp(d) \/ Aborted(d)
  \/ Excuse(d) \/ Deliver(d) \/ Drained(d) \/ Acknowledge(d)

Serve == EndChat \/ EndChatReturns \/ \E d \in Deliveries : CancelTask(d) \/ CancelReturns(d)

Shut == CloseProcessor \/ CloseBackend \/ Restart

Next ==
  \/ \E d \in Deliveries : Respond(d) \/ Work(d) \/ Beat(d) \/ EnqueueCancel(d)
  \/ \E d \in Deliveries, m \in Messages : Receive(d, m) \/ DieAfterClaim(d, m)
  \/ EnqueueEnd \/ Serve \/ CancelHandlers \/ Shut \/ Exit

Spec == Init /\ [][Next]_vars

\* The event loop runs what is ready, a send and the backend's reply come back,
\* the control worker polls, a shutdown goes on and the Supervisor starts the
\* process again.  Nothing is assumed of messages, commands, faults and crashes.
FairSpec ==
  /\ Spec
  /\ \A d \in Deliveries : WF_vars(Respond(d)) /\ WF_vars(Work(d))
  /\ WF_vars(Serve) /\ WF_vars(Shut) /\ WF_vars(Exit /\ life = "closed")
-----------------------------------------------------------------------------
\* Over is the end of a handler: it answered, was cut by a shutdown, or died.
Over(d) == phase[d] \in {"ignored", "done", "dead"}

\* Two deliveries of one message reach the backend only if the claim of one of them
\* could not be written and the memory of recent ids lost it too: claim_message and
\* RecentMessageIds together, across restarts.
AtMostOnce ==
  \A c, d \in ran :
    c # d /\ msg[c] = msg[d] =>
      /\ {c, d} \cap open # {}
      /\ born[c] # born[d] \/ msg[d] \in forgot

\* While the process serves, a task that the store shows as active is in the hands
\* of a handler, unless the write of one of its events failed: every path out of
\* handle() and _handle_task records an end, and the start reconciles the rest.
ActiveAccounted ==
  life = "up" =>
    \A d \in Deliveries : status[d] \in Active => ~Over(d) \/ d \in lost

\* A cancellation reported to the console as done is of a task that has settled, and
\* which the store does not show as succeeded: cancel_task waits for settled.
CancelConfirmed ==
  \A d \in Deliveries :
    cmd[d] = "succeeded" =>
      /\ ~Held(d)
      /\ status[d] \in {"CANCELLED", "FAILED", "TIMED_OUT", "INTERRUPTED"} \/ d \in lost

\* handle() finishes exactly one response stream, if no send failed and no shutdown cut
\* it, and a task is shown as succeeded only after its final frame was confirmed.
StreamEnds ==
  \A d \in Deliveries :
    /\ finishes[d] <= 1
    /\ phase[d] = "done" /\ d \notin mute => finishes[d] = 1
    /\ status[d] = "SUCCEEDED" => finishes[d] = 1

\* The chat's session is ended, and the backend closed, only while no task is held: the
\* refusal of new work while ending or closing, and the wait for what was running.
Undisturbed ==
  [][epoch' # epoch \/ (life' = "closed" /\ life # "closed") => Tasks = {}]_vars

\* A terminal status is never overwritten, by an event or by a cancel request.
TerminalFinal ==
  [][\A d \in Deliveries : status[d] \in Terminal => status'[d] = status[d]]_vars

\* Every handler ends and every command of the console is answered: stops, ends,
\* cancellations and the shutdown wait for tasks, and none waits for itself.
EverythingSettles ==
  /\ \A d \in Deliveries :
       /\ phase[d] # "idle" ~> Over(d)
       /\ cmd[d] = "pending" ~> cmd[d] \in {"succeeded", "failed"}
  /\ endCmd = "pending" ~> endCmd \in {"succeeded", "failed"}
=============================================================================
