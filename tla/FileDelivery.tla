---------------------------- MODULE FileDelivery ----------------------------
(***************************************************************************)
(* The files of one task: what the deliver_file tool sends while the agent *)
(* runs (_deliver_from_tool, on broker threads), what the reply selects    *)
(* (_handle_task, on the loop), what the journal and the console's tables  *)
(* say of it, and what the console sends again (RESEND_FILE).              *)
(***************************************************************************)
EXTENDS Naturals, FiniteSets

CONSTANTS
  Calls,     \* of the deliver_file tool: 1..n
  Loop,      \* the sender of the reply's files
  Files,     \* path and digest
  Resends,   \* deliveries that the console asks for again: 1..n
  NoFile, Nobody,
  MaxBoots,  \* restarts of the process
  MaxExpiries \* how often a resend's lease may run out

ASSUME FileDeliveryAssumption ==
  /\ Loop \notin Calls /\ Nobody \notin Calls \cup {Loop}
  /\ NoFile \notin Files
  /\ MaxBoots \in Nat /\ MaxExpiries \in Nat

VARIABLES
  boots,    \* restarts so far
  turn,     \* of the task: running, sending (the reply's files), over
  outcome,  \* agent_tasks.status: none, succeeded, partial_succeeded, cancelled, interrupted
  failed,   \* the task's list of files that were not confirmed
  todo,     \* files that the reply selected and that wait for their turn
  phase,    \* of a sender's coroutine: new, queued, sending, accepted, done
  file,     \* the file of a sender
  answer,   \* what a tool's thread told the agent
  cut,      \* calls whose time-out has cancelled the coroutine, unknown to it yet
  lock,     \* FileDeliverySession._lock
  results,  \* FileDeliverySession.results
  stored,   \* the journal's deliveries
  row,      \* file_deliveries.status, of the task's delivery of a file
  copies,   \* how often the platform took a file from the task
  again,    \* resends whose row in file_deliveries says SENT
  command,  \* its control command: none, PENDING, RUNNING, over
  attempt,  \* the worker's step with it: idle, claimed, sending, accepted
  expired,  \* how often the command's lease ran out
  resent    \* how often the platform took it

task == <<turn, outcome, failed, todo>>
senders == <<phase, file, answer, cut, lock>>
records == <<results, stored, row, copies>>
console == <<again, command, attempt, expired, resent>>
vars == <<boots, task, senders, records, console>>

Senders == Calls \cup {Loop}
Receipts == {"none", "unknown", "sent"}
Outcomes == {"none", "succeeded", "partial_succeeded", "cancelled", "interrupted"}
Rows == {"NONE", "PENDING", "UPLOADING", "SENT", "UNKNOWN", "FAILED"}
Busy(s) == phase[s] \in {"queued", "sending", "accepted"}

TypeOK ==
  /\ boots \in 0..MaxBoots
  /\ turn \in {"running", "sending", "over"}
  /\ outcome \in Outcomes
  /\ failed \subseteq Files /\ todo \subseteq Files
  /\ phase \in [Senders -> {"new", "queued", "sending", "accepted", "done"}]
  /\ file \in [Senders -> Files \cup {NoFile}]
  /\ answer \in [Calls -> Receipts]
  /\ cut \subseteq Calls
  /\ lock \in Senders \cup {Nobody}
  /\ results \in [Files -> Receipts] /\ stored \in [Files -> Receipts]
  /\ row \in [Files -> Rows]
  /\ copies \in [Files -> Nat]
  /\ again \subseteq Resends
  /\ command \in [Resends -> {"none", "PENDING", "RUNNING", "over"}]
  /\ attempt \in [Resends -> {"idle", "claimed", "sending", "accepted"}]
  /\ expired \in [Resends -> 0..MaxExpiries]
  /\ resent \in [Resends -> Nat]

Init ==
  /\ boots = 0 /\ turn = "running" /\ outcome = "none" /\ failed = {} /\ todo = {}
  /\ phase = [s \in Senders |-> "new"] /\ file = [s \in Senders |-> NoFile]
  /\ answer = [c \in Calls |-> "none"] /\ cut = {} /\ lock = Nobody
  /\ results = [f \in Files |-> "none"] /\ stored = [f \in Files |-> "none"]
  /\ row = [f \in Files |-> "NONE"] /\ copies = [f \in Files |-> 0]
  /\ again = {}
  /\ command = [d \in Resends |-> "none"] /\ attempt = [d \in Resends |-> "idle"]
  /\ expired = [d \in Resends |-> 0] /\ resent = [d \in Resends |-> 0]
-----------------------------------------------------------------------------
\* FileDeliverySession.send, by a tool call or by the loop.

\* A receipt reaches the tool's thread, unless it has given up, or the loop's list.
Reports(s, receipt) ==
  IF s = Loop
    THEN /\ failed' = IF receipt = "sent" THEN failed ELSE failed \cup {file[s]}
         /\ UNCHANGED answer
    ELSE /\ answer' = IF s \in cut THEN answer ELSE [answer EXCEPT ![s] = receipt]
         /\ UNCHANGED failed

Ends(s) == phase' = [phase EXCEPT ![s] = "done"] /\ cut' = cut \ {s}
Frees(s) == lock' = IF lock = s THEN Nobody ELSE lock

\* safe_record: an event of the delivery updates its row, or is lost with its exception.
Tells(f, status) == row' \in {row, [row EXCEPT ![f] = status]}

\* FAULT: a receipt that is not a success does not count as an attempt.
KnownSent(f) == IF results[f] = "sent" THEN "sent" ELSE "none"

\* The receipt of an earlier attempt: results, or the row that claim_delivery finds.
Known(f) == IF results[f] # "none" THEN results[f] ELSE stored[f]

Duplicate(s) ==
  /\ phase[s] = "queued" /\ lock = Nobody /\ Known(file[s]) # "none"
  /\ results' = [results EXCEPT ![file[s]] = Known(file[s])]
  /\ Ends(s) /\ Reports(s, Known(file[s]))
  /\ UNCHANGED <<boots, turn, outcome, todo, file, lock, stored, row, copies, console>>

\* No attempt: an unusable path, or a journal that does not take the claim.
Refused(s) ==
  /\ phase[s] = "queued"
  /\ Ends(s) /\ Reports(s, "unknown")
  /\ UNCHANGED <<boots, turn, outcome, todo, file, lock, records, console>>

\* The claim comes first: an attempt that nobody hears of again stays unknown.
Claim(s) ==
  /\ phase[s] = "queued" /\ lock = Nobody /\ Known(file[s]) = "none"
  /\ lock' = s
  /\ results' = [results EXCEPT ![file[s]] = "unknown"]
  /\ stored' = [stored EXCEPT ![file[s]] = "unknown"]
  /\ Tells(file[s], "UPLOADING")
  /\ phase' = [phase EXCEPT ![s] = "sending"]
  /\ UNCHANGED <<boots, task, file, answer, cut, copies, console>>

Accepted(s) ==
  /\ phase[s] = "sending"
  /\ phase' = [phase EXCEPT ![s] = "accepted"]
  /\ copies' = [copies EXCEPT ![file[s]] = @ + 1]
  /\ UNCHANGED <<boots, task, file, answer, cut, lock, results, stored, row, console>>

\* The event, then the memory, then the journal, whose exception hides the receipt.
Recorded(s, receipt, status) ==
  /\ Tells(file[s], status)
  /\ results' = [results EXCEPT ![file[s]] = receipt]
  /\ \/ stored' = [stored EXCEPT ![file[s]] = receipt] /\ Reports(s, receipt)
     \/ UNCHANGED stored /\ Reports(s, "unknown")
  /\ Ends(s) /\ Frees(s)
  /\ UNCHANGED <<boots, turn, outcome, todo, file, copies, console>>

\* FAULT: what is written is taken as sent.
AckedEarly(s) == phase[s] \in {"sending", "accepted"} /\ Recorded(s, "sent", "SENT")
Acked(s) == phase[s] = "accepted" /\ Recorded(s, "sent", "SENT")

\* An exception says nothing of what the platform did.
Fails(s) == phase[s] \in {"sending", "accepted"} /\ Recorded(s, "unknown", "UNKNOWN")
-----------------------------------------------------------------------------
\* The deliver_file tool, while the task's channel is bound.
Call(c, f) ==
  /\ phase[c] = "new" /\ \A b \in Calls : b < c => phase[b] # "new"
  /\ turn = "running"
  /\ phase' = [phase EXCEPT ![c] = "queued"]
  /\ file' = [file EXCEPT ![c] = f]
  /\ UNCHANGED <<boots, task, answer, cut, lock, records, console>>

\* After 65 seconds the thread answers; its cancellation is a later step of the loop.
TimesOut(c) ==
  /\ Busy(c) /\ c \notin cut
  /\ cut' = cut \cup {c}
  /\ answer' = [answer EXCEPT ![c] = "unknown"]
  /\ UNCHANGED <<boots, task, phase, file, lock, records, console>>

\* FAULT: the cancelled coroutine leaves without the lock's release.
CutWithLock(c) ==
  /\ c \in cut
  /\ Ends(c) /\ UNCHANGED lock
  /\ UNCHANGED <<boots, task, file, answer, records, console>>

\* Neither the journal nor the console's row hears of the cancellation.
Cut(c) ==
  /\ c \in cut
  /\ Ends(c) /\ Frees(c)
  /\ UNCHANGED <<boots, task, file, answer, records, console>>
-----------------------------------------------------------------------------
\* The task: _handle_task after the reply, or its stop.
Over(result) == turn' = "over" /\ outcome' = result /\ todo' = {}

\* The stop of the run (its failure does the same with another status).
Stop ==
  /\ turn = "running" /\ Over("cancelled")
  /\ UNCHANGED <<boots, failed, senders, records, console>>

\* A stop while the reply is sent: the cancellation reaches the loop at the file under way,
\* of which only the memory hears, or at the notice or the summary.
StopSending ==
  /\ turn = "sending" /\ Over("cancelled")
  /\ IF Busy(Loop) THEN Ends(Loop) /\ Frees(Loop) ELSE UNCHANGED <<phase, cut, lock>>
  /\ UNCHANGED <<boots, failed, file, answer, records, console>>

\* FAULT: only the files of the reply count.
AttemptsOfReply == {}

\* names(sent=False): the attempts of the tool that are not confirmed.
Attempts == {f \in Files : results[f] = "unknown"}

\* The run ends with its last tool call answered, and with a selection of files;
\* the notice that goes before the files may fail.
Reply(selected) ==
  /\ turn = "running"
  /\ \A c \in Calls : Busy(c) => answer[c] # "none"
  /\ cut = {}
  /\ failed' = Attempts
  /\ \/ turn' = "sending" /\ todo' = selected /\ UNCHANGED outcome
     \/ selected # {} /\ Over("partial_succeeded")
  /\ UNCHANGED <<boots, senders, records, console>>

SendNext(f) ==
  /\ turn = "sending" /\ f \in todo /\ ~Busy(Loop)
  /\ todo' = todo \ {f}
  /\ file' = [file EXCEPT ![Loop] = f]
  /\ phase' = [phase EXCEPT ![Loop] = "queued"]
  /\ UNCHANGED <<boots, turn, outcome, failed, answer, cut, lock, records, console>>

\* The summary goes out, or fails and the task counts as partly succeeded; when the
\* journal does not take the outcome of the files, nothing is reported.
Summary ==
  /\ turn = "sending" /\ todo = {} /\ ~Busy(Loop)
  /\ \E result \in {"succeeded", "partial_succeeded", "none"} :
       (result = "succeeded" => failed = {}) /\ Over(result)
  /\ UNCHANGED <<boots, failed, senders, records, console>>
-----------------------------------------------------------------------------
\* RESEND_FILE: enqueue_delivery_retry asks for a row of the file, not for its status.
Enqueue(d, f) ==
  /\ command[d] = "none"
  /\ row[f] # "NONE"
  /\ command' = [command EXCEPT ![d] = "PENDING"]
  /\ UNCHANGED <<boots, task, senders, records, again, attempt, expired, resent>>

\* The worker claims a batch when it is done with the last one.
ClaimResends(batch) ==
  /\ \A d \in Resends : attempt[d] = "idle"
  /\ batch # {} /\ \A d \in batch : command[d] = "PENDING"
  /\ command' = [d \in Resends |-> IF d \in batch THEN "RUNNING" ELSE command[d]]
  /\ attempt' = [d \in Resends |-> IF d \in batch THEN "claimed" ELSE attempt[d]]
  /\ UNCHANGED <<boots, task, senders, records, again, expired, resent>>

\* Whoever polls the queue returns a command to it once its lease has run out, whether or
\* not the worker is still busy with it.
Expire(d) ==
  /\ command[d] = "RUNNING"
  /\ expired[d] < MaxExpiries
  /\ command' = [command EXCEPT ![d] = "PENDING"]
  /\ expired' = [expired EXCEPT ![d] = @ + 1]
  /\ UNCHANGED <<boots, task, senders, records, again, attempt, resent>>

\* The commands of a batch are executed one after the other.
ItsTurn(d) == attempt[d] = "claimed" /\ \A e \in Resends : attempt[e] \in {"idle", "claimed"}

Resend(d) ==
  /\ ItsTurn(d)
  /\ again' \in {again, again \ {d}}
  /\ attempt' = [attempt EXCEPT ![d] = "sending"]
  /\ UNCHANGED <<boots, task, senders, records, command, expired, resent>>

ResendAccepted(d) ==
  /\ attempt[d] = "sending"
  /\ attempt' = [attempt EXCEPT ![d] = "accepted"]
  /\ resent' = [resent EXCEPT ![d] = @ + 1]
  /\ UNCHANGED <<boots, task, senders, records, again, command, expired>>

\* A completion counts only while the lease holds; its exception ends the batch, and the
\* rest of it waits for the end of its leases too.
Completes(d) ==
  \/ /\ command' = IF command[d] = "RUNNING" THEN [command EXCEPT ![d] = "over"] ELSE command
     /\ attempt' = [attempt EXCEPT ![d] = "idle"]
  \/ attempt' = [e \in Resends |-> "idle"] /\ UNCHANGED command

\* The resend succeeds, fails, or fails before its start (the connection is not active).
ResendEnds(d) ==
  /\ \/ attempt[d] = "accepted" /\ again' \in {again, again \cup {d}}
     \/ attempt[d] \in {"sending", "accepted"} /\ again' \in {again, again \ {d}}
     \/ ItsTurn(d) /\ UNCHANGED again
  /\ Completes(d)
  /\ UNCHANGED <<boots, task, senders, records, expired, resent>>

\* The process dies: nothing is told, and a running command waits for the end of its
\* lease.  The next process does not know the task.
Restart ==
  /\ boots < MaxBoots /\ boots' = boots + 1
  /\ IF outcome = "none" THEN Over("interrupted") ELSE UNCHANGED <<turn, outcome, todo>>
  /\ phase' = [s \in Senders |-> "done"] /\ cut' = {} /\ lock' = Nobody
  /\ results' = [f \in Files |-> "none"]
  /\ attempt' = [d \in Resends |-> "idle"]
  /\ UNCHANGED <<failed, file, answer, stored, row, copies, again, command, expired, resent>>
-----------------------------------------------------------------------------
Sends(s) == Duplicate(s) \/ Refused(s) \/ Claim(s) \/ Accepted(s) \/ Acked(s) \/ Fails(s)

Next ==
  \/ \E s \in Senders : Sends(s)
  \/ \E c \in Calls : (\E f \in Files : Call(c, f)) \/ TimesOut(c) \/ Cut(c)
  \/ Stop \/ StopSending
  \/ (\E selected \in SUBSET Files : Reply(selected)) \/ (\E f \in Files : SendNext(f)) \/ Summary
  \/ \E d \in Resends : (\E f \in Files : Enqueue(d, f)) \/ Expire(d)
  \/ \E d \in Resends : Resend(d) \/ ResendAccepted(d) \/ ResendEnds(d)
  \/ \E batch \in SUBSET Resends : ClaimResends(batch)
  \/ Restart

Spec == Init /\ [][Next]_vars

\* The loop runs what is ready and the threads' time-outs fire; the platform answers the
\* task's own sends in the end, but may keep a tool's send waiting for ever.
FairSpec ==
  /\ Spec
  /\ \A c \in Calls : WF_vars(TimesOut(c)) /\ WF_vars(Cut(c))
  /\ \A s \in Senders : WF_vars(Duplicate(s)) /\ WF_vars(Claim(s))
  /\ WF_vars(Acked(Loop) \/ Fails(Loop))
  /\ WF_vars(\E f \in Files : SendNext(f)) /\ WF_vars(Summary)
-----------------------------------------------------------------------------
\* Whatever the tool calls of a task and its reply ask for, and however their attempts
\* end, the platform takes a file from the task at most once; it takes a resend again only
\* after the command's lease has run out: by a restart, an upload that outlasts the lease, a
\* completion that failed.
SentOnce ==
  /\ \A f \in Files : copies[f] <= 1
  /\ \A d \in Resends : resent[d] <= 1 + expired[d]

\* A receipt, a stored delivery or a row that says "sent" is of a file the platform took.
ReceiptsTrue ==
  /\ \A f \in Files : "sent" \in {results[f], stored[f]} \/ row[f] = "SENT" => copies[f] > 0
  /\ \A c \in Calls : answer[c] = "sent" => copies[file[c]] > 0
  /\ \A d \in again : resent[d] > 0

\* A task that is reported as succeeded has had every file taken that the tool or the reply
\* attempted, and the console, whose row may lag behind by lost events, calls none of them
\* failed or unconfirmed.
SuccessDelivered ==
  outcome = "succeeded" =>
    \A f \in Files : stored[f] # "none" => copies[f] = 1 /\ row[f] \in {"NONE", "UPLOADING", "SENT"}

\* The reply's files are not kept waiting by a tool's send that hangs: its time-out cancels
\* the coroutine and frees the lock.
ReplySettles == turn = "sending" ~> turn = "over"
=============================================================================
