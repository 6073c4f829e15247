----------------------------- MODULE TaskStates -----------------------------
(***************************************************************************)
(* The status of a task as the admin store shows it, and what an event     *)
(* does to it: admin/task_lifecycle.py.                                    *)
(***************************************************************************)
EXTENDS Naturals

NoStatus == "none"

Terminal == {"SUCCEEDED", "PARTIAL_SUCCEEDED", "FAILED", "CANCELLED", "TIMED_OUT", "INTERRUPTED"}

\* task.received is in the table of the code, and nothing emits it.
Active == {"QUEUED", "RUNNING", "WAITING_CONFIRMATION", "CANCEL_REQUESTED"}

Statuses == Terminal \cup Active \cup {NoStatus}

\* "task.partial" stands for task.completed with the state partial_succeeded.
EventState ==
  [event \in {"task.queued", "task.started", "task.progress", "task.waiting", "task.resumed",
              "task.completed", "task.partial", "task.failed", "task.cancelled", "task.timeout"} |->
     CASE event = "task.queued"    -> "QUEUED"
       [] event = "task.waiting"   -> "WAITING_CONFIRMATION"
       [] event = "task.completed" -> "SUCCEEDED"
       [] event = "task.partial"   -> "PARTIAL_SUCCEEDED"
       [] event = "task.failed"    -> "FAILED"
       [] event = "task.cancelled" -> "CANCELLED"
       [] event = "task.timeout"   -> "TIMED_OUT"
       [] OTHER                    -> "RUNNING"]

\* FAULT: a late event overwrites a final status.
AuditOnlyActive(status, event) ==
  \/ status = "CANCEL_REQUESTED" /\ EventState[event] \notin Terminal
  \/ status = "WAITING_CONFIRMATION" /\ event \in {"task.started", "task.progress", "task.queued"}
  \/ status = "RUNNING" /\ EventState[event] = "QUEUED"

\* An event that is kept for the audit only.
AuditOnly(status, event) ==
  \/ status \in Terminal
  \/ status = "CANCEL_REQUESTED" /\ EventState[event] \notin Terminal
  \/ status = "WAITING_CONFIRMATION" /\ event \in {"task.started", "task.progress", "task.queued"}
  \/ status = "RUNNING" /\ EventState[event] = "QUEUED"

Projected(status, event) ==
  IF AuditOnly(status, event) THEN status ELSE EventState[event]
=============================================================================
