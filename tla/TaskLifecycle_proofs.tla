------------------------- MODULE TaskLifecycle_proofs -------------------------
(***************************************************************************)
(* Proofs about TaskLifecycle.tla, for any number of deliveries, messages, *)
(* faults, commands and restarts, and any size of the memory.              *)
(***************************************************************************)
EXTENDS TaskLifecycle, FiniteSetTheorems, TLAPS

(***************************************************************************)
(* Statuses and types.                                                     *)
(***************************************************************************)
Events == DOMAIN EventState

LEMMA ProjectedType ==
  ASSUME NEW s \in Statuses, NEW e \in Events
  PROVE  Projected(s, e) \in Statuses /\ (s \in Terminal => Projected(s, e) = s)
BY DEF Events, Projected, AuditOnly, EventState, Statuses, Terminal, Active, NoStatus

LEMMA NoteType ==
  ASSUME TypeOK, NEW d \in Deliveries, NEW e \in Events, NEW k \in {0, 1},
         faults + k <= MaxFaults, NoteAfter(d, e, k)
  PROVE  /\ status' \in [Deliveries -> Statuses]
         /\ faults' \in 0..MaxFaults
         /\ lost' \subseteq Deliveries
         /\ \A c \in Deliveries : status[c] \in Terminal => status'[c] = status[c]
<1>1. status[d] \in Statuses
  BY DEF TypeOK
<1>2. Projected(status[d], e) \in Statuses
      /\ (status[d] \in Terminal => Projected(status[d], e) = status[d])
  BY <1>1, ProjectedType
<1> DEFINE new == Projected(status[d], e)
<1>3. CASE status' = [status EXCEPT ![d] = new] /\ faults' = faults + k /\ UNCHANGED lost
  <2> HIDE DEF new
  <2>1. new \in Statuses /\ (status[d] \in Terminal => new = status[d])
    BY <1>2 DEF new
  <2>2. \A c \in Deliveries : status[c] \in Terminal => status'[c] = status[c]
    BY <1>3, <2>1 DEF TypeOK
  <2>3. QED
    BY <1>3, <2>1, <2>2, LifecycleAssumption DEF TypeOK
<1>4. CASE /\ faults + k < MaxFaults /\ faults' = faults + k + 1
           /\ lost' = lost \cup {d} /\ UNCHANGED status
  BY <1>4, LifecycleAssumption DEF TypeOK
<1>5. QED
  BY <1>3, <1>4 DEF NoteAfter

LEMMA StoppedType ==
  ASSUME TypeOK, NEW S \in SUBSET Deliveries
  PROVE  Stopped(S) \in [Deliveries -> Phases]
BY DEF TypeOK, Stopped, Phases

LEMMA RememberType ==
  ASSUME TypeOK, NEW m \in Messages, Remember(m)
  PROVE  recent' \in Seq(Messages) /\ forgot' \subseteq Messages
<1>1. CASE Len(recent) < Capacity
  BY <1>1 DEF Remember, TypeOK
<1>2. CASE ~(Len(recent) < Capacity)
  <2>1. recent \in Seq(Messages) /\ recent # <<>>
    BY <1>2, LifecycleAssumption DEF TypeOK
  <2>2. Tail(recent) \in Seq(Messages) /\ Head(recent) \in Messages
    BY <2>1
  <2>3. QED
    BY <1>2, <2>2 DEF Remember, TypeOK
<1>3. QED
  BY <1>1, <1>2

LEMMA Bounds == MaxFaults \in Nat /\ MaxBoots \in Nat /\ Capacity \in Nat \ {0}
BY LifecycleAssumption

LEMMA FaultType ==
  ASSUME TypeOK, faults < MaxFaults
  PROVE  faults + 1 \in 0..MaxFaults
<1>1. faults \in 0..MaxFaults
  BY DEF TypeOK
<1>2. QED
  BY <1>1, Bounds

LEMMA InitType == Init => TypeOK
BY LifecycleAssumption DEF Init, TypeOK, Phases, Statuses, NoStatus

LEMMA WaitsType ==
  ASSUME TypeOK, NEW w \in Deliveries \cup {Worker, Closer}, NEW S \in SUBSET Deliveries
  PROVE  Awaiting(w, S) \in [Deliveries \cup {Worker, Closer} -> SUBSET Deliveries]
BY DEF TypeOK, Awaiting

LEMMA TasksType == Tasks \in SUBSET Deliveries
BY DEF Tasks

(* A message that arrives. *)
LEMMA ReceiveType ==
  ASSUME TypeOK, NEW d \in Deliveries, NEW m \in Messages, Receive(d, m)
  PROVE  TypeOK'
<1>1. PICK u \in {"work", "stop", "end", "other"} :
        DropDuplicate(d, m, u) \/ Reject(d, m, u) \/ Accept(d, m, u)
  BY DEF Receive
<1>2. ASSUME Arrive(d, m, u)
      PROVE  /\ life' \in {"up", "cancelling", "closing", "closed", "down"}
             /\ boots' \in 0..MaxBoots
             /\ msg' \in [Deliveries -> Messages \cup {NoMessage}]
             /\ use' \in [Deliveries -> {"work", "stop", "end", "other"}]
             /\ born' \in [Deliveries -> 0..MaxBoots]
             /\ lock' \in Deliveries \cup {Nobody}
             /\ worker' \in Deliveries \cup {Nobody, Chat}
             /\ cmd' \in [Deliveries -> {"none", "pending", "running", "succeeded", "failed"}]
             /\ endCmd' \in {"none", "pending", "running", "succeeded", "failed"}
             /\ epoch' \in Nat
             /\ ran' \subseteq Deliveries
             /\ finishes' \in [Deliveries -> Nat]
  BY <1>2 DEF Arrive, TypeOK
<1>3. CASE DropDuplicate(d, m, u)
  <2>1. Arrive(d, m, u)
    BY <1>3 DEF DropDuplicate
  <2>2. recent' \in Seq(Messages) /\ forgot' \subseteq Messages
    BY <1>3, RememberType DEF DropDuplicate, TypeOK
  <2>3. phase' \in [Deliveries -> Phases]
    BY <1>3 DEF DropDuplicate, Ignore, TypeOK, Phases
  <2>4. QED
    BY <1>2, <1>3, <2>1, <2>2, <2>3 DEF DropDuplicate, Ignore, NoNote, TypeOK
<1>4. ASSUME Admit(d, m, u)
      PROVE  /\ recent' \in Seq(Messages) /\ forgot' \subseteq Messages
             /\ mute' \subseteq Deliveries /\ Arrive(d, m, u)
  BY <1>4, RememberType DEF Admit, TypeOK
<1>5. CASE Reject(d, m, u)
  <2>1. Admit(d, m, u)
    BY <1>5 DEF Reject
  <2>2. claimed' \subseteq Messages /\ open' \subseteq Deliveries /\ faults' \in 0..MaxFaults
    <3>1. CASE Claim(d, m) /\ UNCHANGED faults
      BY <3>1 DEF Claim, TypeOK
    <3>2. CASE ClaimFails(d) /\ faults' = faults + 1
      BY <3>2, FaultType DEF ClaimFails, TypeOK
    <3>3. QED
      BY <1>5, <3>1, <3>2 DEF Reject
  <2>3. /\ phase' \in [Deliveries -> Phases]
        /\ status' \in [Deliveries -> Statuses] /\ lost' \subseteq Deliveries
        /\ ending' \in Deliveries \cup {Nobody, Worker}
        /\ waits' \in [Deliveries \cup {Worker, Closer} -> SUBSET Deliveries]
    BY <1>5 DEF Reject, TypeOK, Phases
  <2>4. QED
    BY <1>2, <1>4, <2>1, <2>2, <2>3 DEF TypeOK
<1>6. CASE Accept(d, m, u)
  <2>1. Admit(d, m, u)
    BY <1>6 DEF Accept
  <2>2. /\ phase' \in [Deliveries -> Phases]
        /\ ending' \in Deliveries \cup {Nobody, Worker}
        /\ waits' \in [Deliveries \cup {Worker, Closer} -> SUBSET Deliveries]
    <3>1. CASE TakeWork(d)
      BY <3>1 DEF TakeWork, TypeOK, Phases
    <3> DEFINE stopped == [Stopped(Tasks) EXCEPT ![d] = "control"]
    <3>0. /\ stopped \in [Deliveries -> Phases]
          /\ Awaiting(d, Tasks) \in [Deliveries \cup {Worker, Closer} -> SUBSET Deliveries]
      <4>1. Stopped(Tasks) \in [Deliveries -> Phases]
        BY StoppedType, TasksType
      <4>2. QED
        BY <4>1, WaitsType, TasksType DEF Phases
    <3> HIDE DEF stopped
    <3>2. CASE TakeStop(d)
      BY <3>0, <3>2 DEF TakeStop, TypeOK, stopped
    <3>3. CASE TakeEnd(d)
      <4>1. CASE ending # Nobody
        BY <3>3, <4>1 DEF TakeEnd, TypeOK, Phases
      <4>2. CASE ending = Nobody
        BY <3>0, <3>3, <4>2 DEF TakeEnd, TypeOK, stopped
      <4>3. QED
        BY <4>1, <4>2
    <3>4. CASE TakeOther(d)
      BY <3>4 DEF TakeOther, TypeOK, Phases
    <3>5. QED
      BY <1>6, <3>1, <3>2, <3>3, <3>4 DEF Accept
  <2>3. FirstEvent(d) \in Events
    BY DEF FirstEvent, Events, EventState
  <2>4. /\ claimed' \subseteq Messages /\ open' \subseteq Deliveries
        /\ status' \in [Deliveries -> Statuses]
        /\ faults' \in 0..MaxFaults /\ lost' \subseteq Deliveries
    <3>1. CASE Claim(d, m) /\ Note(d, FirstEvent(d))
      <4>1. faults + 0 <= MaxFaults
        BY LifecycleAssumption DEF TypeOK
      <4>2. NoteAfter(d, FirstEvent(d), 0)
        BY <3>1 DEF Note
      <4>3. /\ status' \in [Deliveries -> Statuses]
            /\ faults' \in 0..MaxFaults /\ lost' \subseteq Deliveries
        BY <4>1, <4>2, <2>3, NoteType
      <4>4. QED
        BY <3>1, <4>3 DEF Claim, TypeOK
    <3>2. CASE /\ ClaimFails(d) /\ faults' = faults + 1
               /\ lost' = lost \cup {d} /\ UNCHANGED status
      BY <3>2, FaultType DEF ClaimFails, TypeOK
    <3>3. QED
      BY <1>6, <3>1, <3>2 DEF Accept
  <2>5. QED
    BY <1>2, <1>4, <2>1, <2>2, <2>4 DEF TypeOK
<1>7. QED
  BY <1>1, <1>3, <1>5, <1>6

(* What the recording of an event or the sending of a last frame leaves typed. *)
LEMMA NoteKeeps ==
  ASSUME TypeOK, NEW d \in Deliveries, NEW e \in Events, Note(d, e)
  PROVE  /\ status' \in [Deliveries -> Statuses]
         /\ faults' \in 0..MaxFaults
         /\ lost' \subseteq Deliveries
         /\ \A c \in Deliveries : status[c] \in Terminal => status'[c] = status[c]
<1>1. faults + 0 <= MaxFaults
  BY Bounds DEF TypeOK
<1>2. NoteAfter(d, e, 0)
  BY DEF Note
<1>3. QED
  BY <1>1, <1>2, NoteType

LEMMA MuteNoteKeeps ==
  ASSUME TypeOK, NEW d \in Deliveries, NEW e \in Events, Mute(d), NoteAfter(d, e, 1)
  PROVE  /\ status' \in [Deliveries -> Statuses]
         /\ faults' \in 0..MaxFaults
         /\ lost' \subseteq Deliveries
         /\ mute' \subseteq Deliveries /\ finishes' \in [Deliveries -> Nat]
         /\ \A c \in Deliveries : status[c] \in Terminal => status'[c] = status[c]
<1>1. faults + 1 <= MaxFaults
  BY FaultType DEF Mute
<1>2. mute' \subseteq Deliveries /\ finishes' \in [Deliveries -> Nat]
  BY DEF Mute, TypeOK
<1>3. QED
  BY <1>1, <1>2, NoteType

LEMMA FinishKeeps ==
  ASSUME TypeOK, NEW d \in Deliveries, Finish(d)
  PROVE  mute' \subseteq Deliveries /\ finishes' \in [Deliveries -> Nat]
BY DEF Finish, TypeOK

LEMMA LastFrameKeeps ==
  ASSUME TypeOK, NEW d \in Deliveries, LastFrame(d)
  PROVE  /\ status' = status /\ lost' = lost
         /\ faults' \in 0..MaxFaults
         /\ mute' \subseteq Deliveries /\ finishes' \in [Deliveries -> Nat]
<1>1. CASE Finish(d) /\ NoNote
  BY <1>1, FinishKeeps DEF NoNote, TypeOK
<1>2. CASE Mute(d) /\ faults' = faults + 1 /\ UNCHANGED <<status, lost>>
  BY <1>2, FaultType DEF Mute, TypeOK
<1>3. QED
  BY <1>1, <1>2 DEF LastFrame

(* Replies of the processor itself. *)
LEMMA EventNames == Events = {"task.queued", "task.started", "task.progress", "task.waiting",
                              "task.resumed", "task.completed", "task.partial", "task.failed",
                              "task.cancelled", "task.timeout"}
BY DEF Events, EventState

\* A message is done with: its last frame and its last event.
LEMMA DoneType ==
  ASSUME TypeOK, NEW d \in Deliveries, Done(d), Quiet,
         status' \in [Deliveries -> Statuses], lost' \subseteq Deliveries,
         faults' \in 0..MaxFaults, mute' \subseteq Deliveries,
         finishes' \in [Deliveries -> Nat]
  PROVE  TypeOK'
<1>1. phase' \in [Deliveries -> Phases]
  BY DEF Done, TypeOK, Phases
<1>2. Lifetime /\ Control /\ lock' = lock /\ ran' = ran
  BY DEF Quiet
<1>3. QED
  BY <1>1, <1>2 DEF Lifetime, Control, TypeOK

LEMMA RespondType ==
  ASSUME TypeOK, NEW d \in Deliveries, Respond(d)
  PROVE  TypeOK'
<1>1. CASE SendRefusal(d)
  <2>1. /\ status' = status /\ lost' = lost /\ faults' \in 0..MaxFaults
        /\ mute' \subseteq Deliveries /\ finishes' \in [Deliveries -> Nat]
    BY <1>1, LastFrameKeeps DEF SendRefusal
  <2>2. status' \in [Deliveries -> Statuses] /\ lost' \subseteq Deliveries
    BY <2>1 DEF TypeOK
  <2>3. QED
    BY <1>1, <2>1, <2>2, DoneType DEF SendRefusal
<1>2. CASE SendControlReply(d)
  <2>1. "task.completed" \in Events /\ "task.failed" \in Events
    BY EventNames
  <2>2. /\ status' \in [Deliveries -> Statuses] /\ lost' \subseteq Deliveries
        /\ faults' \in 0..MaxFaults
        /\ mute' \subseteq Deliveries /\ finishes' \in [Deliveries -> Nat]
    <3>1. CASE Finish(d) /\ Note(d, "task.completed")
      BY <2>1, <3>1, NoteKeeps, FinishKeeps
    <3>2. CASE Mute(d) /\ NoteAfter(d, "task.failed", 1)
      BY <2>1, <3>2, MuteNoteKeeps
    <3>3. QED
      BY <1>2, <3>1, <3>2 DEF SendControlReply
  <2>3. QED
    BY <1>2, <2>2, DoneType DEF SendControlReply
<1>3. Awaiting(d, {}) \in [Deliveries \cup {Worker, Closer} -> SUBSET Deliveries]
  BY WaitsType
<1>4. CASE StopReturns(d)
  <2>1. phase' \in [Deliveries -> Phases]
    BY <1>4 DEF StopReturns, TypeOK, Phases
  <2>2. QED
    <3>1. waits' \in [Deliveries \cup {Worker, Closer} -> SUBSET Deliveries]
      BY <1>3, <1>4 DEF StopReturns
    <3>2. Lifetime /\ UNCHANGED <<status, faults, lost, lock, ran, ending, worker, cmd, endCmd,
                                 epoch, mute, finishes>>
      BY <1>4 DEF StopReturns, NoNote
    <3>3. QED
      BY <2>1, <3>1, <3>2 DEF Lifetime, TypeOK
<1>5. CASE EndReturns(d)
  <2>1. "task.failed" \in Events
    BY EventNames
  <2>2. /\ status' \in [Deliveries -> Statuses] /\ lost' \subseteq Deliveries
        /\ faults' \in 0..MaxFaults
    <3>1. CASE NoNote
      BY <3>1 DEF NoNote, TypeOK
    <3>2. CASE Note(d, "task.failed")
      BY <3>2, <2>1, NoteKeeps
    <3>3. QED
      BY <1>5, <3>1, <3>2 DEF EndReturns
  <2>3. phase' \in [Deliveries -> Phases] /\ epoch' \in Nat
    <3>1. [phase EXCEPT ![d] = "replying"] \in [Deliveries -> Phases]
          /\ [phase EXCEPT ![d] = "apologizing"] \in [Deliveries -> Phases]
      BY DEF TypeOK, Phases
    <3>2. epoch \in Nat
      BY DEF TypeOK
    <3>3. QED
      BY <1>5, <3>1, <3>2 DEF EndReturns
  <2>4. QED
    BY <1>3, <1>5, <2>2, <2>3 DEF EndReturns, Lifetime, TypeOK
<1>6. QED
  BY <1>1, <1>2, <1>4, <1>5 DEF Respond

(* The work of a task. *)
LEMMA WorkType ==
  ASSUME TypeOK, NEW d \in Deliveries, Work(d) \/ Beat(d)
  PROVE  /\ TypeOK'
         /\ \A c \in Deliveries : status[c] \in Terminal => status'[c] = status[c]
<1> DEFINE Noted ==
      /\ status' \in [Deliveries -> Statuses] /\ lost' \subseteq Deliveries
      /\ faults' \in 0..MaxFaults
      /\ \A c \in Deliveries : status[c] \in Terminal => status'[c] = status[c]
    Sent == mute' \subseteq Deliveries /\ finishes' \in [Deliveries -> Nat]
    Kept == phase' \in [Deliveries -> Phases] /\ lock' \in Deliveries \cup {Nobody}
<1>0. /\ "task.started" \in Events /\ "task.failed" \in Events /\ "task.cancelled" \in Events
      /\ "task.progress" \in Events /\ "task.waiting" \in Events /\ "task.resumed" \in Events
      /\ "task.timeout" \in Events /\ "task.completed" \in Events /\ "task.partial" \in Events
  BY DEF Events, EventState
<1>1. ASSUME NEW e \in Events, Note(d, e) PROVE Noted
  BY <1>1, NoteKeeps
<1>2. ASSUME NEW e \in Events, Mute(d), NoteAfter(d, e, 1) PROVE Noted /\ Sent
  BY <1>2, MuteNoteKeeps
<1>3. ASSUME NoNote PROVE Noted
  BY <1>3 DEF NoNote, TypeOK
<1>4. ASSUME LastFrame(d) PROVE Noted /\ Sent
  BY <1>4, LastFrameKeeps DEF TypeOK
<1>5. ASSUME Finish(d) PROVE Sent
  BY <1>5, FinishKeeps
<1>6. ASSUME UNCHANGED <<mute, finishes>> PROVE Sent
  BY <1>6 DEF TypeOK
<1>7. ASSUME NEW p \in Phases, Goes(d, p) PROVE Kept
  BY <1>7 DEF Goes, TypeOK
<1>8. ASSUME WorkEnds(d) PROVE Kept
  BY <1>8 DEF WorkEnds, Done, TypeOK, Phases
<1>9. ASSUME Noted, Sent, Kept, Lifetime, Control, ran' \subseteq Deliveries PROVE TypeOK'
  BY <1>9 DEF Lifetime, Control, TypeOK
<1>10. Lifetime /\ Control
  BY
  DEF Work, Beat, Begin, Greet, Answer, ReplyFails, GiveUp, Aborted, Excuse, Deliver, Drained,
      Acknowledge, Working, Quiet
<1>11. ran' \subseteq Deliveries
  BY
  DEF Work, Beat, Begin, Greet, Answer, ReplyFails, GiveUp, Aborted, Excuse, Deliver, Drained,
      Acknowledge, Working, Quiet, TypeOK
<1>12. Noted /\ Sent
  <2> HIDE DEF Noted, Sent
  <2>1. CASE Begin(d) \/ Beat(d) \/ Drained(d)
    BY <2>1, <1>0, <1>1, <1>6 DEF Begin, Beat, Drained
  <2>2. CASE Greet(d)
    BY <2>2, <1>0, <1>2, <1>3, <1>6 DEF Greet
  <2>3. CASE Answer(d) \/ ReplyFails(d) \/ Aborted(d)
    BY <2>3, <1>0, <1>1, <1>3, <1>6 DEF Answer, ReplyFails, Aborted
  <2>4. CASE GiveUp(d)
    <3>1. CASE Mute(d) /\ faults' = faults + 1 /\ UNCHANGED <<status, lost>>
      BY <3>1, <1>4 DEF LastFrame
    <3>2. QED
      BY <2>4, <3>1, <1>3, <1>6 DEF GiveUp
  <2>5. CASE Excuse(d) \/ Acknowledge(d)
    BY <2>5, <1>4 DEF Excuse, Acknowledge
  <2>6. CASE Deliver(d)
    BY <2>6, <1>0, <1>1, <1>2, <1>5 DEF Deliver
  <2>7. QED
    BY <2>1, <2>2, <2>3, <2>4, <2>5, <2>6 DEF Work
<1>13. Kept
  <2> HIDE DEF Kept
  <2>1. CASE Begin(d) \/ Beat(d) \/ Drained(d) \/ Acknowledge(d)
    BY <2>1 DEF Begin, Beat, Drained, Acknowledge, Done, Quiet, TypeOK, Phases, Started, Kept
  <2>2. CASE Greet(d) \/ Answer(d) \/ ReplyFails(d) \/ GiveUp(d) \/ Aborted(d)
    <3>1. {"asking", "answering", "excusing", "timing_out", "cutting_off"} \subseteq Phases
      BY DEF Phases, Started
    <3>2. QED
      BY <2>2, <3>1, <1>7, <1>8 DEF Greet, Answer, ReplyFails, GiveUp, Aborted
  <2>3. CASE Excuse(d) \/ Deliver(d)
    BY <2>3, <1>8 DEF Excuse, Deliver
  <2>4. QED
    BY <2>1, <2>2, <2>3 DEF Work
<1>14. QED
  <2>1. TypeOK'
    BY <1>9, <1>10, <1>11, <1>12, <1>13
  <2>2. QED
    BY <2>1, <1>12

(* The console, its worker, the end of a process and the start of the next. *)
LEMMA ConsoleType ==
  ASSUME TypeOK, EnqueueEnd \/ Serve \/ (\E d \in Deliveries : EnqueueCancel(d))
  PROVE  TypeOK'
<1>1. ASSUME NEW d \in Deliveries, EnqueueCancel(d) PROVE TypeOK'
  BY <1>1 DEF EnqueueCancel, Lifetime, TypeOK, Statuses, Active
<1>2. CASE EnqueueEnd
  BY <1>2 DEF EnqueueEnd, NoNote, Lifetime, TypeOK
<1>3. ASSUME NEW d \in Deliveries, CancelTask(d) PROVE TypeOK'
  <2>1. Stopped({d}) \in [Deliveries -> Phases]
    BY StoppedType
  <2>2. Awaiting(Worker, {d}) \in [Deliveries \cup {Worker, Closer} -> SUBSET Deliveries]
    BY WaitsType
  <2>3. /\ phase' \in [Deliveries -> Phases]
        /\ waits' \in [Deliveries \cup {Worker, Closer} -> SUBSET Deliveries]
        /\ worker' \in Deliveries \cup {Nobody, Chat}
        /\ cmd' \in [Deliveries -> {"none", "pending", "running", "succeeded", "failed"}]
    BY <1>3, <2>1, <2>2 DEF CancelTask, TypeOK
  <2>4. QED
    BY <1>3, <2>3 DEF CancelTask, NoNote, Lifetime, TypeOK
<1>4. Awaiting(Worker, {}) \in [Deliveries \cup {Worker, Closer} -> SUBSET Deliveries]
  BY WaitsType
<1>5. ASSUME NEW d \in Deliveries, CancelReturns(d) PROVE TypeOK'
  BY <1>4, <1>5 DEF CancelReturns, NoNote, Lifetime, TypeOK
<1>6. CASE EndChat
  <2>1. Stopped(Tasks) \in [Deliveries -> Phases]
    BY StoppedType, TasksType
  <2>2. Awaiting(Worker, Tasks) \in [Deliveries \cup {Worker, Closer} -> SUBSET Deliveries]
    BY WaitsType, TasksType
  <2>3. /\ phase' \in [Deliveries -> Phases]
        /\ waits' \in [Deliveries \cup {Worker, Closer} -> SUBSET Deliveries]
        /\ worker' \in Deliveries \cup {Nobody, Chat}
        /\ ending' \in Deliveries \cup {Nobody, Worker}
        /\ endCmd' \in {"none", "pending", "running", "succeeded", "failed"}
    BY <1>6, <2>1, <2>2 DEF EndChat, TypeOK
  <2>4. QED
    BY <1>6, <2>3 DEF EndChat, NoNote, Lifetime, TypeOK
<1>7. CASE EndChatReturns
  BY <1>4, <1>7 DEF EndChatReturns, NoNote, Lifetime, TypeOK
<1>8. QED
  BY <1>1, <1>2, <1>3, <1>5, <1>6, <1>7 DEF Serve

LEMMA ProcessType ==
  ASSUME TypeOK,
         CancelHandlers \/ Shut \/ Exit
           \/ (\E d \in Deliveries, m \in Messages : DieAfterClaim(d, m))
  PROVE  TypeOK'
<1>0. Stopped(Tasks) \in [Deliveries -> Phases] /\ Tasks \in SUBSET Deliveries
  BY StoppedType, TasksType
<1>1. CASE CancelHandlers
  <2>1. Cut \in SUBSET Deliveries
    BY DEF Cut
  <2>2. phase' \in [Deliveries -> Phases]
    BY <1>0, <1>1 DEF CancelHandlers, Phases
  <2>3. waits' \in [Deliveries \cup {Worker, Closer} -> SUBSET Deliveries]
    BY <1>0, <1>1, <2>1 DEF CancelHandlers, TypeOK
  <2>4. mute' \subseteq Deliveries /\ ending' \in Deliveries \cup {Nobody, Worker}
    BY <1>1, <2>1 DEF CancelHandlers, TypeOK
  <2>5. QED
    BY <1>1, <2>2, <2>3, <2>4 DEF CancelHandlers, NoNote, ghosts, TypeOK
<1>2. CASE CloseProcessor
  <2>1. waits' \in [Deliveries \cup {Worker, Closer} -> SUBSET Deliveries]
    BY <1>0, <1>2 DEF CloseProcessor, TypeOK
  <2>2. QED
    BY <1>0, <1>2, <2>1 DEF CloseProcessor, NoNote, ghosts, TypeOK
<1>3. CASE CloseBackend
  BY <1>3 DEF CloseBackend, NoNote, Control, ghosts, TypeOK
<1>4. AllDead \in [Deliveries -> Phases]
  BY DEF AllDead, TypeOK, Phases
<1>5. ASSUME Gone
      PROVE  /\ life' = "down" /\ recent' = <<>>
             /\ waits' \in [Deliveries \cup {Worker, Closer} -> SUBSET Deliveries]
  BY <1>5 DEF Gone, TypeOK
<1>6. CASE Exit
  BY <1>4, <1>5, <1>6 DEF Exit, Gone, NoNote, TypeOK
<1>7. ASSUME NEW d \in Deliveries, NEW m \in Messages, DieAfterClaim(d, m) PROVE TypeOK'
  <2>1. phase' \in [Deliveries -> Phases]
    BY <1>4, <1>7 DEF DieAfterClaim, Phases
  <2>2. /\ claimed' \subseteq Messages /\ open' \subseteq Deliveries
        /\ msg' \in [Deliveries -> Messages \cup {NoMessage}]
        /\ born' \in [Deliveries -> 0..MaxBoots]
    BY <1>7 DEF DieAfterClaim, Claim, TypeOK
  <2>3. QED
    BY <1>5, <1>7, <2>1, <2>2 DEF DieAfterClaim, Gone, NoNote, TypeOK
<1>8. CASE Restart
  <2>1. boots' \in 0..MaxBoots
    BY <1>8, Bounds DEF Restart, TypeOK
  <2>2. /\ status' \in [Deliveries -> Statuses]
        /\ cmd' \in [Deliveries -> {"none", "pending", "running", "succeeded", "failed"}]
        /\ endCmd' \in {"none", "pending", "running", "succeeded", "failed"}
    BY <1>8 DEF Restart, Reconciled, Requeued, Statuses, Terminal, TypeOK
  <2>3. QED
    BY <1>8, <2>1, <2>2 DEF Restart, ghosts, TypeOK
<1>9. QED
  BY <1>1, <1>2, <1>3, <1>6, <1>7, <1>8 DEF Shut

LEMMA StutterType == TypeOK /\ UNCHANGED vars => TypeOK'
BY DEF TypeOK, vars, store, ghosts

LEMMA NextType == TypeOK /\ [Next]_vars => TypeOK'
<1>1. SUFFICES ASSUME TypeOK, [Next]_vars PROVE TypeOK'
  OBVIOUS
<1>2. CASE \E d \in Deliveries : Respond(d) \/ Work(d) \/ Beat(d) \/ EnqueueCancel(d)
  BY <1>1, <1>2, RespondType, WorkType, ConsoleType
<1>3. CASE \E d \in Deliveries, m \in Messages : Receive(d, m) \/ DieAfterClaim(d, m)
  BY <1>1, <1>3, ReceiveType, ProcessType
<1>4. CASE EnqueueEnd \/ Serve \/ CancelHandlers \/ Shut \/ Exit
  BY <1>1, <1>4, ConsoleType, ProcessType
<1>5. CASE UNCHANGED vars
  BY <1>1, <1>5, StutterType
<1>6. QED
  BY <1>1, <1>2, <1>3, <1>4, <1>5 DEF Next

(* Every variable keeps its type. *)
THEOREM TypeCorrect == Spec => []TypeOK
<1>1. Init => TypeOK
  BY InitType
<1>2. TypeOK /\ [Next]_vars => TypeOK'
  BY NextType
<1>3. QED
  BY <1>1, <1>2, PTL DEF Spec

(***************************************************************************)
(* A terminal status is final.                                             *)
(***************************************************************************)
TerminalKept == \A d \in Deliveries : status[d] \in Terminal => status'[d] = status[d]

LEMMA RespondFinal ==
  ASSUME TypeOK, NEW d \in Deliveries, Respond(d)
  PROVE  TerminalKept
<1>0. "task.completed" \in Events /\ "task.failed" \in Events
  BY DEF Events, EventState
<1>1. CASE SendRefusal(d)
  BY <1>1, LastFrameKeeps DEF SendRefusal, TerminalKept
<1>2. CASE SendControlReply(d)
  BY <1>0, <1>2, NoteKeeps, MuteNoteKeeps DEF SendControlReply, TerminalKept
<1>3. CASE StopReturns(d)
  BY <1>3 DEF StopReturns, NoNote, TerminalKept
<1>4. CASE EndReturns(d)
  BY <1>0, <1>4, NoteKeeps DEF EndReturns, NoNote, TerminalKept
<1>5. QED
  BY <1>1, <1>2, <1>3, <1>4 DEF Respond

LEMMA ReceiveFinal ==
  ASSUME TypeOK, NEW d \in Deliveries, NEW m \in Messages, Receive(d, m)
  PROVE  TerminalKept
<1>1. PICK u \in {"work", "stop", "end", "other"} :
        DropDuplicate(d, m, u) \/ Reject(d, m, u) \/ Accept(d, m, u)
  BY DEF Receive
<1>2. CASE DropDuplicate(d, m, u)
  BY <1>2 DEF DropDuplicate, NoNote, TerminalKept
<1>3. CASE Reject(d, m, u)
  BY <1>3 DEF Reject, TerminalKept
<1>4. CASE Accept(d, m, u)
  <2>1. FirstEvent(d) \in Events
    BY DEF FirstEvent, Events, EventState
  <2>2. CASE Note(d, FirstEvent(d))
    BY <2>1, <2>2, NoteKeeps DEF TerminalKept
  <2>3. CASE UNCHANGED status
    BY <2>3 DEF TerminalKept
  <2>4. QED
    BY <1>4, <2>2, <2>3 DEF Accept
<1>5. QED
  BY <1>1, <1>2, <1>3, <1>4

LEMMA NextFinal == TypeOK /\ [Next]_vars => TerminalKept
<1>1. SUFFICES ASSUME TypeOK, [Next]_vars PROVE TerminalKept
  OBVIOUS
<1>2. ASSUME NEW d \in Deliveries, Work(d) \/ Beat(d) PROVE TerminalKept
  BY <1>1, <1>2, WorkType DEF TerminalKept
<1>3. ASSUME NEW d \in Deliveries, EnqueueCancel(d) PROVE TerminalKept
  BY <1>1, <1>3 DEF EnqueueCancel, TerminalKept, TypeOK, Active, Terminal
<1>4. CASE EnqueueEnd \/ Serve
  BY <1>4
  DEF EnqueueEnd, Serve, EndChat, EndChatReturns, CancelTask, CancelReturns, NoNote,
      TerminalKept
<1>5. CASE Restart
  BY <1>1, <1>5 DEF Restart, Reconciled, TerminalKept, TypeOK, Active, Terminal
<1>6. CASE CancelHandlers \/ CloseProcessor \/ CloseBackend \/ Exit
  BY <1>6 DEF CancelHandlers, CloseProcessor, CloseBackend, Exit, Gone, NoNote, TerminalKept
<1>7. ASSUME NEW d \in Deliveries, NEW m \in Messages, DieAfterClaim(d, m) PROVE TerminalKept
  BY <1>7 DEF DieAfterClaim, Gone, NoNote, TerminalKept
<1>8. CASE UNCHANGED vars
  BY <1>8 DEF vars, store, TerminalKept
<1>9. QED
  BY <1>1, <1>2, <1>3, <1>4, <1>5, <1>6, <1>7, <1>8, RespondFinal, ReceiveFinal DEF Next, Shut

(* No event, cancel request or reconciliation overwrites a terminal status. *)
THEOREM FinalCorrect == Spec => TerminalFinal
<1>1. TypeOK /\ [Next]_vars => [TerminalKept]_vars
  BY NextFinal
<1>2. QED
  BY <1>1, TypeCorrect, PTL DEF Spec, TerminalFinal, TerminalKept

(***************************************************************************)
(* At most once.  A delivery that entered (was neither dropped nor is yet  *)
(* to come) is in the table unless its claim failed, and in the memory of  *)
(* its process unless it fell out; a second one of the same message found  *)
(* neither.                                                                *)
(***************************************************************************)
Entered(d) == phase[d] \notin {"idle", "ignored"}

ClaimInv ==
  /\ \A d \in Deliveries : d \in ran => Entered(d)
  /\ \A d \in Deliveries : Entered(d) => msg[d] \in Messages /\ born[d] <= boots
  /\ \A d \in Deliveries : Entered(d) /\ d \notin open => msg[d] \in claimed
  /\ \A d \in Deliveries :
       Entered(d) /\ born[d] = boots /\ life # "down" => Known(msg[d]) \/ msg[d] \in forgot
  /\ \A c, d \in Deliveries :
       Entered(c) /\ Entered(d) /\ c # d /\ msg[c] = msg[d] =>
         /\ c \in open \/ d \in open
         /\ born[c] # born[d] \/ msg[d] \in forgot

LEMMA InitClaim == Init => ClaimInv
BY DEF Init, ClaimInv, Entered

(* A message that is remembered evicts one into forgot, and no other. *)
LEMMA RememberKnows ==
  ASSUME TypeOK, NEW m \in Messages, Remember(m)
  PROVE  /\ Known(m)'
         /\ forgot \subseteq forgot'
         /\ \A x \in Messages : Known(x) => Known(x)' \/ x \in forgot'
<1>0. recent \in Seq(Messages)
  BY DEF TypeOK
<1>1. CASE Len(recent) < Capacity
  <2>1. recent' = Append(recent, m) /\ forgot' = forgot
    BY <1>1 DEF Remember
  <2>2. Len(recent') = Len(recent) + 1 /\ recent'[Len(recent) + 1] = m
        /\ \A i \in 1..Len(recent) : recent'[i] = recent[i]
    BY <1>0, <2>1
  <2>3. Len(recent) \in Nat
    BY <1>0
  <2>4. QED
    BY <2>1, <2>2, <2>3 DEF Known
<1>2. CASE ~(Len(recent) < Capacity)
  <2>1. recent' = Append(Tail(recent), m) /\ forgot' = forgot \cup {Head(recent)}
    BY <1>2 DEF Remember
  <2>2. Len(recent) \in Nat /\ Len(recent) >= 1
    BY <1>0, <1>2, Bounds
  <2>3. Tail(recent) \in Seq(Messages) /\ Len(Tail(recent)) = Len(recent) - 1
        /\ \A i \in 1..(Len(recent) - 1) : Tail(recent)[i] = recent[i + 1]
    BY <1>0, <2>2
  <2>4. Len(recent') = Len(recent) /\ recent'[Len(recent)] = m
        /\ \A i \in 1..(Len(recent) - 1) : recent'[i] = recent[i + 1]
    BY <2>1, <2>2, <2>3
  <2>5. Known(m)'
    BY <2>2, <2>4 DEF Known
  <2>6. ASSUME NEW x \in Messages, Known(x) PROVE Known(x)' \/ x \in forgot'
    <3>1. PICK i \in 1..Len(recent) : recent[i] = x
      BY <2>6 DEF Known
    <3>2. CASE i = 1
      BY <1>0, <2>1, <3>1, <3>2
    <3>3. CASE i # 1
      <4>1. i - 1 \in 1..(Len(recent) - 1) /\ recent'[i - 1] = recent[(i - 1) + 1] /\ (i - 1) + 1 = i
        BY <2>2, <2>4, <3>3
      <4>2. QED
        BY <2>2, <2>4, <3>1, <4>1 DEF Known
    <3>4. QED
      BY <3>2, <3>3
  <2>7. QED
    BY <2>1, <2>5, <2>6
<1>3. QED
  BY <1>1, <1>2

(* A step in which no message arrives and no process starts. *)
LEMMA ClaimFrame ==
  ASSUME TypeOK, ClaimInv,
         UNCHANGED <<msg, born, open, claimed, boots, forgot>>,
         \A d \in Deliveries : Entered(d)' <=> Entered(d),
         (recent' = recent /\ (life' # "down" => life # "down")) \/ life' = "down",
         \A d \in Deliveries : d \in ran' => d \in ran \/ Entered(d)
  PROVE  ClaimInv'
<1>1. \A d \in Deliveries :
        Entered(d) /\ born[d] = boots /\ life' # "down" => (Known(msg[d]))' \/ msg[d] \in forgot
  BY DEF ClaimInv, Known
<1>2. QED
  BY <1>1 DEF ClaimInv

LEMMA StoppedEnters ==
  ASSUME NEW S, NEW d \in Deliveries
  PROVE  Stopped(S)[d] \notin {"idle", "ignored"} <=> Entered(d)
BY DEF Stopped, Entered, Live, Started

(* A message that arrives. *)
LEMMA ArriveClaim ==
  ASSUME TypeOK, ClaimInv, NEW d \in Deliveries, NEW m \in Messages,
         phase[d] = "idle", life # "down", ~Known(m),
         msg' = [msg EXCEPT ![d] = m], born' = [born EXCEPT ![d] = boots],
         UNCHANGED <<boots, ran>>,
         Claim(d, m) \/ ClaimFails(d),
         \/ Remember(m)
         \/ life' = "down" /\ forgot' = forgot,
         Entered(d)',
         \A c \in Deliveries : c # d => (Entered(c)' <=> Entered(c))
  PROVE  ClaimInv'
<1>1. /\ \A c \in Deliveries : c # d => msg'[c] = msg[c] /\ born'[c] = born[c]
      /\ msg'[d] = m /\ born'[d] = boots /\ boots \in Nat
  BY DEF TypeOK
<1>2. /\ forgot \subseteq forgot'
      /\ life' # "down" => Known(m)' /\ \A x \in Messages : Known(x) => Known(x)' \/ x \in forgot'
  BY RememberKnows
<1>3. claimed \subseteq claimed' /\ open \subseteq open' /\ (d \in open' \/ m \in claimed')
      /\ \A c \in Deliveries : c # d => (c \in open' <=> c \in open)
  BY DEF Claim, ClaimFails
<1>4. \A c \in Deliveries : c \in ran' => Entered(c)'
  BY DEF ClaimInv
<1>5. \A c \in Deliveries : Entered(c)' => msg'[c] \in Messages /\ born'[c] <= boots'
  BY <1>1 DEF ClaimInv
<1>6. \A c \in Deliveries : Entered(c)' /\ c \notin open' => msg'[c] \in claimed'
  BY <1>1, <1>3 DEF ClaimInv
<1>7. ASSUME NEW c \in Deliveries, Entered(c)', born'[c] = boots', life' # "down"
      PROVE  (Known(msg[c]))' \/ msg'[c] \in forgot'
  <2>1. CASE c = d
    BY <1>1, <1>2, <1>7, <2>1 DEF Known
  <2>2. CASE c # d
    <3>1. msg[c] \in Messages /\ (Known(msg[c]) \/ msg[c] \in forgot)
      BY <1>1, <1>7, <2>2 DEF ClaimInv
    <3>2. QED
      BY <1>1, <1>2, <1>7, <2>2, <3>1 DEF Known
  <2>3. QED
    BY <2>1, <2>2
<1>8. ASSUME NEW c \in Deliveries, Entered(c), c # d, msg[c] = m
      PROVE  (c \in open' \/ d \in open') /\ (born[c] # boots \/ m \in forgot')
  BY <1>2, <1>3, <1>8 DEF ClaimInv, Claim, ClaimFails
<1>9. \A b, c \in Deliveries :
        Entered(b)' /\ Entered(c)' /\ b # c /\ msg'[b] = msg'[c] =>
          /\ b \in open' \/ c \in open'
          /\ born'[b] # born'[c] \/ msg'[c] \in forgot'
  <2>1. TAKE b, c \in Deliveries
  <2>2. HAVE Entered(b)' /\ Entered(c)' /\ b # c /\ msg'[b] = msg'[c]
  <2>3. CASE b = d
    BY <1>1, <1>8, <2>2, <2>3
  <2>4. CASE c = d
    BY <1>1, <1>8, <2>2, <2>4
  <2>5. CASE b # d /\ c # d
    BY <1>1, <1>2, <1>3, <2>2, <2>5 DEF ClaimInv
  <2>6. QED
    BY <2>3, <2>4, <2>5
<1>10. QED
  BY <1>4, <1>5, <1>6, <1>7, <1>9 DEF ClaimInv

LEMMA DropClaim ==
  ASSUME TypeOK, ClaimInv, NEW d \in Deliveries, NEW m \in Messages, NEW u \in {"work", "stop", "end", "other"},
         DropDuplicate(d, m, u)
  PROVE  ClaimInv'
<1>1. /\ phase[d] = "idle" /\ phase' = [phase EXCEPT ![d] = "ignored"]
      /\ \A c \in Deliveries : c # d => msg'[c] = msg[c] /\ born'[c] = born[c]
      /\ UNCHANGED <<claimed, open, boots, life, ran>>
  BY DEF DropDuplicate, Arrive, NextIn, Ignore, TypeOK
<1>2. \A c \in Deliveries : (Entered(c)' <=> Entered(c)) /\ (Entered(c) => c # d)
  BY <1>1 DEF Entered, TypeOK
<1>3. /\ forgot \subseteq forgot'
      /\ \A x \in Messages : Known(x) => Known(x)' \/ x \in forgot'
  <2>1. CASE Remember(m)
    BY <2>1, RememberKnows
  <2>2. CASE UNCHANGED <<recent, forgot>>
    BY <2>2 DEF Known
  <2>3. QED
    BY <2>1, <2>2 DEF DropDuplicate
<1>4. ASSUME NEW c \in Deliveries, Entered(c)', born'[c] = boots', life' # "down"
      PROVE  (Known(msg[c]))' \/ msg'[c] \in forgot'
  <2>1. msg[c] \in Messages /\ (Known(msg[c]) \/ msg[c] \in forgot)
    BY <1>1, <1>2, <1>4 DEF ClaimInv
  <2>2. QED
    BY <1>1, <1>2, <1>3, <1>4, <2>1 DEF Known
<1>5. \A b, c \in Deliveries :
        Entered(b)' /\ Entered(c)' /\ b # c /\ msg'[b] = msg'[c] =>
          /\ b \in open' \/ c \in open'
          /\ born'[b] # born'[c] \/ msg'[c] \in forgot'
  BY <1>1, <1>2, <1>3 DEF ClaimInv
<1>6. /\ \A c \in Deliveries : c \in ran' => Entered(c)'
      /\ \A c \in Deliveries : Entered(c)' => msg'[c] \in Messages /\ born'[c] <= boots'
      /\ \A c \in Deliveries : Entered(c)' /\ c \notin open' => msg'[c] \in claimed'
  BY <1>1, <1>2 DEF ClaimInv
<1>7. QED
  BY <1>4, <1>5, <1>6 DEF ClaimInv

LEMMA AdmitClaim ==
  ASSUME TypeOK, ClaimInv, NEW d \in Deliveries, NEW m \in Messages,
         NEW u \in {"work", "stop", "end", "other"},
         Reject(d, m, u) \/ Accept(d, m, u)
  PROVE  ClaimInv'
<1>1. Admit(d, m, u) /\ (Claim(d, m) \/ ClaimFails(d))
  BY DEF Reject, Accept
<1>2. /\ phase[d] = "idle" /\ life # "down" /\ ~Known(m) /\ Remember(m)
      /\ msg' = [msg EXCEPT ![d] = m] /\ born' = [born EXCEPT ![d] = boots]
      /\ UNCHANGED <<boots, ran>>
  BY <1>1 DEF Admit, Arrive, NextIn
<1>3. Entered(d)' /\ \A c \in Deliveries : c # d => (Entered(c)' <=> Entered(c))
  <2>1. CASE Reject(d, m, u)
    BY <2>1 DEF Reject, Entered, TypeOK
  <2>2. CASE Accept(d, m, u)
    <3>1. \A c \in Deliveries : Stopped(Tasks)[c] \notin {"idle", "ignored"} <=> Entered(c)
      BY StoppedEnters
    <3>2. Stopped(Tasks) \in [Deliveries -> Phases]
      BY StoppedType, TasksType
    <3>3. \/ phase' = [Stopped(Tasks) EXCEPT ![d] = "control"]
          \/ \E p \in {"refusing", "waiting", "apologizing", "replying"} : phase' = [phase EXCEPT ![d] = p]
      BY <2>2 DEF Accept, TakeWork, TakeStop, TakeEnd, TakeOther
    <3>4. CASE phase' = [Stopped(Tasks) EXCEPT ![d] = "control"]
      BY <3>1, <3>2, <3>4 DEF Entered
    <3>5. CASE \E p \in {"refusing", "waiting", "apologizing", "replying"} : phase' = [phase EXCEPT ![d] = p]
      BY <3>5 DEF Entered, TypeOK
    <3>6. QED
      BY <3>3, <3>4, <3>5
  <2>3. QED
    BY <2>1, <2>2
<1>4. QED
  BY <1>1, <1>2, <1>3, ArriveClaim

LEMMA DieClaim ==
  ASSUME TypeOK, ClaimInv, NEW d \in Deliveries, NEW m \in Messages, DieAfterClaim(d, m)
  PROVE  ClaimInv'
<1>1. /\ phase[d] = "idle" /\ life # "down" /\ ~Known(m) /\ Claim(d, m)
      /\ msg' = [msg EXCEPT ![d] = m] /\ born' = [born EXCEPT ![d] = boots]
      /\ UNCHANGED <<boots, ran>> /\ life' = "down" /\ forgot' = forgot
  BY DEF DieAfterClaim, NextIn, Gone
<1>2. Entered(d)' /\ \A c \in Deliveries : c # d => (Entered(c)' <=> Entered(c))
  BY DEF DieAfterClaim, AllDead, Entered
<1>3. QED
  BY <1>1, <1>2, ArriveClaim

(* The steps of a handler, of the worker and of a shutdown admit no message. *)
LEMMA HandlerClaim ==
  ASSUME TypeOK, ClaimInv, NEW d \in Deliveries,
         Respond(d) \/ Work(d) \/ Beat(d) \/ EnqueueCancel(d)
  PROVE  ClaimInv'
<1>1. Lifetime
  BY
  DEF Respond, SendRefusal, SendControlReply, StopReturns, EndReturns, Work, Beat, Begin,
      Greet, Answer, ReplyFails, GiveUp, Aborted, Excuse, Deliver, Drained, Acknowledge,
      EnqueueCancel, Working, Quiet
<1>2. Entered(d)' <=> Entered(d)
  BY
  DEF Respond, SendRefusal, SendControlReply, StopReturns, EndReturns, Work, Beat, Begin,
      Greet, Answer, ReplyFails, GiveUp, Aborted, Excuse, Deliver, Drained, Acknowledge,
      EnqueueCancel, Goes, WorkEnds, Done, Entered, TypeOK
<1>3. \A c \in Deliveries : c # d => phase'[c] = phase[c]
  BY
  DEF Respond, SendRefusal, SendControlReply, StopReturns, EndReturns, Work, Beat, Begin,
      Greet, Answer, ReplyFails, GiveUp, Aborted, Excuse, Deliver, Drained, Acknowledge,
      EnqueueCancel, Goes, WorkEnds, Done, TypeOK
<1>4. ran' = ran \/ (ran' = ran \cup {d} /\ Entered(d))
  BY
  DEF Respond, SendRefusal, SendControlReply, StopReturns, EndReturns, Work, Beat, Begin,
      Greet, Answer, ReplyFails, GiveUp, Aborted, Excuse, Deliver, Drained, Acknowledge,
      EnqueueCancel, Working, Quiet, Entered
<1>5. QED
  BY <1>1, <1>2, <1>3, <1>4, ClaimFrame DEF Lifetime, Entered

LEMMA ServeClaim ==
  ASSUME TypeOK, ClaimInv, EnqueueEnd \/ Serve
  PROVE  ClaimInv'
<1>1. Lifetime /\ ran' = ran
  BY DEF EnqueueEnd, Serve, EndChat, EndChatReturns, CancelTask, CancelReturns
<1>2. \A c \in Deliveries : Entered(c)' <=> Entered(c)
  <2>1. phase' = phase \/ \E S \in SUBSET Deliveries : phase' = Stopped(S)
    BY TasksType DEF EnqueueEnd, Serve, EndChat, EndChatReturns, CancelTask, CancelReturns
  <2>2. QED
    BY <2>1, StoppedEnters DEF Entered
<1>3. QED
  BY <1>1, <1>2, ClaimFrame DEF Lifetime

LEMMA ShutClaim ==
  ASSUME TypeOK, ClaimInv, CancelHandlers \/ CloseProcessor \/ CloseBackend \/ Exit
  PROVE  ClaimInv'
<1>1. UNCHANGED <<msg, born, open, claimed, boots, forgot, ran>>
      /\ (life' = "down" \/ (recent' = recent /\ life # "down"))
  BY DEF CancelHandlers, CloseProcessor, CloseBackend, Exit, Gone, ghosts
<1>2. \A c \in Deliveries : Stopped(Tasks)[c] \notin {"idle", "ignored"} <=> Entered(c)
  BY StoppedEnters
<1>3. \A c \in Deliveries : Entered(c)' <=> Entered(c)
  <2>1. CASE CancelHandlers
    BY <1>2, <2>1 DEF CancelHandlers, Cut, Entered
  <2>2. CASE CloseProcessor
    BY <1>2, <2>2 DEF CloseProcessor, Entered
  <2>3. CASE CloseBackend
    BY <2>3 DEF CloseBackend, Entered
  <2>4. CASE Exit
    BY <2>4 DEF Exit, AllDead, Entered
  <2>5. QED
    BY <2>1, <2>2, <2>3, <2>4
<1>4. QED
  BY <1>1, <1>3, ClaimFrame

(* A new process: no delivery has been born in it yet. *)
LEMMA RestartClaim ==
  ASSUME TypeOK, ClaimInv, Restart
  PROVE  ClaimInv'
<1>1. UNCHANGED <<msg, born, open, claimed, forgot, ran, phase>> /\ boots' = boots + 1
  BY DEF Restart, ghosts
<1>2. \A c \in Deliveries : Entered(c)' <=> Entered(c)
  BY <1>1 DEF Entered
<1>3. boots \in Nat /\ \A c \in Deliveries : born[c] \in Nat
  BY Bounds DEF TypeOK
<1>4. \A c \in Deliveries : Entered(c) => born[c] < boots' /\ born[c] <= boots'
  BY <1>1, <1>3 DEF ClaimInv
<1>5. QED
  BY <1>1, <1>2, <1>3, <1>4 DEF ClaimInv

LEMMA NextClaim == TypeOK /\ ClaimInv /\ [Next]_vars => ClaimInv'
<1>1. SUFFICES ASSUME TypeOK, ClaimInv, [Next]_vars PROVE ClaimInv'
  OBVIOUS
<1>2. ASSUME NEW d \in Deliveries, NEW m \in Messages, Receive(d, m) PROVE ClaimInv'
  BY <1>1, <1>2, DropClaim, AdmitClaim DEF Receive
<1>3. CASE UNCHANGED vars
  BY <1>1, <1>3 DEF vars, store, ghosts, ClaimInv, Entered, Known
<1>4. QED
  BY <1>1, <1>2, <1>3, DieClaim, HandlerClaim, ServeClaim, ShutClaim, RestartClaim DEF Next, Shut

(* claim_message and RecentMessageIds together, for any restarts and faults: two *)
(* deliveries of one message reach the backend only if both lost it.             *)
THEOREM OnceCorrect == Spec => []AtMostOnce
<1>1. TypeOK /\ ClaimInv => AtMostOnce
  <2>1. SUFFICES ASSUME TypeOK, ClaimInv PROVE AtMostOnce
    OBVIOUS
  <2>2. ran \subseteq Deliveries
    BY <2>1 DEF TypeOK
  <2>3. QED
    BY <2>1, <2>2 DEF ClaimInv, AtMostOnce
<1>2. Spec => []ClaimInv
  BY InitClaim, NextClaim, TypeCorrect, PTL DEF Spec
<1>3. QED
  BY <1>1, <1>2, TypeCorrect, PTL

(***************************************************************************)
(* The end of a chat and the shutdown: what they wait for is all there is. *)
(***************************************************************************)
Ends(d) == phase[d] = "control" /\ use[d] = "end"

WaitInv ==
  /\ \A d \in Deliveries : ending = d <=> Ends(d)
  /\ ending = Worker <=> worker = Chat
  /\ ending # Nobody => Tasks \subseteq waits[ending]
  /\ life = "closing" => Tasks \subseteq waits[Closer]
  /\ life = "closed" => Tasks = {}

LEMMA Actors ==
  /\ Worker \notin Deliveries /\ Closer \notin Deliveries /\ Chat \notin Deliveries
  /\ Nobody \notin Deliveries /\ Worker # Closer /\ Worker # Nobody /\ Closer # Nobody /\ Chat # Nobody
<1>1. Worker # Closer /\ Worker # Nobody /\ Closer # Nobody /\ Chat # Nobody
  <2>1. ASSUME Worker = Closer \/ Worker = Nobody \/ Closer = Nobody \/ Chat = Nobody
        PROVE  FALSE
    <3>1. PICK x, y, z : {Worker, Closer, Chat, Nobody} = {x, y, z}
      BY <2>1
    <3>2. IsFiniteSet({x, y, z}) /\ Cardinality({x, y, z}) <= 3
      <4>2. IsFiniteSet({x}) /\ Cardinality({x}) = 1
        BY FS_Singleton
      <4>3. IsFiniteSet({x} \cup {y}) /\ Cardinality({x} \cup {y}) \in {1, 2}
        BY <4>2, FS_AddElement
      <4>4. IsFiniteSet(({x} \cup {y}) \cup {z}) /\ Cardinality(({x} \cup {y}) \cup {z}) <= 3
        BY <4>3, FS_AddElement
      <4>5. ({x} \cup {y}) \cup {z} = {x, y, z}
        OBVIOUS
      <4>6. QED
        BY <4>4, <4>5
    <3>3. QED
      BY <3>1, <3>2, LifecycleAssumption
  <2>2. QED
    BY <2>1
<1>2. QED
  BY <1>1, LifecycleAssumption

LEMMA InitWait == Init => WaitInv
BY Actors DEF Init, WaitInv, Ends, Tasks, Held

LEMMA EndingType == TypeOK => ending \in Deliveries \cup {Nobody, Worker}
BY DEF TypeOK

(* A step that holds no new task and moves neither the end nor the shutdown. *)
LEMMA WaitFrame ==
  ASSUME TypeOK, WaitInv, Tasks' \subseteq Tasks, UNCHANGED <<ending, life>>,
         worker' = Chat <=> worker = Chat,
         \A d \in Deliveries : Ends(d)' <=> Ends(d),
         ending # Nobody => waits'[ending] = waits[ending],
         waits'[Closer] = waits[Closer]
  PROVE  WaitInv'
BY DEF WaitInv

LEMMA HandlerWait ==
  ASSUME TypeOK, WaitInv, NEW d \in Deliveries,
         Respond(d) \/ Work(d) \/ Beat(d) \/ EnqueueCancel(d)
  PROVE  /\ WaitInv'
         /\ epoch' # epoch => Tasks = {}
         /\ UNCHANGED life
<1>0. Lifetime
  BY
  DEF Respond, SendRefusal, SendControlReply, StopReturns, EndReturns, Work, Beat, Begin,
      Greet, Answer, ReplyFails, GiveUp, Aborted, Excuse, Deliver, Drained, Acknowledge,
      EnqueueCancel, Working, Quiet
<1>1. \A c \in Deliveries : Held(c)' => Held(c)
  BY
  DEF Respond, SendRefusal, SendControlReply, StopReturns, EndReturns, Work, Beat, Begin,
      Greet, Answer, ReplyFails, GiveUp, Aborted, Excuse, Deliver, Drained, Acknowledge,
      EnqueueCancel, Goes, WorkEnds, Done, TypeOK, Held, Live, Started
<1>2. Tasks' \subseteq Tasks
  BY <1>1 DEF Tasks
<1>3. CASE Work(d) \/ Beat(d) \/ EnqueueCancel(d) \/ SendRefusal(d) \/ SendControlReply(d)
  <2>1. UNCHANGED <<ending, waits, worker, epoch>>
    BY <1>3
    DEF SendRefusal, SendControlReply, Work, Beat, Begin, Control, Greet, Answer,
        ReplyFails, GiveUp, Aborted, Excuse, Deliver, Drained, Acknowledge, EnqueueCancel,
        Working, Quiet
  <2>2. \A c \in Deliveries : (phase'[c] = "control") <=> (phase[c] = "control")
    BY <1>3
    DEF SendRefusal, SendControlReply, Work, Beat, Begin, Greet, Answer, ReplyFails, GiveUp,
        Aborted, Excuse, Deliver, Drained, Acknowledge, EnqueueCancel, Goes, WorkEnds, Done,
        TypeOK
  <2>3. QED
    BY <1>0, <1>2, <2>1, <2>2, WaitFrame DEF Lifetime, Ends
<1>4. CASE StopReturns(d)
  <2>1. ending # d /\ d # Closer /\ UNCHANGED <<ending, worker, epoch>>
    BY <1>4, Actors DEF StopReturns, WaitInv, Ends
  <2>2. \A c \in Deliveries : Ends(c)' <=> Ends(c)
    BY <1>0, <1>4 DEF StopReturns, Ends, TypeOK, Lifetime
  <2>3. \A w \in Deliveries \cup {Worker, Closer} : w # d => waits'[w] = waits[w]
    BY <1>4 DEF StopReturns, Awaiting, TypeOK
  <2>4. QED
    BY <1>0, <1>2, <2>1, <2>2, <2>3, WaitFrame, EndingType DEF Lifetime
<1>5. CASE EndReturns(d)
  <2>1. ending = d /\ Tasks \subseteq waits[d] /\ Settled(d)
    BY <1>5, Actors DEF EndReturns, WaitInv, Ends
  <2>2. Tasks = {} /\ Tasks' = {}
    BY <1>2, <2>1 DEF Settled, Tasks
  <2>3. /\ ending' = Nobody /\ UNCHANGED <<worker, life>>
        /\ \A c \in Deliveries : ~Ends(c)'
    BY <1>0, <1>5, <2>1 DEF EndReturns, Lifetime, WaitInv, Ends, TypeOK
  <2>4. worker # Chat
    BY <2>1, Actors DEF WaitInv
  <2>5. QED
    BY <2>2, <2>3, <2>4, Actors DEF WaitInv
<1>6. QED
  BY <1>0, <1>3, <1>4, <1>5 DEF Respond

(* A message that arrives makes a task only while nobody ends the chat or closes. *)
LEMMA ReceiveWait ==
  ASSUME TypeOK, WaitInv, NEW d \in Deliveries, NEW m \in Messages, Receive(d, m)
  PROVE  WaitInv' /\ UNCHANGED <<epoch, life>>
<1>1. PICK u \in {"work", "stop", "end", "other"} :
        DropDuplicate(d, m, u) \/ Reject(d, m, u) \/ Accept(d, m, u)
  BY DEF Receive
<1>2. Arrive(d, m, u)
  BY <1>1 DEF DropDuplicate, Reject, Accept, Admit
<1>3. /\ phase[d] = "idle" /\ UNCHANGED <<life, worker, epoch>>
      /\ use' = [use EXCEPT ![d] = u] /\ life \in {"up", "cancelling", "closing"}
  BY <1>2 DEF Arrive, NextIn
<1>4. ending # d /\ \A c \in Deliveries : c # d => use'[c] = use[c]
  BY <1>3 DEF WaitInv, Ends, TypeOK
<1>5. use'[d] = u
  BY <1>3 DEF TypeOK
<1>6. CASE /\ UNCHANGED <<ending, waits>>
           /\ \E p \in {"ignored", "rejecting", "refusing", "apologizing", "replying"} :
                phase' = [phase EXCEPT ![d] = p]
  <2>1. /\ \A c \in Deliveries : Held(c)' => Held(c)
        /\ \A c \in Deliveries : Ends(c)' <=> Ends(c)
    BY <1>3, <1>4, <1>6 DEF Held, Live, Started, Ends, TypeOK
  <2>2. Tasks' \subseteq Tasks
    BY <2>1 DEF Tasks
  <2>3. QED
    BY <1>3, <1>6, <2>1, <2>2, WaitFrame
<1>7. CASE /\ UNCHANGED <<ending, waits>> /\ ending = Nobody /\ ~Closed
           /\ phase' = [phase EXCEPT ![d] = "waiting"]
  <2>1. \A c \in Deliveries : Ends(c)' <=> Ends(c)
    BY <1>3, <1>4, <1>7 DEF Ends, TypeOK
  <2>2. QED
    BY <1>3, <1>7, <2>1 DEF Closed, WaitInv
<1>8. CASE /\ phase' = [Stopped(Tasks) EXCEPT ![d] = "control"]
           /\ waits' = Awaiting(d, Tasks)
           /\ \/ u = "stop" /\ ending' = ending
              \/ u = "end" /\ ending = Nobody /\ ending' = d
  <2>0. Stopped(Tasks) \in [Deliveries -> Phases]
    BY StoppedType, TasksType
  <2>1. /\ \A c \in Deliveries : Held(c)' => Held(c)
        /\ \A c \in Deliveries : c # d => (Ends(c)' <=> Ends(c))
        /\ phase'[d] = "control"
    BY <1>3, <1>4, <1>8, <2>0 DEF Stopped, Held, Live, Started, Ends
  <2>2. Tasks' \subseteq Tasks
    BY <2>1 DEF Tasks
  <2>3. waits'[d] = Tasks /\ \A w \in Deliveries \cup {Worker, Closer} : w # d => waits'[w] = waits[w]
    BY <1>8 DEF Awaiting, TypeOK
  <2>4. d # Closer /\ d # Worker /\ d # Nobody
    BY Actors
  <2>5. ~Ends(d) /\ (Ends(d)' <=> u = "end")
    BY <1>3, <1>5, <2>1 DEF Ends
  <2>6. CASE u = "stop"
    BY <1>3, <1>4, <1>8, <2>1, <2>2, <2>3, <2>4, <2>5, <2>6, WaitFrame, EndingType
  <2>7. CASE u = "end"
    <3>1. ending = Nobody /\ ending' = d /\ worker # Chat
      BY <1>8, <2>7, Actors DEF WaitInv
    <3>2. \A c \in Deliveries : ending' = c <=> Ends(c)'
      BY <2>1, <2>5, <2>7, <3>1, Actors DEF WaitInv
    <3>3. waits'[Closer] = waits[Closer] /\ Tasks' \subseteq waits'[ending']
      BY <2>2, <2>3, <2>4, <3>1
    <3>4. ending' # Worker /\ worker' # Chat
      BY <1>3, <2>4, <3>1
    <3>5. QED
      BY <1>3, <2>2, <3>2, <3>3, <3>4 DEF WaitInv
  <2>8. QED
    BY <1>8, <2>6, <2>7
<1>9. QED
  <2>1. CASE DropDuplicate(d, m, u)
    BY <1>3, <1>6, <2>1 DEF DropDuplicate, Ignore
  <2>2. CASE Reject(d, m, u)
    BY <1>3, <1>6, <2>2 DEF Reject
  <2>3. CASE Accept(d, m, u)
    BY <1>3, <1>6, <1>7, <1>8, <2>3 DEF Accept, TakeWork, TakeStop, TakeEnd, TakeOther
  <2>4. QED
    BY <1>1, <2>1, <2>2, <2>3

LEMMA StoppedHolds ==
  ASSUME NEW S, NEW d \in Deliveries
  PROVE  /\ (Stopped(S)[d] \in Started \cup {"waiting", "draining", "ack"}) <=> Held(d)
         /\ (Stopped(S)[d] = "control") <=> (phase[d] = "control")
BY DEF Stopped, Held, Live, Started

LEMMA ServeWait ==
  ASSUME TypeOK, WaitInv, EnqueueEnd \/ Serve
  PROVE  /\ WaitInv'
         /\ epoch' # epoch => Tasks = {}
         /\ UNCHANGED life
<1>0. Lifetime
  BY DEF EnqueueEnd, Serve, EndChat, EndChatReturns, CancelTask, CancelReturns
<1>1. phase' = phase \/ \E S \in SUBSET Deliveries : phase' = Stopped(S)
  BY TasksType DEF EnqueueEnd, Serve, EndChat, EndChatReturns, CancelTask, CancelReturns
<1>2. /\ \A c \in Deliveries : Held(c)' <=> Held(c)
      /\ \A c \in Deliveries : Ends(c)' <=> Ends(c)
  BY <1>0, <1>1, StoppedHolds DEF Held, Live, Ends, Lifetime
<1>3. Tasks' = Tasks
  BY <1>2 DEF Tasks
<1>4. CASE EnqueueEnd
  BY <1>0, <1>2, <1>3, <1>4, WaitFrame DEF EnqueueEnd, Lifetime
<1>5. ASSUME NEW d \in Deliveries, CancelTask(d) \/ CancelReturns(d) PROVE WaitInv' /\ UNCHANGED epoch
  <2>1. worker # Chat /\ worker' # Chat /\ UNCHANGED <<ending, epoch>>
    BY <1>5, Actors DEF CancelTask, CancelReturns, Serving
  <2>2. \A w \in Deliveries \cup {Closer} : waits'[w] = waits[w]
    BY <1>5, Actors DEF CancelTask, CancelReturns, Awaiting, TypeOK
  <2>3. ending # Worker
    BY <2>1 DEF WaitInv
  <2>4. QED
    BY <1>0, <1>2, <1>3, <2>1, <2>2, <2>3, WaitFrame, EndingType DEF Lifetime
<1>6. CASE EndChat
  <2>1. CASE ending # Nobody
    BY <1>0, <1>2, <1>3, <1>6, <2>1, WaitFrame DEF EndChat, Lifetime
  <2>2. CASE ending = Nobody
    <3>1. /\ worker' = Chat /\ ending' = Worker /\ UNCHANGED <<epoch, life>>
          /\ waits' = Awaiting(Worker, Tasks)
          /\ life \in {"up", "cancelling"}
      BY <1>0, <1>6, <2>2 DEF EndChat, Serving, Lifetime
    <3>2. waits'[Worker] = Tasks
      BY <3>1 DEF Awaiting, TypeOK
    <3>3. \A c \in Deliveries : ~Ends(c) /\ c # Worker
      BY <2>2, Actors DEF WaitInv
    <3>4. QED
      BY <1>2, <1>3, <3>1, <3>2, <3>3 DEF WaitInv
  <2>3. QED
    BY <2>1, <2>2
<1>7. CASE EndChatReturns
  <2>1. ending = Worker /\ Tasks \subseteq waits[Worker] /\ Settled(Worker)
    BY <1>7, Actors DEF EndChatReturns, WaitInv
  <2>2. Tasks = {}
    BY <2>1 DEF Settled, Tasks
  <2>3. \A c \in Deliveries : ~Ends(c)
    BY <2>1, Actors DEF WaitInv
  <2>4. ending' = Nobody /\ worker' = Nobody /\ UNCHANGED life
    BY <1>0, <1>7 DEF EndChatReturns, Lifetime
  <2>5. QED
    BY <1>2, <1>3, <2>2, <2>3, <2>4, Actors DEF WaitInv
<1>8. QED
  <2>1. EnqueueEnd => UNCHANGED epoch
    BY DEF EnqueueEnd
  <2>2. EndChat => UNCHANGED epoch
    BY DEF EndChat
  <2>3. EndChatReturns => Tasks = {}
    <3>1. SUFFICES ASSUME EndChatReturns PROVE Tasks = {}
      OBVIOUS
    <3>2. ending = Worker /\ Tasks \subseteq waits[Worker] /\ Settled(Worker)
      BY <3>1, Actors DEF EndChatReturns, WaitInv
    <3>3. QED
      BY <3>2 DEF Settled, Tasks
  <2>4. QED
    BY <1>0, <1>4, <1>5, <1>6, <1>7, <2>1, <2>2, <2>3 DEF Serve, Lifetime

LEMMA ShutWait ==
  ASSUME TypeOK, WaitInv,
         CancelHandlers \/ Shut \/ Exit \/ (\E d \in Deliveries, m \in Messages : DieAfterClaim(d, m))
  PROVE  /\ WaitInv'
         /\ UNCHANGED epoch
         /\ life' = "closed" /\ life # "closed" => Tasks = {}
<1>1. CASE CancelHandlers
  <2>1. /\ UNCHANGED <<worker, epoch>> /\ life' = "cancelling" /\ use' = use
        /\ ending' = IF ending \in Cut THEN Nobody ELSE ending
    BY <1>1 DEF CancelHandlers
  <2>2. \A c \in Deliveries : Held(c)' => Held(c)
    BY <1>1, StoppedHolds DEF CancelHandlers, Cut, Held, Live, Started
  <2>3. \A c \in Deliveries : ~Ends(c)'
    BY <1>1, <2>1, StoppedHolds DEF CancelHandlers, Cut, Ends
  <2>4. \A c \in Deliveries : ending' # c
    BY <2>1, Actors DEF WaitInv, Cut, Ends
  <2>5. ending' = Worker <=> ending = Worker
    BY <2>1, Actors DEF Cut
  <2>6. ending' = Nobody \/ ending' = Worker
    BY <2>4, ProcessType DEF TypeOK
  <2>7. waits'[Worker] = waits[Worker]
    BY <1>1, Actors DEF CancelHandlers, Cut, TypeOK
  <2>8. Tasks' \subseteq Tasks
    BY <2>2 DEF Tasks
  <2>9. QED
    BY <2>1, <2>3, <2>4, <2>5, <2>6, <2>7, <2>8 DEF WaitInv
<1>2. CASE CloseProcessor
  <2>1. /\ worker' = Nobody /\ life' = "closing" /\ UNCHANGED <<epoch, use>>
        /\ ending' = IF ending = Worker THEN Nobody ELSE ending
    BY <1>2 DEF CloseProcessor
  <2>2. /\ \A c \in Deliveries : Held(c)' <=> Held(c)
        /\ \A c \in Deliveries : Ends(c)' <=> Ends(c)
    BY <1>2, <2>1, StoppedHolds DEF CloseProcessor, Held, Live, Ends
  <2>3. Tasks' = Tasks
    BY <2>2 DEF Tasks
  <2>4. waits'[Closer] = Tasks /\ \A w \in Deliveries : waits'[w] = waits[w]
    BY <1>2, Actors DEF CloseProcessor, TypeOK
  <2>5. ending # Closer
    BY Actors DEF TypeOK
  <2>6. QED
    BY <2>1, <2>2, <2>3, <2>4, <2>5, Actors, EndingType DEF WaitInv
<1>3. CASE CloseBackend
  <2>1. /\ UNCHANGED <<ending, waits, worker, epoch, use, phase>> /\ life' = "closed"
        /\ life = "closing" /\ Settled(Closer)
    BY <1>3 DEF CloseBackend, Control
  <2>2. Tasks = {}
    BY <2>1 DEF WaitInv, Settled, Tasks
  <2>3. Tasks' = Tasks /\ \A c \in Deliveries : Ends(c)' <=> Ends(c)
    BY <2>1 DEF Tasks, Held, Live, Ends
  <2>4. QED
    BY <2>1, <2>2, <2>3 DEF WaitInv
<1>4. CASE Exit \/ (\E d \in Deliveries, m \in Messages : DieAfterClaim(d, m))
  <2>1. /\ life' = "down" /\ ending' = Nobody /\ worker' = Nobody /\ UNCHANGED epoch
    BY <1>4 DEF Exit, DieAfterClaim, Gone
  <2>2. \A c \in Deliveries : phase'[c] # "control"
    BY <1>4 DEF Exit, DieAfterClaim, AllDead
  <2>3. QED
    BY <2>1, <2>2, Actors DEF WaitInv, Ends
<1>5. CASE Restart
  <2>1. UNCHANGED <<ending, waits, worker, epoch, use, phase>> /\ life' = "up"
    BY <1>5 DEF Restart
  <2>2. Tasks' = Tasks /\ \A c \in Deliveries : Ends(c)' <=> Ends(c)
    BY <2>1 DEF Tasks, Held, Live, Ends
  <2>3. QED
    BY <2>1, <2>2 DEF WaitInv
<1>6. QED
  BY <1>1, <1>2, <1>3, <1>4, <1>5 DEF Shut

(* The session of the chat ends, and the backend closes, only while no task is held. *)
THEOREM UndisturbedCorrect == Spec => Undisturbed
<1> DEFINE Calm == epoch' # epoch \/ (life' = "closed" /\ life # "closed") => Tasks = {}
<1>1. TypeOK /\ WaitInv /\ [Next]_vars => WaitInv' /\ [Calm]_vars
  <2>1. SUFFICES ASSUME TypeOK, WaitInv, [Next]_vars PROVE WaitInv' /\ [Calm]_vars
    OBVIOUS
  <2>2. CASE UNCHANGED vars
    BY <2>1, <2>2 DEF vars, store, WaitInv, Ends, Tasks, Held, Live
  <2>3. QED
    BY <2>1, <2>2, HandlerWait, ReceiveWait, ServeWait, ShutWait DEF Next
<1>2. QED
  BY <1>1, InitWait, TypeCorrect, PTL DEF Spec, Undisturbed

(***************************************************************************)
(* What a handler leaves behind.  Its task has one response stream, its    *)
(* last event is recorded before its last frame, and what the console was  *)
(* told of a cancellation stays true.                                      *)
(***************************************************************************)
\* A stream is finished by the step that ends the handler.
Streams ==
  \A d \in Deliveries :
    /\ phase[d] # "done" => finishes[d] = 0
    /\ phase[d] = "done" => finishes[d] \in {0, 1} /\ (d \notin mute => finishes[d] = 1)
    /\ phase[d] = "cutting_off" => d \in mute

\* A success is shown by the same step.
Succeeded ==
  \A d \in Deliveries :
    /\ status[d] = "SUCCEEDED" => phase[d] = "done" /\ finishes[d] = 1
    /\ status[d] = "PARTIAL_SUCCEEDED" => phase[d] = "done"

\* Where the last event of a task is behind it, or the first one still to come.
Recorded ==
  {"idle", "ignored", "rejecting", "refusing", "apologizing", "excusing", "ack", "done", "dead"}
Accounted ==
  life = "up" => \A d \in Deliveries : phase[d] \in Recorded /\ status[d] \in Active => d \in lost

\* A task that did not succeed, or whose end could not be written.
Unsuccessful(d) == status[d] \in {"CANCELLED", "FAILED", "TIMED_OUT", "INTERRUPTED"} \/ d \in lost

\* The worker awaits a task that it has told to stop.
CancelWaits ==
  \A d \in Deliveries :
    worker = d =>
      /\ d \in waits[Worker] /\ phase[d] \in {"draining", "ack", "done"}
      /\ phase[d] # "draining" => Unsuccessful(d)

Confirmed ==
  \A d \in Deliveries : cmd[d] = "succeeded" => phase[d] = "done" /\ Unsuccessful(d)

HandlerInv == Streams /\ Succeeded /\ Accounted /\ CancelWaits /\ Confirmed

\* The table of the projection.
LEMMA EventStates ==
  /\ EventState["task.queued"] = "QUEUED" /\ EventState["task.started"] = "RUNNING"
  /\ EventState["task.progress"] = "RUNNING" /\ EventState["task.resumed"] = "RUNNING"
  /\ EventState["task.waiting"] = "WAITING_CONFIRMATION"
  /\ EventState["task.completed"] = "SUCCEEDED"
  /\ EventState["task.partial"] = "PARTIAL_SUCCEEDED"
  /\ EventState["task.failed"] = "FAILED" /\ EventState["task.cancelled"] = "CANCELLED"
  /\ EventState["task.timeout"] = "TIMED_OUT"
BY DEF EventState

Going == {"task.queued", "task.started", "task.progress", "task.waiting", "task.resumed"}
Ending == {"task.completed", "task.partial", "task.failed", "task.cancelled", "task.timeout"}

\* Only the task of an event changes.
NotedAt(d) ==
  /\ \A c \in Deliveries : c # d => status'[c] = status[c] /\ (c \in lost' <=> c \in lost)
  /\ d \in lost => d \in lost'

LEMMA NoteFrame ==
  ASSUME TypeOK, NEW d \in Deliveries, NEW e \in Events, NEW k \in {0, 1}, NoteAfter(d, e, k)
  PROVE  /\ NotedAt(d)
         /\ \/ status'[d] = status[d] /\ d \in lost'
            \/ status'[d] = Projected(status[d], e) 
<1> DEFINE new == Projected(status[d], e)
<1>1. CASE status' = [status EXCEPT ![d] = new] /\ UNCHANGED lost
  <2> HIDE DEF new
  <2>1. status'[d] = new /\ \A c \in Deliveries : c # d => status'[c] = status[c]
    BY <1>1 DEF TypeOK
  <2>2. QED
    BY <1>1, <2>1 DEF NotedAt, new
<1>2. CASE lost' = lost \cup {d} /\ UNCHANGED status
  BY <1>2 DEF NotedAt
<1>3. QED
  BY <1>1, <1>2 DEF NoteAfter

\* An event of a task that goes on ...
LEMMA NoteGoes ==
  ASSUME TypeOK, NEW d \in Deliveries, NEW e \in Going, Note(d, e)
  PROVE  NotedAt(d) /\ (status'[d] = status[d] \/ status'[d] \in Active)
<1>1. e \in Events /\ EventState[e] \in Active
  BY DEF Events, EventState, Going, Active
<1>2. Projected(status[d], e) \in {status[d], EventState[e]}
  BY DEF Projected
<1>3. NoteAfter(d, e, 0)
  BY DEF Note
<1>4. QED
  BY <1>1, <1>2, <1>3, NoteFrame

\* ... and its last one, unless it has an end already or the event is lost.
LEMMA NoteEnds ==
  ASSUME TypeOK, NEW d \in Deliveries, NEW e \in Ending, Note(d, e) \/ NoteAfter(d, e, 1)
  PROVE  /\ NotedAt(d)
         /\ \/ status'[d] = status[d] /\ (d \in lost' \/ status[d] \in Terminal)
            \/ status'[d] = EventState[e]
         /\ status'[d] \notin Active \/ d \in lost'
<1>1. e \in Events /\ EventState[e] \in Terminal /\ \A s \in Terminal : s \notin Active
  BY DEF Events, EventState, Ending, Terminal, Active
<1>2. /\ Projected(status[d], e) \in {status[d], EventState[e]}
      /\ Projected(status[d], e) = EventState[e] \/ status[d] \in Terminal
  BY <1>1 DEF Projected, AuditOnly, Ending, Terminal
<1>3. NoteAfter(d, e, 0) \/ NoteAfter(d, e, 1)
  BY DEF Note
<1>4. QED
  BY <1>1, <1>2, <1>3, NoteFrame

\* Work that is told to stop drains.
LEMMA StoppedKeeps ==
  ASSUME NEW S, NEW c \in Deliveries
  PROVE  Stopped(S)[c] = phase[c] \/ (Live(c) /\ Stopped(S)[c] = "draining")
BY DEF Stopped

\* A process that dies leaves no handler.
LEMMA DieEffect ==
  ASSUME TypeOK, NEW d \in Deliveries, NEW m \in Messages, DieAfterClaim(d, m)
  PROVE  /\ phase[d] = "idle" /\ phase'[d] = "dead"
         /\ \A c \in Deliveries :
              phase'[c] = phase[c] \/ (phase[c] # "done" /\ phase'[c] = "dead")
         /\ life' = "down" /\ worker' = Nobody
         /\ UNCHANGED <<status, lost, cmd, mute, finishes>>
<1>1. AllDead \in [Deliveries -> Phases]
  BY DEF AllDead, TypeOK, Phases
<1>2. phase' = [AllDead EXCEPT ![d] = "dead"] /\ phase[d] = "idle"
  BY DEF DieAfterClaim, NextIn
<1>3. phase'[d] = "dead" /\ \A c \in Deliveries : c # d => phase'[c] = AllDead[c]
  BY <1>1, <1>2
<1>4. QED
  BY <1>2, <1>3 DEF AllDead, DieAfterClaim, Gone, NoNote

\* What a message that arrives does to the tasks that are there.
LEMMA ReceiveEffect ==
  ASSUME TypeOK, NEW d \in Deliveries, NEW m \in Messages, Receive(d, m)
  PROVE  /\ phase[d] = "idle" /\ NotedAt(d)
         /\ \/ phase'[d] \in {"ignored", "rejecting"} /\ status'[d] = status[d]
            \/ /\ phase'[d] \in {"refusing", "apologizing"}
               /\ \/ status'[d] = status[d] /\ (d \in lost' \/ status[d] \in Terminal)
                  \/ status'[d] \in {"CANCELLED", "FAILED"}
            \/ /\ phase'[d] \in {"waiting", "control", "replying"}
               /\ status'[d] = status[d] \/ status'[d] \in Active
         /\ \A c \in Deliveries :
              c # d => phase'[c] = phase[c] \/ (Live(c) /\ phase'[c] = "draining")
         /\ UNCHANGED <<life, worker, cmd, mute, finishes>>
         /\ worker # d => waits'[Worker] = waits[Worker]
<1>1. PICK u \in {"work", "stop", "end", "other"} :
        DropDuplicate(d, m, u) \/ Reject(d, m, u) \/ Accept(d, m, u)
  BY DEF Receive
<1>2. /\ phase[d] = "idle" /\ UNCHANGED <<life, worker, cmd, mute, finishes>>
  BY <1>1 DEF DropDuplicate, Reject, Accept, Admit, Arrive, NextIn
<1>3. CASE DropDuplicate(d, m, u) \/ Reject(d, m, u)
  BY <1>2, <1>3 DEF DropDuplicate, Reject, Ignore, NoNote, NotedAt, TypeOK
<1>4. CASE Accept(d, m, u)
  <2>1. /\ phase'[d] \in {"refusing", "waiting", "control", "replying", "apologizing"}
        /\ \A c \in Deliveries :
             c # d => phase'[c] = phase[c] \/ (Live(c) /\ phase'[c] = "draining")
        /\ waits'[Worker] = waits[Worker]
    <3>1. CASE TakeWork(d) \/ TakeOther(d)
      BY <3>1 DEF TakeWork, TakeOther, TypeOK
    <3>2. CASE /\ phase' = [Stopped(Tasks) EXCEPT ![d] = "control"]
               /\ waits' = Awaiting(d, Tasks)
      <4>1. Stopped(Tasks) \in [Deliveries -> Phases]
        BY StoppedType, TasksType
      <4>2. /\ phase'[d] = "control"
            /\ \A c \in Deliveries : c # d => phase'[c] = Stopped(Tasks)[c]
        BY <3>2, <4>1
      <4>3. waits'[Worker] = waits[Worker]
        BY <3>2, Actors DEF Awaiting, TypeOK
      <4>4. QED
        BY <4>2, <4>3 DEF Stopped
    <3>3. CASE TakeEnd(d) /\ ending # Nobody
      BY <3>3 DEF TakeEnd, TypeOK
    <3>4. QED
      BY <1>4, <3>1, <3>2, <3>3 DEF Accept, TakeStop, TakeEnd
  <2>2. CASE Claim(d, m) /\ Note(d, FirstEvent(d))
    <3>1. CASE phase'[d] \in {"refusing", "apologizing"}
      <4>1. FirstEvent(d) \in {"task.cancelled", "task.failed"}
        BY <3>1 DEF FirstEvent
      <4>2. FirstEvent(d) \in Ending /\ EventState[FirstEvent(d)] \in {"CANCELLED", "FAILED"}
        BY <4>1, EventStates DEF Ending
      <4>3. QED
        BY <1>2, <2>1, <2>2, <3>1, <4>2, NoteEnds
    <3>2. CASE phase'[d] \notin {"refusing", "apologizing"}
      <4>1. FirstEvent(d) = "task.queued"
        BY <3>2 DEF FirstEvent
      <4>2. QED
        BY <1>2, <2>1, <2>2, <3>2, <4>1, NoteGoes DEF Going
    <3>3. QED
      BY <3>1, <3>2
  <2>3. CASE lost' = lost \cup {d} /\ UNCHANGED status
    BY <1>2, <2>1, <2>3 DEF NotedAt
  <2>4. QED
    BY <1>4, <2>2, <2>3 DEF Accept
<1>5. QED
  BY <1>1, <1>3, <1>4

\* Only the last step of a handler finishes a stream.
LEMMA NextStreams ==
  ASSUME TypeOK, Streams, [Next]_vars
  PROVE  Streams'
<1>1. ASSUME NEW d \in Deliveries, SendRefusal(d) PROVE Streams'
  BY <1>1 DEF SendRefusal, Done, LastFrame, Finish, Mute, Quiet, Streams, TypeOK
<1>2. ASSUME NEW d \in Deliveries, SendControlReply(d) PROVE Streams'
  BY <1>2 DEF SendControlReply, Done, Finish, Mute, Quiet, Streams, TypeOK
<1>3. ASSUME NEW d \in Deliveries, StopReturns(d) PROVE Streams'
  BY <1>3 DEF StopReturns, Awaiting, Streams, TypeOK
<1>4. ASSUME NEW d \in Deliveries, EndReturns(d) PROVE Streams'
  BY <1>4 DEF EndReturns, Awaiting, Streams, TypeOK
<1>5. ASSUME NEW d \in Deliveries, Begin(d) PROVE Streams'
  BY <1>5, NoteGoes DEF Begin, Going, Streams, TypeOK
<1>6. ASSUME NEW d \in Deliveries, Greet(d) PROVE Streams'
  BY <1>6 DEF Greet, Goes, WorkEnds, Done, Mute, Streams, TypeOK
<1>7. ASSUME NEW d \in Deliveries, Beat(d) PROVE Streams'
  BY <1>7, NoteGoes DEF Beat, Going, Streams, TypeOK
<1>8. ASSUME NEW d \in Deliveries, Answer(d) PROVE Streams'
  BY <1>8 DEF Answer, Goes, Streams, TypeOK
<1>9. ASSUME NEW d \in Deliveries, ReplyFails(d) PROVE Streams'
  BY <1>9 DEF ReplyFails, Goes, Streams, TypeOK
<1>10. ASSUME NEW d \in Deliveries, GiveUp(d) PROVE Streams'
  BY <1>10 DEF GiveUp, Goes, Mute, Streams, TypeOK
<1>11. ASSUME NEW d \in Deliveries, Aborted(d) PROVE Streams'
  BY <1>11 DEF Aborted, Goes, WorkEnds, Done, Streams, TypeOK
<1>12. ASSUME NEW d \in Deliveries, Excuse(d) PROVE Streams'
  BY <1>12 DEF Excuse, WorkEnds, Done, LastFrame, Finish, Mute, Streams, TypeOK
<1>13. ASSUME NEW d \in Deliveries, Deliver(d) PROVE Streams'
  BY <1>13 DEF Deliver, WorkEnds, Done, Finish, Mute, Streams, TypeOK
<1>14. ASSUME NEW d \in Deliveries, Drained(d) PROVE Streams'
  BY <1>14 DEF Drained, Streams, TypeOK
<1>15. ASSUME NEW d \in Deliveries, Acknowledge(d) PROVE Streams'
  BY <1>15 DEF Acknowledge, Done, LastFrame, Finish, Mute, Quiet, Streams, TypeOK
<1>16. ASSUME NEW d \in Deliveries, EnqueueCancel(d) PROVE Streams'
  BY <1>16 DEF EnqueueCancel, Streams, TypeOK
<1>17. ASSUME NEW d \in Deliveries, NEW m \in Messages, Receive(d, m) PROVE Streams'
  <2>1. ASSUME NEW c \in Deliveries
        PROVE  /\ phase[c] # "done" => phase'[c] # "done"
               /\ phase[c] = "done" => phase'[c] = "done"
               /\ phase'[c] = "cutting_off" => phase[c] = "cutting_off"
    BY <1>17, ReceiveEffect DEF Live, Started
  <2>2. UNCHANGED <<mute, finishes>>
    BY <1>17, ReceiveEffect
  <2>3. QED
    BY <2>1, <2>2 DEF Streams
<1>18. ASSUME NEW d \in Deliveries, NEW m \in Messages, DieAfterClaim(d, m) PROVE Streams'
  BY <1>18, DieEffect DEF Streams, TypeOK
<1>19. ASSUME EnqueueEnd PROVE Streams'
  BY <1>19 DEF EnqueueEnd, Streams, TypeOK
<1>20. ASSUME NEW d \in Deliveries, CancelTask(d) PROVE Streams'
  BY <1>20 DEF CancelTask, Serving, Stopped, Awaiting, Streams, Live, Started, TypeOK
<1>21. ASSUME NEW d \in Deliveries, CancelReturns(d) PROVE Streams'
  BY <1>21 DEF CancelReturns, Settled, Streams, TypeOK
<1>22. ASSUME EndChat PROVE Streams'
  <2>1. \A c \in Deliveries : phase'[c] = phase[c] \/ (Live(c) /\ phase'[c] = "draining")
    BY <1>22, StoppedKeeps DEF EndChat
  <2>2. QED
    BY <1>22, <2>1 DEF EndChat, Serving, Streams, Live, Started, TypeOK
<1>23. ASSUME EndChatReturns PROVE Streams'
  BY <1>23 DEF EndChatReturns, Streams, TypeOK
<1>24. ASSUME CancelHandlers PROVE Streams'
  BY <1>24 DEF CancelHandlers, Cut, Stopped, Streams, Live, Started, TypeOK
<1>25. ASSUME CloseProcessor PROVE Streams'
  BY <1>25, StoppedKeeps DEF CloseProcessor, Streams, Live, Started, TypeOK
<1>26. ASSUME CloseBackend PROVE Streams'
  BY <1>26 DEF CloseBackend, Streams, TypeOK
<1>27. ASSUME Exit PROVE Streams'
  BY <1>27 DEF Exit, AllDead, Gone, Streams, TypeOK
<1>28. ASSUME Restart PROVE Streams'
  BY <1>28 DEF Restart, Reconciled, Requeued, Streams, TypeOK
<1>29. ASSUME UNCHANGED vars PROVE Streams'
  BY <1>29 DEF vars, store, Streams, TypeOK
<1>30. QED
  BY <1>1, <1>2, <1>3, <1>4, <1>5, <1>6, <1>7, <1>8, <1>9, <1>10, <1>11, <1>12, <1>13, <1>14,
     <1>15, <1>16, <1>17, <1>18, <1>19, <1>20, <1>21, <1>22, <1>23, <1>24, <1>25, <1>26,
     <1>27, <1>28, <1>29
  DEF Next, Respond, Work, Serve, Shut

\* A task whose last event is not a success shows none.
LEMMA EndsUnshown ==
  ASSUME TypeOK, Succeeded, NEW d \in Deliveries, phase[d] # "done",
         NEW e \in {"task.failed", "task.cancelled", "task.timeout"},
         Note(d, e) \/ NoteAfter(d, e, 1),
         \A c \in Deliveries : c # d => phase'[c] = phase[c] /\ finishes'[c] = finishes[c]
  PROVE  Succeeded'
<1>1. e \in Ending /\ EventState[e] \in {"FAILED", "CANCELLED", "TIMED_OUT"}
  BY EventStates DEF Ending
<1>2. NotedAt(d) /\ (status'[d] = status[d] \/ status'[d] = EventState[e])
  BY <1>1, NoteEnds
<1>3. status'[d] \notin {"SUCCEEDED", "PARTIAL_SUCCEEDED"}
  BY <1>1, <1>2 DEF Succeeded
<1>4. QED
  BY <1>2, <1>3 DEF NotedAt, Succeeded

\* ... and neither does one that goes on.
LEMMA GoesUnshown ==
  ASSUME TypeOK, Succeeded, NEW d \in Deliveries, phase[d] # "done",
         NEW e \in Going, Note(d, e), UNCHANGED finishes,
         \A c \in Deliveries : c # d => phase'[c] = phase[c]
  PROVE  Succeeded'
<1>1. NotedAt(d) /\ (status'[d] = status[d] \/ status'[d] \in Active)
  BY NoteGoes
<1>2. status'[d] \notin {"SUCCEEDED", "PARTIAL_SUCCEEDED"}
  BY <1>1 DEF Succeeded, Active
<1>3. QED
  BY <1>1, <1>2 DEF NotedAt, Succeeded

\* Nothing but the delivery of an answer shows a success.
LEMMA NextSucceeded ==
  ASSUME TypeOK, Streams, Succeeded, [Next]_vars
  PROVE  Succeeded'
<1>1. ASSUME NEW d \in Deliveries, SendRefusal(d) PROVE Succeeded'
  BY <1>1 DEF SendRefusal, Done, LastFrame, Finish, Mute, NoNote, Quiet, Succeeded, TypeOK
<1>2. ASSUME NEW d \in Deliveries, SendControlReply(d) PROVE Succeeded'
  <2>1. phase[d] # "done" /\ phase'[d] = "done" /\ finishes[d] = 0
        /\ \A c \in Deliveries : c # d => phase'[c] = phase[c]
    BY <1>2 DEF SendControlReply, Done, Streams, TypeOK
  <2>2. CASE Finish(d) /\ Note(d, "task.completed")
    <3>1. finishes'[d] = 1 /\ \A c \in Deliveries : c # d => finishes'[c] = finishes[c]
      BY <2>1, <2>2 DEF Finish, TypeOK
    <3>2. NotedAt(d)
      BY <2>2, NoteEnds DEF Ending
    <3>3. QED
      BY <2>1, <3>1, <3>2 DEF NotedAt, Succeeded
  <2>3. CASE Mute(d) /\ NoteAfter(d, "task.failed", 1)
    BY <2>1, <2>3, EndsUnshown DEF Mute
  <2>4. QED
    BY <1>2, <2>2, <2>3 DEF SendControlReply
<1>3. ASSUME NEW d \in Deliveries, StopReturns(d) PROVE Succeeded'
  BY <1>3 DEF StopReturns, NoNote, Awaiting, Succeeded, TypeOK
<1>4. ASSUME NEW d \in Deliveries, EndReturns(d) PROVE Succeeded'
  <2>1. phase[d] # "done" /\ UNCHANGED finishes
        /\ \A c \in Deliveries : c # d => phase'[c] = phase[c]
    BY <1>4 DEF EndReturns, TypeOK
  <2>2. CASE NoNote
    BY <2>1, <2>2 DEF NoNote, Succeeded
  <2>3. CASE Note(d, "task.failed")
    BY <2>1, <2>3, EndsUnshown
  <2>4. QED
    BY <1>4, <2>2, <2>3 DEF EndReturns
<1>5. ASSUME NEW d \in Deliveries, Begin(d) PROVE Succeeded'
  <2>1. "task.started" \in Going
    BY DEF Going
  <2>2. \A c \in Deliveries : c # d => phase'[c] = phase[c]
    BY <1>5 DEF Begin, TypeOK
  <2>3. QED
    BY <1>5, <2>1, <2>2, GoesUnshown DEF Begin
<1>6. ASSUME NEW d \in Deliveries, Greet(d) PROVE Succeeded'
  <2>1. CASE Goes(d, "asking") /\ NoNote /\ UNCHANGED finishes
    BY <1>6, <2>1 DEF Greet, Goes, NoNote, Succeeded, TypeOK
  <2>2. CASE WorkEnds(d) /\ Mute(d) /\ NoteAfter(d, "task.failed", 1)
    BY <1>6, <2>2, EndsUnshown DEF Greet, WorkEnds, Done, Mute, TypeOK
  <2>3. QED
    BY <1>6, <2>1, <2>2 DEF Greet
<1>7. ASSUME NEW d \in Deliveries, Beat(d) PROVE Succeeded'
  <2>1. PICK e \in {"task.progress", "task.waiting", "task.resumed"} : Note(d, e)
    BY <1>7 DEF Beat
  <2>2. e \in Going
    BY DEF Going
  <2>3. QED
    BY <1>7, <2>1, <2>2, GoesUnshown DEF Beat
<1>8. ASSUME NEW d \in Deliveries, Answer(d) PROVE Succeeded'
  BY <1>8 DEF Answer, Goes, NoNote, Succeeded, TypeOK
<1>9. ASSUME NEW d \in Deliveries, ReplyFails(d) PROVE Succeeded'
  BY <1>9, EndsUnshown DEF ReplyFails, Goes, TypeOK
<1>10. ASSUME NEW d \in Deliveries, GiveUp(d) PROVE Succeeded'
  BY <1>10 DEF GiveUp, Goes, Mute, NoNote, Succeeded, TypeOK
<1>11. ASSUME NEW d \in Deliveries, Aborted(d) PROVE Succeeded'
  <2>1. CASE Goes(d, "excusing") /\ Note(d, "task.timeout")
    BY <1>11, <2>1, EndsUnshown DEF Aborted, Goes, TypeOK
  <2>2. CASE WorkEnds(d) /\ Note(d, "task.failed")
    BY <1>11, <2>2, EndsUnshown DEF Aborted, WorkEnds, Done, TypeOK
  <2>3. QED
    BY <1>11, <2>1, <2>2 DEF Aborted
<1>12. ASSUME NEW d \in Deliveries, Excuse(d) PROVE Succeeded'
  BY <1>12 DEF Excuse, WorkEnds, Done, LastFrame, Finish, Mute, NoNote, Succeeded, TypeOK
<1>13. ASSUME NEW d \in Deliveries, Deliver(d) PROVE Succeeded'
  <2>1. phase'[d] = "done" /\ finishes[d] = 0
        /\ \A c \in Deliveries : c # d => phase'[c] = phase[c]
    BY <1>13 DEF Deliver, WorkEnds, Done, Streams, TypeOK
  <2>2. CASE Finish(d) /\ (Note(d, "task.completed") \/ Note(d, "task.partial"))
    <3>1. finishes'[d] = 1 /\ \A c \in Deliveries : c # d => finishes'[c] = finishes[c]
      BY <2>1, <2>2 DEF Finish, TypeOK
    <3>2. NotedAt(d)
      BY <2>2, NoteEnds DEF Ending
    <3>3. QED
      BY <2>1, <3>1, <3>2 DEF NotedAt, Succeeded
  <2>3. CASE Mute(d) /\ NoteAfter(d, "task.partial", 1)
    <3>1. NotedAt(d) /\ (status'[d] = status[d] \/ status'[d] = "PARTIAL_SUCCEEDED")
      BY <2>3, NoteEnds, EventStates DEF Ending
    <3>2. UNCHANGED finishes /\ status[d] # "SUCCEEDED"
      BY <1>13, <2>3 DEF Mute, Deliver, Succeeded
    <3>3. QED
      BY <2>1, <3>1, <3>2 DEF NotedAt, Succeeded
  <2>4. QED
    BY <1>13, <2>2, <2>3 DEF Deliver
<1>14. ASSUME NEW d \in Deliveries, Drained(d) PROVE Succeeded'
  BY <1>14, EndsUnshown DEF Drained, TypeOK
<1>15. ASSUME NEW d \in Deliveries, Acknowledge(d) PROVE Succeeded'
  BY <1>15 DEF Acknowledge, Done, LastFrame, Finish, Mute, NoNote, Quiet, Succeeded, TypeOK
<1>16. ASSUME NEW d \in Deliveries, EnqueueCancel(d) PROVE Succeeded'
  BY <1>16 DEF EnqueueCancel, Succeeded, TypeOK
<1>17. ASSUME NEW d \in Deliveries, NEW m \in Messages, Receive(d, m) PROVE Succeeded'
  <2>1. ASSUME NEW c \in Deliveries
        PROVE  /\ phase[c] # "done" => phase'[c] # "done"
               /\ phase[c] = "done" => phase'[c] = "done"
               /\ phase'[c] = "cutting_off" => phase[c] = "cutting_off"
    BY <1>17, ReceiveEffect DEF Live, Started
  <2>2. \A c \in Deliveries :
          status'[c] = status[c] \/ status'[c] \notin {"SUCCEEDED", "PARTIAL_SUCCEEDED"}
    BY <1>17, ReceiveEffect DEF NotedAt, Active
  <2>3. UNCHANGED <<mute, finishes>>
    BY <1>17, ReceiveEffect
  <2>4. QED
    BY <2>1, <2>2, <2>3 DEF Succeeded
<1>18. ASSUME NEW d \in Deliveries, NEW m \in Messages, DieAfterClaim(d, m) PROVE Succeeded'
  BY <1>18, DieEffect DEF Succeeded, TypeOK
<1>19. ASSUME EnqueueEnd PROVE Succeeded'
  BY <1>19 DEF EnqueueEnd, NoNote, Succeeded, TypeOK
<1>20. ASSUME NEW d \in Deliveries, CancelTask(d) PROVE Succeeded'
  BY <1>20 DEF CancelTask, Serving, Stopped, Awaiting, NoNote, Succeeded, Live, Started, TypeOK
<1>21. ASSUME NEW d \in Deliveries, CancelReturns(d) PROVE Succeeded'
  BY <1>21 DEF CancelReturns, Settled, NoNote, Succeeded, TypeOK
<1>22. ASSUME EndChat PROVE Succeeded'
  <2>1. \A c \in Deliveries : phase'[c] = phase[c] \/ (Live(c) /\ phase'[c] = "draining")
    BY <1>22, StoppedKeeps DEF EndChat
  <2>2. QED
    BY <1>22, <2>1 DEF EndChat, Serving, NoNote, Succeeded, Live, Started, TypeOK
<1>23. ASSUME EndChatReturns PROVE Succeeded'
  BY <1>23 DEF EndChatReturns, NoNote, Succeeded, TypeOK
<1>24. ASSUME CancelHandlers PROVE Succeeded'
  BY <1>24 DEF CancelHandlers, Cut, Stopped, NoNote, Succeeded, Live, Started, TypeOK
<1>25. ASSUME CloseProcessor PROVE Succeeded'
  BY <1>25, StoppedKeeps DEF CloseProcessor, NoNote, Succeeded, Live, Started, TypeOK
<1>26. ASSUME CloseBackend PROVE Succeeded'
  BY <1>26 DEF CloseBackend, NoNote, Succeeded, TypeOK
<1>27. ASSUME Exit PROVE Succeeded'
  BY <1>27 DEF Exit, AllDead, Gone, NoNote, Succeeded, TypeOK
<1>28. ASSUME Restart PROVE Succeeded'
  BY <1>28 DEF Restart, Reconciled, Requeued, Succeeded, TypeOK
<1>29. ASSUME UNCHANGED vars PROVE Succeeded'
  BY <1>29 DEF vars, store, Succeeded, TypeOK
<1>30. QED
  BY <1>1, <1>2, <1>3, <1>4, <1>5, <1>6, <1>7, <1>8, <1>9, <1>10, <1>11, <1>12, <1>13, <1>14,
     <1>15, <1>16, <1>17, <1>18, <1>19, <1>20, <1>21, <1>22, <1>23, <1>24, <1>25, <1>26,
     <1>27, <1>28, <1>29
  DEF Next, Respond, Work, Serve, Shut

\* The last event comes before the end.
LEMMA NextAccounted ==
  ASSUME TypeOK, Accounted, [Next]_vars
  PROVE  Accounted'
<1>1. ASSUME NEW d \in Deliveries, SendRefusal(d) PROVE Accounted'
  BY <1>1
  DEF SendRefusal, Done, LastFrame, Finish, Mute, NoNote, Quiet, Lifetime, Accounted,
      Recorded, TypeOK
<1>2. ASSUME NEW d \in Deliveries, SendControlReply(d) PROVE Accounted'
  <2>1. \/ NotedAt(d) /\ (status'[d] \notin Active \/ d \in lost')
        \/ UNCHANGED <<status, lost>> /\ phase'[d] \notin Recorded
    BY <1>2, NoteEnds DEF SendControlReply, Ending, TypeOK
  <2>2. UNCHANGED life /\ \A c \in Deliveries : c # d => phase'[c] = phase[c]
    BY <1>2 DEF SendControlReply, Done, Quiet, Lifetime, TypeOK
  <2>3. QED
    BY <2>1, <2>2 DEF NotedAt, Accounted
<1>3. ASSUME NEW d \in Deliveries, StopReturns(d) PROVE Accounted'
  BY <1>3 DEF StopReturns, NoNote, Awaiting, Lifetime, Accounted, Recorded, TypeOK
<1>4. ASSUME NEW d \in Deliveries, EndReturns(d) PROVE Accounted'
  <2>1. \/ NotedAt(d) /\ (status'[d] \notin Active \/ d \in lost')
        \/ UNCHANGED <<status, lost>> /\ phase'[d] \notin Recorded
    BY <1>4, NoteEnds DEF EndReturns, NoNote, Recorded, Ending, TypeOK
  <2>2. UNCHANGED life /\ \A c \in Deliveries : c # d => phase'[c] = phase[c]
    BY <1>4 DEF EndReturns, Lifetime, TypeOK
  <2>3. QED
    BY <2>1, <2>2 DEF NotedAt, Accounted
<1>5. ASSUME NEW d \in Deliveries, Begin(d) PROVE Accounted'
  BY <1>5, NoteGoes DEF Begin, Working, Lifetime, NotedAt, Going, Accounted, Recorded, TypeOK
<1>6. ASSUME NEW d \in Deliveries, Greet(d) PROVE Accounted'
  <2>1. \/ NotedAt(d) /\ (status'[d] \notin Active \/ d \in lost')
        \/ UNCHANGED <<status, lost>> /\ phase'[d] \notin Recorded
    BY <1>6, NoteEnds DEF Greet, Goes, NoNote, Recorded, Ending, TypeOK
  <2>2. UNCHANGED life /\ \A c \in Deliveries : c # d => phase'[c] = phase[c]
    BY <1>6 DEF Greet, WorkEnds, Done, Goes, Lifetime, TypeOK
  <2>3. QED
    BY <2>1, <2>2 DEF NotedAt, Accounted
<1>7. ASSUME NEW d \in Deliveries, Beat(d) PROVE Accounted'
  BY <1>7, NoteGoes DEF Beat, Working, Lifetime, NotedAt, Going, Accounted, Recorded, TypeOK
<1>8. ASSUME NEW d \in Deliveries, Answer(d) PROVE Accounted'
  BY <1>8 DEF Answer, Goes, NoNote, Working, Lifetime, Accounted, Recorded, TypeOK
<1>9. ASSUME NEW d \in Deliveries, ReplyFails(d) PROVE Accounted'
  <2>1. \/ NotedAt(d) /\ (status'[d] \notin Active \/ d \in lost')
        \/ UNCHANGED <<status, lost>> /\ phase'[d] \notin Recorded
    BY <1>9, NoteEnds DEF ReplyFails, Ending, TypeOK
  <2>2. UNCHANGED life /\ \A c \in Deliveries : c # d => phase'[c] = phase[c]
    BY <1>9 DEF ReplyFails, Goes, Working, Lifetime, TypeOK
  <2>3. QED
    BY <2>1, <2>2 DEF NotedAt, Accounted
<1>10. ASSUME NEW d \in Deliveries, GiveUp(d) PROVE Accounted'
  BY <1>10 DEF GiveUp, Goes, Mute, NoNote, Working, Lifetime, Accounted, Recorded, TypeOK
<1>11. ASSUME NEW d \in Deliveries, Aborted(d) PROVE Accounted'
  <2>1. \/ NotedAt(d) /\ (status'[d] \notin Active \/ d \in lost')
        \/ UNCHANGED <<status, lost>> /\ phase'[d] \notin Recorded
    BY <1>11, NoteEnds DEF Aborted, Ending, TypeOK
  <2>2. UNCHANGED life /\ \A c \in Deliveries : c # d => phase'[c] = phase[c]
    BY <1>11 DEF Aborted, Goes, WorkEnds, Done, Working, Lifetime, TypeOK
  <2>3. QED
    BY <2>1, <2>2 DEF NotedAt, Accounted
<1>12. ASSUME NEW d \in Deliveries, Excuse(d) PROVE Accounted'
  <2>1. UNCHANGED <<life, status, lost>>
    BY <1>12, LastFrameKeeps DEF Excuse, Working, Lifetime
  <2>2. phase[d] \in Recorded /\ \A c \in Deliveries : c # d => phase'[c] = phase[c]
    BY <1>12 DEF Excuse, WorkEnds, Done, Recorded, TypeOK
  <2>3. QED
    BY <2>1, <2>2 DEF Accounted
<1>13. ASSUME NEW d \in Deliveries, Deliver(d) PROVE Accounted'
  <2>1. \/ NotedAt(d) /\ (status'[d] \notin Active \/ d \in lost')
        \/ UNCHANGED <<status, lost>> /\ phase'[d] \notin Recorded
    BY <1>13, NoteEnds DEF Deliver, Ending, TypeOK
  <2>2. UNCHANGED life /\ \A c \in Deliveries : c # d => phase'[c] = phase[c]
    BY <1>13 DEF Deliver, WorkEnds, Done, Working, Lifetime, TypeOK
  <2>3. QED
    BY <2>1, <2>2 DEF NotedAt, Accounted
<1>14. ASSUME NEW d \in Deliveries, Drained(d) PROVE Accounted'
  BY <1>14, NoteEnds DEF Drained, Working, Lifetime, NotedAt, Ending, Accounted, TypeOK
<1>15. ASSUME NEW d \in Deliveries, Acknowledge(d) PROVE Accounted'
  BY <1>15
  DEF Acknowledge, Done, LastFrame, Finish, Mute, NoNote, Quiet, Lifetime, Accounted,
      Recorded, TypeOK
<1>16. ASSUME NEW d \in Deliveries, EnqueueCancel(d) PROVE Accounted'
  BY <1>16 DEF EnqueueCancel, Lifetime, Accounted, TypeOK
<1>17. ASSUME NEW d \in Deliveries, NEW m \in Messages, Receive(d, m) PROVE Accounted'
  <2>1. /\ UNCHANGED life /\ NotedAt(d)
        /\ \A c \in Deliveries : c # d => phase'[c] = phase[c] \/ phase'[c] = "draining"
    BY <1>17, ReceiveEffect
  <2>2. /\ phase[d] \in Recorded
        /\ phase'[d] \in Recorded =>
             status'[d] = status[d] \/ status'[d] \in {"CANCELLED", "FAILED"}
    BY <1>17, ReceiveEffect DEF Recorded
  <2>3. {"CANCELLED", "FAILED"} \cap Active = {} /\ "draining" \notin Recorded
    BY DEF Active, Recorded
  <2>4. QED
    BY <2>1, <2>2, <2>3 DEF NotedAt, Accounted
<1>18. ASSUME NEW d \in Deliveries, NEW m \in Messages, DieAfterClaim(d, m) PROVE Accounted'
  BY <1>18, DieEffect DEF Accounted, TypeOK
<1>19. ASSUME EnqueueEnd PROVE Accounted'
  BY <1>19 DEF EnqueueEnd, NoNote, Lifetime, Accounted, TypeOK
<1>20. ASSUME NEW d \in Deliveries, CancelTask(d) PROVE Accounted'
  BY <1>20 DEF CancelTask, Serving, Stopped, Awaiting, NoNote, Lifetime, Accounted, Recorded, TypeOK
<1>21. ASSUME NEW d \in Deliveries, CancelReturns(d) PROVE Accounted'
  BY <1>21 DEF CancelReturns, Settled, NoNote, Lifetime, Accounted, TypeOK
<1>22. ASSUME EndChat PROVE Accounted'
  <2>1. \A c \in Deliveries : phase'[c] = phase[c] \/ (Live(c) /\ phase'[c] = "draining")
    BY <1>22, StoppedKeeps DEF EndChat
  <2>2. QED
    BY <1>22, <2>1 DEF EndChat, Serving, NoNote, Lifetime, Accounted, Recorded, TypeOK
<1>23. ASSUME EndChatReturns PROVE Accounted'
  BY <1>23 DEF EndChatReturns, NoNote, Lifetime, Accounted, TypeOK
<1>24. ASSUME CancelHandlers PROVE Accounted'
  BY <1>24 DEF CancelHandlers, Cut, Stopped, Accounted, TypeOK
<1>25. ASSUME CloseProcessor PROVE Accounted'
  BY <1>25, StoppedKeeps DEF CloseProcessor, Accounted, TypeOK
<1>26. ASSUME CloseBackend PROVE Accounted'
  BY <1>26 DEF CloseBackend, Accounted, TypeOK
<1>27. ASSUME Exit PROVE Accounted'
  BY <1>27 DEF Exit, AllDead, Gone, Accounted, TypeOK
<1>28. ASSUME Restart PROVE Accounted'
  BY <1>28 DEF Restart, Reconciled, Requeued, Accounted, Active, TypeOK
<1>29. ASSUME UNCHANGED vars PROVE Accounted'
  BY <1>29 DEF vars, store, Accounted, TypeOK
<1>30. QED
  BY <1>1, <1>2, <1>3, <1>4, <1>5, <1>6, <1>7, <1>8, <1>9, <1>10, <1>11, <1>12, <1>13, <1>14,
     <1>15, <1>16, <1>17, <1>18, <1>19, <1>20, <1>21, <1>22, <1>23, <1>24, <1>25, <1>26,
     <1>27, <1>28, <1>29
  DEF Next, Respond, Work, Serve, Shut

\* A task that was told to stop drains.
LEMMA NextCancelWaits ==
  ASSUME TypeOK, Succeeded, CancelWaits, [Next]_vars
  PROVE  CancelWaits'
<1>1. ASSUME NEW d \in Deliveries, SendRefusal(d) PROVE CancelWaits'
  BY <1>1
  DEF SendRefusal, Done, LastFrame, Finish, Mute, NoNote, Quiet, Control, CancelWaits,
      Unsuccessful, TypeOK
<1>2. ASSUME NEW d \in Deliveries, SendControlReply(d) PROVE CancelWaits'
  BY <1>2, NoteEnds
  DEF SendControlReply, Done, Finish, Mute, Quiet, Control, NotedAt, Ending, CancelWaits,
      Unsuccessful, TypeOK
<1>3. ASSUME NEW d \in Deliveries, StopReturns(d) PROVE CancelWaits'
  BY <1>3, Actors DEF StopReturns, NoNote, Awaiting, CancelWaits, Unsuccessful, TypeOK
<1>4. ASSUME NEW d \in Deliveries, EndReturns(d) PROVE CancelWaits'
  BY <1>4, NoteEnds, Actors
  DEF EndReturns, NoNote, Awaiting, NotedAt, Ending, CancelWaits, Unsuccessful, TypeOK
<1>5. ASSUME NEW d \in Deliveries, Begin(d) PROVE CancelWaits'
  BY <1>5, NoteGoes DEF Begin, Working, Control, NotedAt, Going, CancelWaits, Unsuccessful, TypeOK
<1>6. ASSUME NEW d \in Deliveries, Greet(d) PROVE CancelWaits'
  BY <1>6, NoteEnds
  DEF Greet, Goes, WorkEnds, Done, Mute, NoNote, Control, NotedAt, Ending, CancelWaits,
      Unsuccessful, TypeOK
<1>7. ASSUME NEW d \in Deliveries, Beat(d) PROVE CancelWaits'
  BY <1>7, NoteGoes DEF Beat, Working, Control, NotedAt, Going, CancelWaits, Unsuccessful, TypeOK
<1>8. ASSUME NEW d \in Deliveries, Answer(d) PROVE CancelWaits'
  BY <1>8 DEF Answer, Goes, NoNote, Working, Control, CancelWaits, Unsuccessful, TypeOK
<1>9. ASSUME NEW d \in Deliveries, ReplyFails(d) PROVE CancelWaits'
  BY <1>9, NoteEnds
  DEF ReplyFails, Goes, Working, Control, NotedAt, Ending, CancelWaits, Unsuccessful, TypeOK
<1>10. ASSUME NEW d \in Deliveries, GiveUp(d) PROVE CancelWaits'
  BY <1>10 DEF GiveUp, Goes, Mute, NoNote, Working, Control, CancelWaits, Unsuccessful, TypeOK
<1>11. ASSUME NEW d \in Deliveries, Aborted(d) PROVE CancelWaits'
  BY <1>11, NoteEnds
  DEF Aborted, Goes, WorkEnds, Done, Working, Control, NotedAt, Ending, CancelWaits,
      Unsuccessful, TypeOK
<1>12. ASSUME NEW d \in Deliveries, Excuse(d) PROVE CancelWaits'
  BY <1>12
  DEF Excuse, WorkEnds, Done, LastFrame, Finish, Mute, NoNote, Working, Control, CancelWaits,
      Unsuccessful, TypeOK
<1>13. ASSUME NEW d \in Deliveries, Deliver(d) PROVE CancelWaits'
  BY <1>13, NoteEnds
  DEF Deliver, WorkEnds, Done, Finish, Mute, Working, Control, NotedAt, Ending, CancelWaits,
      Unsuccessful, TypeOK
<1>14. ASSUME NEW d \in Deliveries, Drained(d) PROVE CancelWaits'
  BY <1>14, NoteEnds, EventStates
  DEF Drained, Working, Control, NotedAt, Ending, Succeeded, CancelWaits, Unsuccessful,
      Terminal, TypeOK
<1>15. ASSUME NEW d \in Deliveries, Acknowledge(d) PROVE CancelWaits'
  BY <1>15
  DEF Acknowledge, Done, LastFrame, Finish, Mute, NoNote, Quiet, Control, CancelWaits,
      Unsuccessful, TypeOK
<1>16. ASSUME NEW d \in Deliveries, EnqueueCancel(d) PROVE CancelWaits'
  BY <1>16 DEF EnqueueCancel, CancelWaits, Unsuccessful, Active, TypeOK
<1>17. ASSUME NEW d \in Deliveries, NEW m \in Messages, Receive(d, m) PROVE CancelWaits'
  BY <1>17, ReceiveEffect DEF NotedAt, CancelWaits, Unsuccessful, TypeOK
<1>18. ASSUME NEW d \in Deliveries, NEW m \in Messages, DieAfterClaim(d, m) PROVE CancelWaits'
  BY <1>18, DieEffect, Actors DEF CancelWaits, TypeOK
<1>19. ASSUME EnqueueEnd PROVE CancelWaits'
  BY <1>19 DEF EnqueueEnd, NoNote, CancelWaits, Unsuccessful, TypeOK
<1>20. ASSUME NEW d \in Deliveries, CancelTask(d) PROVE CancelWaits'
  BY <1>20 DEF CancelTask, Serving, Stopped, Awaiting, NoNote, CancelWaits, Unsuccessful, TypeOK
<1>21. ASSUME NEW d \in Deliveries, CancelReturns(d) PROVE CancelWaits'
  BY <1>21, Actors DEF CancelReturns, Settled, CancelWaits, TypeOK
<1>22. ASSUME EndChat PROVE CancelWaits'
  <2>1. \A c \in Deliveries : phase'[c] = phase[c] \/ (Live(c) /\ phase'[c] = "draining")
    BY <1>22, StoppedKeeps DEF EndChat
  <2>2. QED
    BY <1>22, <2>1, Actors DEF EndChat, Serving, CancelWaits, TypeOK
<1>23. ASSUME EndChatReturns PROVE CancelWaits'
  BY <1>23, Actors DEF EndChatReturns, CancelWaits, TypeOK
<1>24. ASSUME CancelHandlers PROVE CancelWaits'
  BY <1>24, Actors DEF CancelHandlers, Cut, Stopped, NoNote, CancelWaits, Unsuccessful, TypeOK
<1>25. ASSUME CloseProcessor PROVE CancelWaits'
  BY <1>25, StoppedKeeps, Actors DEF CloseProcessor, CancelWaits, TypeOK
<1>26. ASSUME CloseBackend PROVE CancelWaits'
  BY <1>26 DEF CloseBackend, Control, NoNote, CancelWaits, Unsuccessful, TypeOK
<1>27. ASSUME Exit PROVE CancelWaits'
  BY <1>27, Actors DEF Exit, AllDead, Gone, CancelWaits, TypeOK
<1>28. ASSUME Restart PROVE CancelWaits'
  BY <1>28 DEF Restart, Reconciled, Requeued, CancelWaits, Unsuccessful, TypeOK
<1>29. ASSUME UNCHANGED vars PROVE CancelWaits'
  BY <1>29 DEF vars, store, CancelWaits, Unsuccessful, TypeOK
<1>30. QED
  BY <1>1, <1>2, <1>3, <1>4, <1>5, <1>6, <1>7, <1>8, <1>9, <1>10, <1>11, <1>12, <1>13, <1>14,
     <1>15, <1>16, <1>17, <1>18, <1>19, <1>20, <1>21, <1>22, <1>23, <1>24, <1>25, <1>26,
     <1>27, <1>28, <1>29
  DEF Next, Respond, Work, Serve, Shut

\* A settled task stays as it is.
LEMMA NextConfirmed ==
  ASSUME TypeOK, CancelWaits, Confirmed, [Next]_vars
  PROVE  Confirmed'
<1>1. ASSUME NEW d \in Deliveries, SendRefusal(d) PROVE Confirmed'
  BY <1>1
  DEF SendRefusal, Done, LastFrame, Finish, Mute, NoNote, Quiet, Control, Confirmed,
      Unsuccessful, TypeOK
<1>2. ASSUME NEW d \in Deliveries, SendControlReply(d) PROVE Confirmed'
  BY <1>2, NoteEnds
  DEF SendControlReply, Done, Finish, Mute, Quiet, Control, NotedAt, Ending, Confirmed,
      Unsuccessful, TypeOK
<1>3. ASSUME NEW d \in Deliveries, StopReturns(d) PROVE Confirmed'
  BY <1>3 DEF StopReturns, NoNote, Awaiting, Confirmed, Unsuccessful, TypeOK
<1>4. ASSUME NEW d \in Deliveries, EndReturns(d) PROVE Confirmed'
  BY <1>4, NoteEnds
  DEF EndReturns, NoNote, Awaiting, NotedAt, Ending, Confirmed, Unsuccessful, TypeOK
<1>5. ASSUME NEW d \in Deliveries, Begin(d) PROVE Confirmed'
  BY <1>5, NoteGoes DEF Begin, Working, Control, NotedAt, Going, Confirmed, Unsuccessful, TypeOK
<1>6. ASSUME NEW d \in Deliveries, Greet(d) PROVE Confirmed'
  BY <1>6, NoteEnds
  DEF Greet, Goes, WorkEnds, Done, Mute, NoNote, Control, NotedAt, Ending, Confirmed,
      Unsuccessful, TypeOK
<1>7. ASSUME NEW d \in Deliveries, Beat(d) PROVE Confirmed'
  BY <1>7, NoteGoes DEF Beat, Working, Control, NotedAt, Going, Confirmed, Unsuccessful, TypeOK
<1>8. ASSUME NEW d \in Deliveries, Answer(d) PROVE Confirmed'
  BY <1>8 DEF Answer, Goes, NoNote, Working, Control, Confirmed, Unsuccessful, TypeOK
<1>9. ASSUME NEW d \in Deliveries, ReplyFails(d) PROVE Confirmed'
  BY <1>9, NoteEnds
  DEF ReplyFails, Goes, Working, Control, NotedAt, Ending, Confirmed, Unsuccessful, TypeOK
<1>10. ASSUME NEW d \in Deliveries, GiveUp(d) PROVE Confirmed'
  BY <1>10 DEF GiveUp, Goes, Mute, NoNote, Working, Control, Confirmed, Unsuccessful, TypeOK
<1>11. ASSUME NEW d \in Deliveries, Aborted(d) PROVE Confirmed'
  <2>1. CASE Goes(d, "excusing") /\ Note(d, "task.timeout")
    BY <1>11, <2>1, NoteEnds
    DEF Aborted, Goes, Working, Control, NotedAt, Ending, Confirmed, Unsuccessful, TypeOK
  <2>2. CASE WorkEnds(d) /\ Note(d, "task.failed")
    BY <1>11, <2>2, NoteEnds
    DEF Aborted, WorkEnds, Done, Working, Control, NotedAt, Ending, Confirmed, Unsuccessful,
        TypeOK
  <2>3. QED
    BY <1>11, <2>1, <2>2 DEF Aborted
<1>12. ASSUME NEW d \in Deliveries, Excuse(d) PROVE Confirmed'
  BY <1>12
  DEF Excuse, WorkEnds, Done, LastFrame, Finish, Mute, NoNote, Working, Control, Confirmed,
      Unsuccessful, TypeOK
<1>13. ASSUME NEW d \in Deliveries, Deliver(d) PROVE Confirmed'
  BY <1>13, NoteEnds
  DEF Deliver, WorkEnds, Done, Finish, Mute, Working, Control, NotedAt, Ending, Confirmed,
      Unsuccessful, TypeOK
<1>14. ASSUME NEW d \in Deliveries, Drained(d) PROVE Confirmed'
  BY <1>14, NoteEnds DEF Drained, Working, Control, NotedAt, Ending, Confirmed, Unsuccessful, TypeOK
<1>15. ASSUME NEW d \in Deliveries, Acknowledge(d) PROVE Confirmed'
  BY <1>15
  DEF Acknowledge, Done, LastFrame, Finish, Mute, NoNote, Quiet, Control, Confirmed,
      Unsuccessful, TypeOK
<1>16. ASSUME NEW d \in Deliveries, EnqueueCancel(d) PROVE Confirmed'
  BY <1>16 DEF EnqueueCancel, Confirmed, Unsuccessful, TypeOK
<1>17. ASSUME NEW d \in Deliveries, NEW m \in Messages, Receive(d, m) PROVE Confirmed'
  BY <1>17, ReceiveEffect DEF NotedAt, Confirmed, Unsuccessful, Live, Started, TypeOK
<1>18. ASSUME NEW d \in Deliveries, NEW m \in Messages, DieAfterClaim(d, m) PROVE Confirmed'
  BY <1>18, DieEffect DEF Confirmed, Unsuccessful, TypeOK
<1>19. ASSUME EnqueueEnd PROVE Confirmed'
  BY <1>19 DEF EnqueueEnd, NoNote, Confirmed, Unsuccessful, TypeOK
<1>20. ASSUME NEW d \in Deliveries, CancelTask(d) PROVE Confirmed'
  BY <1>20 DEF CancelTask, Serving, Stopped, Awaiting, NoNote, Confirmed, Unsuccessful, TypeOK
<1>21. ASSUME NEW d \in Deliveries, CancelReturns(d) PROVE Confirmed'
  BY <1>21 DEF CancelReturns, Settled, NoNote, CancelWaits, Confirmed, Unsuccessful, Held, TypeOK
<1>22. ASSUME EndChat PROVE Confirmed'
  <2>1. \A c \in Deliveries : phase'[c] = phase[c] \/ (Live(c) /\ phase'[c] = "draining")
    BY <1>22, StoppedKeeps DEF EndChat
  <2>2. QED
    BY <1>22, <2>1 DEF EndChat, Serving, NoNote, Confirmed, Unsuccessful, Live, Started, TypeOK
<1>23. ASSUME EndChatReturns PROVE Confirmed'
  BY <1>23 DEF EndChatReturns, NoNote, Confirmed, Unsuccessful, TypeOK
<1>24. ASSUME CancelHandlers PROVE Confirmed'
  BY <1>24 DEF CancelHandlers, Cut, Stopped, NoNote, Confirmed, Unsuccessful, Live, Started, TypeOK
<1>25. ASSUME CloseProcessor PROVE Confirmed'
  BY <1>25, StoppedKeeps DEF CloseProcessor, NoNote, Confirmed, Unsuccessful, Live, Started, TypeOK
<1>26. ASSUME CloseBackend PROVE Confirmed'
  BY <1>26 DEF CloseBackend, Control, NoNote, Confirmed, Unsuccessful, TypeOK
<1>27. ASSUME Exit PROVE Confirmed'
  BY <1>27 DEF Exit, AllDead, Gone, NoNote, Confirmed, Unsuccessful, TypeOK
<1>28. ASSUME Restart PROVE Confirmed'
  BY <1>28 DEF Restart, Reconciled, Requeued, Confirmed, Unsuccessful, TypeOK
<1>29. ASSUME UNCHANGED vars PROVE Confirmed'
  BY <1>29 DEF vars, store, Confirmed, Unsuccessful, TypeOK
<1>30. QED
  BY <1>1, <1>2, <1>3, <1>4, <1>5, <1>6, <1>7, <1>8, <1>9, <1>10, <1>11, <1>12, <1>13, <1>14,
     <1>15, <1>16, <1>17, <1>18, <1>19, <1>20, <1>21, <1>22, <1>23, <1>24, <1>25, <1>26,
     <1>27, <1>28, <1>29
  DEF Next, Respond, Work, Serve, Shut

LEMMA InitHandler == Init => HandlerInv
<1>1. SUFFICES ASSUME Init PROVE HandlerInv
  OBVIOUS
<1>2. Streams /\ Succeeded /\ Accounted
  BY <1>1 DEF Init, Streams, Succeeded, Accounted, NoStatus, Active
<1>3. CancelWaits /\ Confirmed
  BY <1>1, Actors DEF Init, CancelWaits, Confirmed
<1>4. QED
  BY <1>2, <1>3 DEF HandlerInv

LEMMA NextHandler == TypeOK /\ HandlerInv /\ [Next]_vars => HandlerInv'
BY NextStreams, NextSucceeded, NextAccounted, NextCancelWaits, NextConfirmed DEF HandlerInv

\* Every handler keeps these, through stops, shutdowns, crashes and restarts.
THEOREM HandlerCorrect == Spec => [](TypeOK /\ HandlerInv)
<1>1. TypeOK /\ HandlerInv /\ [Next]_vars => HandlerInv'
  BY NextHandler
<1>2. QED
  BY <1>1, InitHandler, TypeCorrect, PTL DEF Spec

\* handle() finishes exactly one response stream, if no send failed and no shutdown cut it, and
\* a task is shown as succeeded only after its final frame was confirmed.
THEOREM StreamCorrect == Spec => []StreamEnds
<1>1. TypeOK /\ HandlerInv => StreamEnds
  BY DEF HandlerInv, Streams, Succeeded, StreamEnds
<1>2. QED
  BY <1>1, HandlerCorrect, PTL

\* While the process serves, a task that the store shows as active is in the hands of a handler,
\* unless the write of one of its events failed.
THEOREM ActiveCorrect == Spec => []ActiveAccounted
<1>1. TypeOK /\ HandlerInv => ActiveAccounted
  BY DEF HandlerInv, Accounted, ActiveAccounted, Over, Recorded
<1>2. QED
  BY <1>1, HandlerCorrect, PTL

\* A cancellation reported as done is of a task that has settled, and that the store does not
\* show as succeeded.
THEOREM CancelCorrect == Spec => []CancelConfirmed
<1>1. TypeOK /\ HandlerInv => CancelConfirmed
  BY DEF HandlerInv, Confirmed, Unsuccessful, CancelConfirmed, Held, Live, Started
<1>2. QED
  BY <1>1, HandlerCorrect, PTL
===============================================================================
