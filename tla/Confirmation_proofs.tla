-------------------------- MODULE Confirmation_proofs --------------------------
(***************************************************************************)
(* Proofs about Confirmation.tla, for any tasks, requests and users, any   *)
(* number of ends of the chat and of restarts.                             *)
(***************************************************************************)
EXTENDS Confirmation, TLAPS

(***************************************************************************)
(* The inductive invariant.                                                *)
(***************************************************************************)
\* A request belongs to a task from the step that asks it, and that task has begun.
Placed ==
  \A q \in Requests :
    /\ phase[q] = "new" <=> task[q] = NoTask
    /\ phase[q] # "new" => stage[task[q]] # "new"

\* Nothing is settled before the row is there.
Fresh ==
  \A q \in Requests :
    phase[q] \in {"new", "asked"} => row[q] = "none" /\ future[q] = "none" /\ answer[q] = "none"

\* The coroutine sees an approval only after decide() has written it to the table, and the
\* table keeps what the sender decided in the epoch of the turn.
Genuine ==
  \A q \in Requests :
    /\ row[q] = "approved" => by[q] = <<Requester, begun[task[q]]>>
    /\ "approved" \in {future[q], answer[q]} => row[q] = "approved"

\* Only the active task is inside its turn.
OneTurn == \A t \in Tasks : stage[t] = "bound" => active = t

\* A task has no status before it begins.
Unseen == \A t \in Tasks : stage[t] = "new" => status[t] = NoStatus

ConfirmationInv == Placed /\ Fresh /\ Genuine /\ OneTurn /\ Unseen /\ RefusalStops /\ WaitingShown

(***************************************************************************)
(* Types.                                                                  *)
(***************************************************************************)
Events == DOMAIN EventState

\* What the projection of an event makes of a status.
LEMMA ProjectedStatus ==
  ASSUME NEW s \in Statuses, NEW e \in Events
  PROVE  /\ Projected(s, e) \in Statuses
         /\ Projected(s, e) = "WAITING_CONFIRMATION" => s = Projected(s, e) \/ e = "task.waiting"
         /\ e = "task.resumed" => Projected(s, e) # "WAITING_CONFIRMATION"
BY DEF Events, Projected, AuditOnly, EventState, Statuses, Terminal, Active, NoStatus

\* An event is about one task.
LEMMA EventStatus ==
  ASSUME TypeOK, NEW t \in Tasks, NEW e \in Events, Event(t, e)
  PROVE  /\ status' \in [Tasks -> Statuses]
         /\ \A u \in Tasks : u # t => status'[u] = status[u]
         /\ status'[t] = "WAITING_CONFIRMATION" =>
              e # "task.resumed" /\ (status[t] = "WAITING_CONFIRMATION" \/ e = "task.waiting")
<1> DEFINE new == Projected(status[t], e)
<1>1. /\ status[t] \in Statuses /\ status \in [Tasks -> Statuses]
      /\ status' = [status EXCEPT ![t] = new]
  BY DEF TypeOK, Event
<1>2. /\ new \in Statuses
      /\ new = "WAITING_CONFIRMATION" => status[t] = new \/ e = "task.waiting"
      /\ e = "task.resumed" => new # "WAITING_CONFIRMATION"
  BY <1>1, ProjectedStatus
<1> HIDE DEF new
<1>3. QED
  BY <1>1, <1>2

\* A request that fails keeps the types.
LEMMA FailType ==
  ASSUME TypeOK, NEW q \in Requests, FailWith(q), Settled(q, "refused"), StillTurn,
         UNCHANGED <<status, asked, holds, by, gaveUp>>
  PROVE  TypeOK'
<1>1. /\ row' \in [Requests -> Answers \cup {"pending"}]
      /\ future' \in [Requests -> Answers] /\ timer' \in [Requests -> BOOLEAN]
  BY DEF Settled, Answers, TypeOK
<1>2. /\ answer' = [answer EXCEPT ![q] = "refused"] /\ flag' \in {flag, TRUE}
      /\ phase' = [phase EXCEPT ![q] = "answered"] \/ phase' = [phase EXCEPT ![q] = "closing"]
  BY DEF FailWith
<1>3. answer' \in [Requests -> Answers] /\ flag' \in BOOLEAN
  BY <1>2 DEF Answers, TypeOK
<1>4. QED
  BY <1>1, <1>2, <1>3 DEF StillTurn, asked, TypeOK

\* The events of the model.
LEMMA KnownEvents ==
  {"task.started", "task.progress", "task.waiting", "task.resumed", "task.completed"}
    \subseteq Events
BY DEF Events, EventState

\* Initial types.
LEMMA InitType == Init => TypeOK
<1>1. SUFFICES ASSUME Init PROVE TypeOK
  OBVIOUS
<1>2. by \in [Requests -> {<<>>} \cup (Users \X Nat)]
  BY <1>1 DEF Init
<1>3. /\ boots \in 0..MaxBoots /\ epoch \in Nat
      /\ begun \in [Tasks -> Nat]
  BY <1>1, ConfirmationAssumption DEF Init
<1>4. QED
  BY <1>1, <1>2, <1>3 DEF Init, TypeOK, Statuses, NoStatus, Answers

\* Every step keeps the types.
LEMMA NextType ==
  ASSUME TypeOK, Placed, [Next]_vars
  PROVE  TypeOK'
<1>1. ASSUME NEW t \in Tasks, Start(t) PROVE TypeOK'
  <2>1. \E e \in {"task.started", "task.progress", "task.waiting", "task.completed"} : Event(t, e)
    BY <1>1 DEF Start
  <2>2. status' \in [Tasks -> Statuses]
    BY <1>1, <2>1, EventStatus, KnownEvents DEF Start
  <2>3. QED
    BY <1>1, <2>2 DEF Start, turns, asked, NoRequest, TypeOK
<1>2. ASSUME NEW t \in Tasks, Beat(t) PROVE TypeOK'
  <2>1. \E e \in {"task.started", "task.progress", "task.waiting", "task.completed"} : Event(t, e)
    BY <1>2 DEF Beat
  <2>2. status' \in [Tasks -> Statuses]
    BY <1>2, <2>1, EventStatus, KnownEvents DEF Beat
  <2>3. QED
    BY <1>2, <2>2 DEF Beat, turns, asked, NoRequest, TypeOK
<1>3. ASSUME NEW t \in Tasks, Interrupt(t) PROVE TypeOK'
  BY <1>3 DEF Interrupt, asked, TypeOK
<1>4. ASSUME NEW t \in Tasks, Leave(t) PROVE TypeOK'
  BY <1>4 DEF Leave, NoRequest, asked, TypeOK
<1>5. ASSUME NEW t \in Tasks, Unbind(t) PROVE TypeOK'
  BY <1>5 DEF Unbind, asked, Cancelled, Answers, TypeOK
<1>6. ASSUME NEW t \in Tasks, Finish(t) PROVE TypeOK'
  <2>1. \E e \in {"task.started", "task.progress", "task.waiting", "task.completed"} : Event(t, e)
    BY <1>6 DEF Finish
  <2>2. status' \in [Tasks -> Statuses]
    BY <1>6, <2>1, EventStatus, KnownEvents DEF Finish
  <2>3. QED
    BY <1>6, <2>2 DEF Finish, turns, asked, NoRequest, TypeOK
<1>7. ASSUME EndChat PROVE TypeOK'
  BY <1>7 DEF EndChat, NoRequest, asked, TypeOK
<1>8. ASSUME Restart PROVE TypeOK'
  <2>1. /\ boots' \in 0..MaxBoots /\ holds' \subseteq Requests
        /\ stage' \in [Tasks -> {"new", "bound", "leaving", "finishing", "over"}]
    BY <1>8, ConfirmationAssumption DEF Restart, TypeOK
  <2>2. status' \in [Tasks -> Statuses]
    BY <1>8 DEF Restart, TypeOK, Statuses, Terminal
  <2>3. phase' \in [Requests -> {"new", "asked", "notifying", "waiting", "closing", "abandoned",
                               "answered", "dead"}]
    BY <1>8 DEF Restart, TypeOK
  <2>4. QED
    BY <1>8, <2>1, <2>2, <2>3 DEF Restart, Answers, TypeOK
<1>9. ASSUME NEW q \in Requests, NEW t \in Tasks, Ask(q, t) PROVE TypeOK'
  BY <1>9 DEF Ask, turns, TypeOK
<1>10. ASSUME NEW q \in Requests, NEW u \in Users, NEW verdict \in {"approved", "refused"},
            Decide(q, u, verdict)
     PROVE  TypeOK'
  BY <1>10 DEF Decide, turns, asked, Answers, TypeOK
<1>11. ASSUME NEW q \in Requests, Open(q) PROVE TypeOK'
  <2>1. task[q] \in Tasks /\ Event(task[q], "task.waiting")
    BY <1>11 DEF Open, Placed, TypeOK
  <2>2. status' \in [Tasks -> Statuses]
    BY <1>11, <2>1, EventStatus, KnownEvents DEF Open
  <2>3. QED
    BY <1>11, <2>2 DEF Open, turns, asked, TypeOK
<1>12. ASSUME NEW q \in Requests, NotOpened(q) PROVE TypeOK'
  <2>1. /\ answer' = [answer EXCEPT ![q] = "refused"]
        /\ phase' = [phase EXCEPT ![q] = "answered"] \/ phase' = [phase EXCEPT ![q] = "closing"]
        /\ flag' \in {flag, TRUE}
    BY <1>12 DEF NotOpened, FailWith
  <2>2. QED
    BY <1>12, <2>1 DEF NotOpened, StillTurn, asked, Answers, TypeOK
<1>13. ASSUME NEW q \in Requests, Notified(q) PROVE TypeOK'
  BY <1>13 DEF Notified, turns, asked, TypeOK
<1>14. ASSUME NEW q \in Requests, NotifyFails(q) PROVE TypeOK'
  BY <1>14, FailType DEF NotifyFails
<1>15. ASSUME NEW q \in Requests, Approved(q) PROVE TypeOK'
  <2>1. task[q] \in Tasks /\ Event(task[q], "task.resumed")
    BY <1>15 DEF Approved, Placed, TypeOK
  <2>2. status' \in [Tasks -> Statuses]
    BY <1>15, <2>1, EventStatus, KnownEvents DEF Approved
  <2>3. QED
    BY <1>15, <2>2 DEF Approved, turns, asked, Settled, Answers, TypeOK
<1>16. ASSUME NEW q \in Requests, Refused(q) PROVE TypeOK'
  BY <1>16, FailType DEF Refused
<1>17. ASSUME NEW q \in Requests, RuntimeClosed(q) PROVE TypeOK'
  BY <1>17 DEF RuntimeClosed, turns, asked, TypeOK
<1>18. ASSUME NEW q \in Requests, GiveUp(q) PROVE TypeOK'
  <2>1. CASE phase[q] = "closing"
    BY <1>18, <2>1 DEF GiveUp, turns, asked, TypeOK
  <2>2. CASE phase[q] = "waiting"
    <3>1. Settled(q, "refused") /\ answer' = [answer EXCEPT ![q] = "refused"]
      BY <1>18, <2>2 DEF GiveUp
    <3>2. row' \in [Requests -> Answers \cup {"pending"}] /\ future' \in [Requests -> Answers]
      BY <3>1 DEF Settled, Answers, TypeOK
    <3>3. timer' \in [Requests -> BOOLEAN] /\ answer' \in [Requests -> Answers]
      BY <3>1 DEF Settled, Answers, TypeOK
    <3>4. /\ phase' = [phase EXCEPT ![q] = "answered"] /\ gaveUp' = gaveUp \cup {q}
          /\ UNCHANGED <<turns, status, asked, holds, by>>
      BY <1>18, <2>2 DEF GiveUp
    <3>5. QED
      BY <3>2, <3>3, <3>4 DEF turns, asked, TypeOK
  <2>3. QED
    BY <1>18, <2>1, <2>2 DEF GiveUp
<1>19. ASSUME NEW q \in Requests, TimerFires(q) PROVE TypeOK'
  BY <1>19 DEF TimerFires, turns, asked, TypeOK
<1>20. CASE UNCHANGED vars
  BY <1>20 DEF vars, turns, asked, TypeOK
<1>21. QED
  BY <1>1, <1>2, <1>3, <1>4, <1>5, <1>6, <1>7, <1>8, <1>9, <1>10, <1>11, <1>12, <1>13, <1>14,
     <1>15, <1>16, <1>17, <1>18, <1>19, <1>20
  DEF Next, Turn, Progress

\* A request stays with its task.
LEMMA NextPlaced ==
  ASSUME TypeOK, TypeOK', Placed, [Next]_vars
  PROVE  Placed'
<1>1. ASSUME NEW t \in Tasks, Start(t) PROVE Placed'
  BY <1>1 DEF Start, NoRequest, asked, Placed
<1>2. ASSUME NEW t \in Tasks, Beat(t) PROVE Placed'
  BY <1>2 DEF Beat, NoRequest, turns, asked, Placed
<1>3. ASSUME NEW t \in Tasks, Interrupt(t) PROVE Placed'
  BY <1>3 DEF Interrupt, asked, Placed
<1>4. ASSUME NEW t \in Tasks, Leave(t) PROVE Placed'
  BY <1>4 DEF Leave, NoRequest, asked, Placed
<1>5. ASSUME NEW t \in Tasks, Unbind(t) PROVE Placed'
  BY <1>5 DEF Unbind, asked, Cancelled, Placed
<1>6. ASSUME NEW t \in Tasks, Finish(t) PROVE Placed'
  BY <1>6 DEF Finish, NoRequest, asked, Placed
<1>7. ASSUME EndChat PROVE Placed'
  BY <1>7 DEF EndChat, NoRequest, asked, Placed
<1>8. ASSUME Restart PROVE Placed'
  BY <1>8 DEF Restart, InFlight, TypeOK, Placed
<1>9. ASSUME NEW q \in Requests, NEW t \in Tasks, Ask(q, t) PROVE Placed'
  BY <1>9, ConfirmationAssumption DEF Ask, turns, TypeOK, Placed
<1>10. ASSUME NEW q \in Requests, NEW u \in Users, NEW verdict \in {"approved", "refused"},
            Decide(q, u, verdict)
     PROVE  Placed'
  BY <1>10 DEF Decide, turns, asked, Placed
<1>11. ASSUME NEW q \in Requests, Open(q) PROVE Placed'
  BY <1>11 DEF Open, turns, asked, Placed
<1>12. ASSUME NEW q \in Requests, NotOpened(q) PROVE Placed'
  BY <1>12 DEF NotOpened, FailWith, StillTurn, asked, TypeOK, Placed
<1>13. ASSUME NEW q \in Requests, Notified(q) PROVE Placed'
  BY <1>13 DEF Notified, turns, asked, Placed
<1>14. ASSUME NEW q \in Requests, NotifyFails(q) PROVE Placed'
  BY <1>14 DEF NotifyFails, FailWith, Settled, StillTurn, asked, TypeOK, Placed
<1>15. ASSUME NEW q \in Requests, Approved(q) PROVE Placed'
  BY <1>15 DEF Approved, Settled, turns, asked, Placed
<1>16. ASSUME NEW q \in Requests, Refused(q) PROVE Placed'
  BY <1>16 DEF Refused, FailWith, Settled, StillTurn, asked, TypeOK, Placed
<1>17. ASSUME NEW q \in Requests, RuntimeClosed(q) PROVE Placed'
  BY <1>17 DEF RuntimeClosed, turns, asked, Placed
<1>18. ASSUME NEW q \in Requests, GiveUp(q) PROVE Placed'
  BY <1>18 DEF GiveUp, Settled, turns, asked, TypeOK, Placed
<1>19. ASSUME NEW q \in Requests, TimerFires(q) PROVE Placed'
  BY <1>19 DEF TimerFires, turns, asked, Placed
<1>20. CASE UNCHANGED vars
  BY <1>20 DEF vars, turns, asked, Placed
<1>21. QED
  BY <1>1, <1>2, <1>3, <1>4, <1>5, <1>6, <1>7, <1>8, <1>9, <1>10, <1>11, <1>12, <1>13, <1>14,
     <1>15, <1>16, <1>17, <1>18, <1>19, <1>20
  DEF Next, Turn, Progress

\* The first steps of a request settle nothing.
LEMMA NextFresh ==
  ASSUME TypeOK, TypeOK', Fresh, [Next]_vars
  PROVE  Fresh'
<1>1. ASSUME NEW t \in Tasks, Start(t) PROVE Fresh'
  BY <1>1 DEF Start, NoRequest, asked, Fresh
<1>2. ASSUME NEW t \in Tasks, Beat(t) PROVE Fresh'
  BY <1>2 DEF Beat, NoRequest, turns, asked, Fresh
<1>3. ASSUME NEW t \in Tasks, Interrupt(t) PROVE Fresh'
  BY <1>3 DEF Interrupt, asked, Fresh
<1>4. ASSUME NEW t \in Tasks, Leave(t) PROVE Fresh'
  BY <1>4 DEF Leave, NoRequest, asked, Fresh
<1>5. ASSUME NEW t \in Tasks, Unbind(t) PROVE Fresh'
  BY <1>5 DEF Unbind, asked, Cancelled, Waits, Fresh
<1>6. ASSUME NEW t \in Tasks, Finish(t) PROVE Fresh'
  BY <1>6 DEF Finish, NoRequest, asked, Fresh
<1>7. ASSUME EndChat PROVE Fresh'
  BY <1>7 DEF EndChat, NoRequest, asked, Fresh
<1>8. ASSUME Restart PROVE Fresh'
  BY <1>8 DEF Restart, Fresh
<1>9. ASSUME NEW q \in Requests, NEW t \in Tasks, Ask(q, t) PROVE Fresh'
  BY <1>9 DEF Ask, turns, Fresh
<1>10. ASSUME NEW q \in Requests, NEW u \in Users, NEW verdict \in {"approved", "refused"},
            Decide(q, u, verdict)
     PROVE  Fresh'
  BY <1>10 DEF Decide, turns, asked, Waits, Fresh
<1>11. ASSUME NEW q \in Requests, Open(q) PROVE Fresh'
  BY <1>11 DEF Open, turns, asked, TypeOK, Fresh
<1>12. ASSUME NEW q \in Requests, NotOpened(q) PROVE Fresh'
  BY <1>12 DEF NotOpened, FailWith, StillTurn, asked, TypeOK, Fresh
<1>13. ASSUME NEW q \in Requests, Notified(q) PROVE Fresh'
  BY <1>13 DEF Notified, turns, asked, Fresh
<1>14. ASSUME NEW q \in Requests, NotifyFails(q) PROVE Fresh'
  BY <1>14 DEF NotifyFails, FailWith, Settled, StillTurn, asked, TypeOK, Fresh
<1>15. ASSUME NEW q \in Requests, Approved(q) PROVE Fresh'
  BY <1>15 DEF Approved, Settled, turns, asked, Fresh
<1>16. ASSUME NEW q \in Requests, Refused(q) PROVE Fresh'
  BY <1>16 DEF Refused, FailWith, Settled, StillTurn, asked, TypeOK, Fresh
<1>17. ASSUME NEW q \in Requests, RuntimeClosed(q) PROVE Fresh'
  BY <1>17 DEF RuntimeClosed, turns, asked, Fresh
<1>18. ASSUME NEW q \in Requests, GiveUp(q) PROVE Fresh'
  BY <1>18 DEF GiveUp, Settled, turns, asked, TypeOK, Fresh
<1>19. ASSUME NEW q \in Requests, TimerFires(q) PROVE Fresh'
  BY <1>19 DEF TimerFires, turns, asked, Fresh
<1>20. CASE UNCHANGED vars
  BY <1>20 DEF vars, turns, asked, Fresh
<1>21. QED
  BY <1>1, <1>2, <1>3, <1>4, <1>5, <1>6, <1>7, <1>8, <1>9, <1>10, <1>11, <1>12, <1>13, <1>14,
     <1>15, <1>16, <1>17, <1>18, <1>19, <1>20
  DEF Next, Turn, Progress

\* No order of answer, time-out, cancellation and failed notice makes up an approval.
LEMMA NextGenuine ==
  ASSUME TypeOK, TypeOK', Placed, Fresh, Genuine, [Next]_vars
  PROVE  Genuine'
<1>1. ASSUME NEW t \in Tasks, Start(t) PROVE Genuine'
  BY <1>1 DEF Start, NoRequest, asked, Placed, Fresh, Genuine
<1>2. ASSUME NEW t \in Tasks, Beat(t) PROVE Genuine'
  BY <1>2 DEF Beat, NoRequest, turns, asked, Genuine
<1>3. ASSUME NEW t \in Tasks, Interrupt(t) PROVE Genuine'
  BY <1>3 DEF Interrupt, asked, Genuine
<1>4. ASSUME NEW t \in Tasks, Leave(t) PROVE Genuine'
  BY <1>4 DEF Leave, NoRequest, asked, Genuine
<1>5. ASSUME NEW t \in Tasks, Unbind(t) PROVE Genuine'
  BY <1>5 DEF Unbind, asked, Cancelled, Genuine
<1>6. ASSUME NEW t \in Tasks, Finish(t) PROVE Genuine'
  BY <1>6 DEF Finish, NoRequest, asked, Genuine
<1>7. ASSUME EndChat PROVE Genuine'
  BY <1>7 DEF EndChat, NoRequest, asked, Genuine
<1>8. ASSUME Restart PROVE Genuine'
  BY <1>8 DEF Restart, Genuine
<1>9. ASSUME NEW q \in Requests, NEW t \in Tasks, Ask(q, t) PROVE Genuine'
  BY <1>9 DEF Ask, turns, Fresh, Genuine
<1>10. ASSUME NEW q \in Requests, NEW u \in Users, NEW verdict \in {"approved", "refused"},
            Decide(q, u, verdict)
     PROVE  Genuine'
  BY <1>10 DEF Decide, Matches, turns, asked, TypeOK, Genuine
<1>11. ASSUME NEW q \in Requests, Open(q) PROVE Genuine'
  BY <1>11 DEF Open, turns, asked, Fresh, Genuine
<1>12. ASSUME NEW q \in Requests, NotOpened(q) PROVE Genuine'
  BY <1>12 DEF NotOpened, FailWith, StillTurn, asked, TypeOK, Genuine
<1>13. ASSUME NEW q \in Requests, Notified(q) PROVE Genuine'
  BY <1>13 DEF Notified, turns, asked, Genuine
<1>14. ASSUME NEW q \in Requests, NotifyFails(q) PROVE Genuine'
  BY <1>14 DEF NotifyFails, FailWith, Settled, StillTurn, asked, Genuine
<1>15. ASSUME NEW q \in Requests, Approved(q) PROVE Genuine'
  BY <1>15 DEF Approved, Outcome, Settled, turns, asked, Genuine
<1>16. ASSUME NEW q \in Requests, Refused(q) PROVE Genuine'
  BY <1>16 DEF Refused, FailWith, Settled, StillTurn, asked, Genuine
<1>17. ASSUME NEW q \in Requests, RuntimeClosed(q) PROVE Genuine'
  BY <1>17 DEF RuntimeClosed, turns, asked, Genuine
<1>18. ASSUME NEW q \in Requests, GiveUp(q) PROVE Genuine'
  BY <1>18 DEF GiveUp, Settled, turns, asked, TypeOK, Genuine
<1>19. ASSUME NEW q \in Requests, TimerFires(q) PROVE Genuine'
  BY <1>19 DEF TimerFires, turns, asked, Genuine
<1>20. CASE UNCHANGED vars
  BY <1>20 DEF vars, turns, asked, Genuine
<1>21. QED
  BY <1>1, <1>2, <1>3, <1>4, <1>5, <1>6, <1>7, <1>8, <1>9, <1>10, <1>11, <1>12, <1>13, <1>14,
     <1>15, <1>16, <1>17, <1>18, <1>19, <1>20
  DEF Next, Turn, Progress

\* One task at a time is inside its turn.
LEMMA NextOneTurn ==
  ASSUME TypeOK, TypeOK', OneTurn, [Next]_vars
  PROVE  OneTurn'
<1>1. ASSUME NEW t \in Tasks, Start(t) PROVE OneTurn'
  BY <1>1 DEF Start, NoRequest, asked, OneTurn
<1>2. ASSUME NEW t \in Tasks, Beat(t) PROVE OneTurn'
  BY <1>2 DEF Beat, NoRequest, turns, asked, OneTurn
<1>3. ASSUME NEW t \in Tasks, Interrupt(t) PROVE OneTurn'
  BY <1>3 DEF Interrupt, asked, OneTurn
<1>4. ASSUME NEW t \in Tasks, Leave(t) PROVE OneTurn'
  BY <1>4 DEF Leave, NoRequest, asked, TypeOK, OneTurn
<1>5. ASSUME NEW t \in Tasks, Unbind(t) PROVE OneTurn'
  BY <1>5 DEF Unbind, asked, Cancelled, OneTurn
<1>6. ASSUME NEW t \in Tasks, Finish(t) PROVE OneTurn'
  BY <1>6 DEF Finish, NoRequest, asked, OneTurn
<1>7. ASSUME EndChat PROVE OneTurn'
  BY <1>7 DEF EndChat, NoRequest, asked, OneTurn
<1>8. ASSUME Restart PROVE OneTurn'
  BY <1>8 DEF Restart, OneTurn
<1>9. ASSUME NEW q \in Requests, NEW t \in Tasks, Ask(q, t) PROVE OneTurn'
  BY <1>9 DEF Ask, turns, OneTurn
<1>10. ASSUME NEW q \in Requests, NEW u \in Users, NEW verdict \in {"approved", "refused"},
            Decide(q, u, verdict)
     PROVE  OneTurn'
  BY <1>10 DEF Decide, turns, asked, OneTurn
<1>11. ASSUME NEW q \in Requests, Open(q) PROVE OneTurn'
  BY <1>11 DEF Open, turns, asked, OneTurn
<1>12. ASSUME NEW q \in Requests, NotOpened(q) PROVE OneTurn'
  BY <1>12 DEF NotOpened, FailWith, StillTurn, asked, OneTurn
<1>13. ASSUME NEW q \in Requests, Notified(q) PROVE OneTurn'
  BY <1>13 DEF Notified, turns, asked, OneTurn
<1>14. ASSUME NEW q \in Requests, NotifyFails(q) PROVE OneTurn'
  BY <1>14 DEF NotifyFails, FailWith, Settled, StillTurn, asked, OneTurn
<1>15. ASSUME NEW q \in Requests, Approved(q) PROVE OneTurn'
  BY <1>15 DEF Approved, Settled, turns, asked, OneTurn
<1>16. ASSUME NEW q \in Requests, Refused(q) PROVE OneTurn'
  BY <1>16 DEF Refused, FailWith, Settled, StillTurn, asked, OneTurn
<1>17. ASSUME NEW q \in Requests, RuntimeClosed(q) PROVE OneTurn'
  BY <1>17 DEF RuntimeClosed, turns, asked, OneTurn
<1>18. ASSUME NEW q \in Requests, GiveUp(q) PROVE OneTurn'
  BY <1>18 DEF GiveUp, Settled, turns, asked, OneTurn
<1>19. ASSUME NEW q \in Requests, TimerFires(q) PROVE OneTurn'
  BY <1>19 DEF TimerFires, turns, asked, OneTurn
<1>20. CASE UNCHANGED vars
  BY <1>20 DEF vars, turns, asked, OneTurn
<1>21. QED
  BY <1>1, <1>2, <1>3, <1>4, <1>5, <1>6, <1>7, <1>8, <1>9, <1>10, <1>11, <1>12, <1>13, <1>14,
     <1>15, <1>16, <1>17, <1>18, <1>19, <1>20
  DEF Next, Turn, Progress

\* Events are of tasks that have begun.
LEMMA NextUnseen ==
  ASSUME TypeOK, TypeOK', Placed, Unseen, [Next]_vars
  PROVE  Unseen'
<1>1. ASSUME NEW t \in Tasks, Start(t) PROVE Unseen'
  <2>1. Event(t, "task.started")
    BY <1>1 DEF Start
  <2>2. QED
    BY <1>1, <2>1, EventStatus, KnownEvents DEF Start, NoRequest, asked, TypeOK, Unseen
<1>2. ASSUME NEW t \in Tasks, Beat(t) PROVE Unseen'
  <2>1. CASE Waiting(t)
    <3>1. Event(t, "task.waiting")
      BY <1>2, <2>1 DEF Beat
    <3>2. QED
      BY <1>2, <2>1, <3>1, EventStatus, KnownEvents DEF Beat, NoRequest, turns, asked, Unseen
  <2>2. CASE ~Waiting(t)
    <3>1. Event(t, "task.progress")
      BY <1>2, <2>2 DEF Beat
    <3>2. QED
      BY <1>2, <2>2, <3>1, EventStatus, KnownEvents DEF Beat, NoRequest, turns, asked, Unseen
  <2>3. QED
    BY <2>1, <2>2
<1>3. ASSUME NEW t \in Tasks, Interrupt(t) PROVE Unseen'
  BY <1>3 DEF Interrupt, asked, Unseen
<1>4. ASSUME NEW t \in Tasks, Leave(t) PROVE Unseen'
  BY <1>4 DEF Leave, NoRequest, asked, Unseen
<1>5. ASSUME NEW t \in Tasks, Unbind(t) PROVE Unseen'
  BY <1>5 DEF Unbind, asked, Cancelled, Unseen
<1>6. ASSUME NEW t \in Tasks, Finish(t) PROVE Unseen'
  <2>1. Event(t, "task.completed")
    BY <1>6 DEF Finish
  <2>2. QED
    BY <1>6, <2>1, EventStatus, KnownEvents DEF Finish, NoRequest, asked, Unseen
<1>7. ASSUME EndChat PROVE Unseen'
  BY <1>7 DEF EndChat, NoRequest, asked, Unseen
<1>8. ASSUME Restart PROVE Unseen'
  BY <1>8 DEF Restart, Active, NoStatus, Unseen
<1>9. ASSUME NEW q \in Requests, NEW t \in Tasks, Ask(q, t) PROVE Unseen'
  BY <1>9 DEF Ask, turns, Unseen
<1>10. ASSUME NEW q \in Requests, NEW u \in Users, NEW verdict \in {"approved", "refused"},
            Decide(q, u, verdict)
     PROVE  Unseen'
  BY <1>10 DEF Decide, turns, asked, Unseen
<1>11. ASSUME NEW q \in Requests, Open(q) PROVE Unseen'
  <2>1. task[q] \in Tasks /\ Event(task[q], "task.waiting")
    BY <1>11 DEF Open, Placed, TypeOK
  <2>2. QED
    BY <1>11, <2>1, EventStatus, KnownEvents DEF Open, turns, asked, Placed, Unseen
<1>12. ASSUME NEW q \in Requests, NotOpened(q) PROVE Unseen'
  BY <1>12 DEF NotOpened, FailWith, StillTurn, asked, Unseen
<1>13. ASSUME NEW q \in Requests, Notified(q) PROVE Unseen'
  BY <1>13 DEF Notified, turns, asked, Unseen
<1>14. ASSUME NEW q \in Requests, NotifyFails(q) PROVE Unseen'
  BY <1>14 DEF NotifyFails, FailWith, Settled, StillTurn, asked, Unseen
<1>15. ASSUME NEW q \in Requests, Approved(q) PROVE Unseen'
  <2>1. task[q] \in Tasks /\ Event(task[q], "task.resumed")
    BY <1>15 DEF Approved, Placed, TypeOK
  <2>2. QED
    BY <1>15, <2>1, EventStatus, KnownEvents DEF Approved, turns, asked, Settled, Placed, Unseen
<1>16. ASSUME NEW q \in Requests, Refused(q) PROVE Unseen'
  BY <1>16 DEF Refused, FailWith, Settled, StillTurn, asked, Unseen
<1>17. ASSUME NEW q \in Requests, RuntimeClosed(q) PROVE Unseen'
  BY <1>17 DEF RuntimeClosed, turns, asked, Unseen
<1>18. ASSUME NEW q \in Requests, GiveUp(q) PROVE Unseen'
  BY <1>18 DEF GiveUp, Settled, turns, asked, Unseen
<1>19. ASSUME NEW q \in Requests, TimerFires(q) PROVE Unseen'
  BY <1>19 DEF TimerFires, turns, asked, Unseen
<1>20. CASE UNCHANGED vars
  BY <1>20 DEF vars, turns, asked, Unseen
<1>21. QED
  BY <1>1, <1>2, <1>3, <1>4, <1>5, <1>6, <1>7, <1>8, <1>9, <1>10, <1>11, <1>12, <1>13, <1>14,
     <1>15, <1>16, <1>17, <1>18, <1>19, <1>20
  DEF Next, Turn, Progress

\* A refusal that is returned has taken the runtime.
LEMMA NextRefusalStops ==
  ASSUME TypeOK, TypeOK', Placed, OneTurn, RefusalStops, [Next]_vars
  PROVE  RefusalStops'
<1>1. ASSUME NEW t \in Tasks, Start(t) PROVE RefusalStops'
  BY <1>1 DEF Start, NoRequest, asked, Placed, RefusalStops
<1>2. ASSUME NEW t \in Tasks, Beat(t) PROVE RefusalStops'
  BY <1>2 DEF Beat, NoRequest, turns, asked, RefusalStops
<1>3. ASSUME NEW t \in Tasks, Interrupt(t) PROVE RefusalStops'
  BY <1>3 DEF Interrupt, asked, RefusalStops
<1>4. ASSUME NEW t \in Tasks, Leave(t) PROVE RefusalStops'
  BY <1>4 DEF Leave, NoRequest, asked, Placed, RefusalStops
<1>5. ASSUME NEW t \in Tasks, Unbind(t) PROVE RefusalStops'
  BY <1>5 DEF Unbind, asked, Cancelled, RefusalStops
<1>6. ASSUME NEW t \in Tasks, Finish(t) PROVE RefusalStops'
  BY <1>6 DEF Finish, NoRequest, asked, RefusalStops
<1>7. ASSUME EndChat PROVE RefusalStops'
  BY <1>7 DEF EndChat, NoRequest, asked, RefusalStops
<1>8. ASSUME Restart PROVE RefusalStops'
  BY <1>8 DEF Restart, RefusalStops
<1>9. ASSUME NEW q \in Requests, NEW t \in Tasks, Ask(q, t) PROVE RefusalStops'
  BY <1>9 DEF Ask, turns, RefusalStops
<1>10. ASSUME NEW q \in Requests, NEW u \in Users, NEW verdict \in {"approved", "refused"},
            Decide(q, u, verdict)
     PROVE  RefusalStops'
  BY <1>10 DEF Decide, turns, asked, RefusalStops
<1>11. ASSUME NEW q \in Requests, Open(q) PROVE RefusalStops'
  BY <1>11 DEF Open, turns, asked, RefusalStops
<1>12. ASSUME NEW q \in Requests, NotOpened(q) PROVE RefusalStops'
  BY <1>12 DEF NotOpened, FailWith, StillTurn, Accepts, asked, TypeOK, RefusalStops
<1>13. ASSUME NEW q \in Requests, Notified(q) PROVE RefusalStops'
  BY <1>13 DEF Notified, turns, asked, RefusalStops
<1>14. ASSUME NEW q \in Requests, NotifyFails(q) PROVE RefusalStops'
  BY <1>14 DEF NotifyFails, FailWith, Settled, StillTurn, asked, TypeOK, RefusalStops
<1>15. ASSUME NEW q \in Requests, Approved(q) PROVE RefusalStops'
  BY <1>15 DEF Approved, Settled, turns, asked, TypeOK, RefusalStops
<1>16. ASSUME NEW q \in Requests, Refused(q) PROVE RefusalStops'
  BY <1>16 DEF Refused, FailWith, Settled, StillTurn, asked, TypeOK, RefusalStops
<1>17. ASSUME NEW q \in Requests, RuntimeClosed(q) PROVE RefusalStops'
  BY <1>17 DEF RuntimeClosed, turns, asked, RefusalStops
<1>18. ASSUME NEW q \in Requests, GiveUp(q) PROVE RefusalStops'
  BY <1>18 DEF GiveUp, Settled, turns, asked, TypeOK, RefusalStops
<1>19. ASSUME NEW q \in Requests, TimerFires(q) PROVE RefusalStops'
  BY <1>19 DEF TimerFires, turns, asked, RefusalStops
<1>20. CASE UNCHANGED vars
  BY <1>20 DEF vars, turns, asked, RefusalStops
<1>21. QED
  BY <1>1, <1>2, <1>3, <1>4, <1>5, <1>6, <1>7, <1>8, <1>9, <1>10, <1>11, <1>12, <1>13, <1>14,
     <1>15, <1>16, <1>17, <1>18, <1>19, <1>20
  DEF Next, Turn, Progress

\* A request that fails flags the task of the turn, or is none of the task of the turn.
LEMMA FailShown ==
  ASSUME TypeOK, OneTurn, WaitingShown, NEW q \in Requests, FailWith(q), StillTurn,
         UNCHANGED <<status, asked, holds, by, gaveUp>>
  PROVE  WaitingShown'
<1>1. CASE task[q] = active
  BY <1>1 DEF FailWith, WaitingShown
<1>2. CASE task[q] # active
  <2>1. /\ phase' = [phase EXCEPT ![q] = "answered"] /\ flag' = flag
        /\ UNCHANGED <<active, stage, status, task, gaveUp>>
    BY <1>2 DEF FailWith, StillTurn, asked
  <2>2. \A t \in Tasks : stage[t] = "bound" => task[q] # t
    BY <1>2 DEF OneTurn
  <2>3. \A t \in Tasks : Waiting(t) /\ task[q] # t => Waiting(t)'
    BY <2>1 DEF Waiting, Waits, TypeOK
  <2>4. QED
    BY <2>1, <2>2, <2>3 DEF WaitingShown
<1>3. QED
  BY <1>1, <1>2

\* The status leaves WAITING_CONFIRMATION with the wait.
LEMMA NextWaitingShown ==
  ASSUME TypeOK, TypeOK', Placed, OneTurn, Unseen, WaitingShown, [Next]_vars
  PROVE  WaitingShown'
<1>1. ASSUME NEW t \in Tasks, Start(t) PROVE WaitingShown'
  <2>1. Event(t, "task.started")
    BY <1>1 DEF Start
  <2>2. QED
    BY <1>1, <2>1, EventStatus, KnownEvents
    DEF Start, NoRequest, asked, Unseen, NoStatus, Waiting, WaitingShown
<1>2. ASSUME NEW t \in Tasks, Beat(t) PROVE WaitingShown'
  <2>1. CASE Waiting(t)
    <3>1. Event(t, "task.waiting")
      BY <1>2, <2>1 DEF Beat
    <3>2. QED
      BY <1>2, <2>1, <3>1, EventStatus, KnownEvents
      DEF Beat, NoRequest, turns, asked, Unseen, NoStatus, Waiting, Waits, WaitingShown
  <2>2. CASE ~Waiting(t)
    <3>1. Event(t, "task.progress")
      BY <1>2, <2>2 DEF Beat
    <3>2. QED
      BY <1>2, <2>2, <3>1, EventStatus, KnownEvents
      DEF Beat, NoRequest, turns, asked, OneTurn, Unseen, NoStatus, Waiting, WaitingShown
  <2>3. QED
    BY <2>1, <2>2
<1>3. ASSUME NEW t \in Tasks, Interrupt(t) PROVE WaitingShown'
  BY <1>3 DEF Interrupt, asked, Unseen, NoStatus, Waiting, WaitingShown
<1>4. ASSUME NEW t \in Tasks, Leave(t) PROVE WaitingShown'
  BY <1>4 DEF Leave, NoRequest, asked, TypeOK, OneTurn, Unseen, NoStatus, Waiting, WaitingShown
<1>5. ASSUME NEW t \in Tasks, Unbind(t) PROVE WaitingShown'
  BY <1>5 DEF Unbind, asked, Cancelled, Unseen, NoStatus, Waiting, Waits, WaitingShown
<1>6. ASSUME NEW t \in Tasks, Finish(t) PROVE WaitingShown'
  <2>1. Event(t, "task.completed")
    BY <1>6 DEF Finish
  <2>2. QED
    BY <1>6, <2>1, EventStatus, KnownEvents
    DEF Finish, NoRequest, asked, Unseen, NoStatus, Waiting, Waits, WaitingShown
<1>7. ASSUME EndChat PROVE WaitingShown'
  BY <1>7 DEF EndChat, NoRequest, asked, Unseen, NoStatus, Waiting, WaitingShown
<1>8. ASSUME Restart PROVE WaitingShown'
  BY <1>8 DEF Restart, Unseen, NoStatus, Waiting, WaitingShown
<1>9. ASSUME NEW q \in Requests, NEW t \in Tasks, Ask(q, t) PROVE WaitingShown'
  BY <1>9 DEF Ask, turns, OneTurn, Unseen, NoStatus, Waiting, Waits, WaitingShown
<1>10. ASSUME NEW q \in Requests, NEW u \in Users, NEW verdict \in {"approved", "refused"},
            Decide(q, u, verdict)
     PROVE  WaitingShown'
  BY <1>10 DEF Decide, turns, asked, Unseen, NoStatus, Waiting, Waits, WaitingShown
<1>11. ASSUME NEW q \in Requests, Open(q) PROVE WaitingShown'
  <2>1. task[q] \in Tasks /\ Event(task[q], "task.waiting")
    BY <1>11 DEF Open, Placed, TypeOK
  <2>2. phase'[q] = "notifying" /\ \A r \in Requests : r # q => phase'[r] = phase[r]
    BY <1>11 DEF Open, TypeOK
  <2>3. UNCHANGED <<flag, stage, task, gaveUp>>
    BY <1>11 DEF Open, turns, asked
  <2>4. \A t \in Tasks : Waiting(t) => Waiting(t)'
    BY <2>2, <2>3 DEF Waiting, Waits
  <2>5. Waiting(task[q])'
    BY <2>2, <2>3 DEF Waiting, Waits
  <2>6. \A t \in Tasks : t # task[q] => status'[t] = status[t]
    BY <2>1, EventStatus, KnownEvents
  <2>7. QED
    BY <2>3, <2>4, <2>5, <2>6 DEF WaitingShown
<1>12. ASSUME NEW q \in Requests, NotOpened(q) PROVE WaitingShown'
  <2>1. UNCHANGED <<active, stage, status, task, gaveUp>> /\ ~Waits(q)
    BY <1>12 DEF NotOpened, StillTurn, asked, Waits
  <2>2. flag => flag'
    BY <1>12 DEF NotOpened, FailWith
  <2>3. \A r \in Requests : r # q => phase'[r] = phase[r]
    BY <1>12 DEF NotOpened, FailWith, TypeOK
  <2>4. \A t \in Tasks : Waiting(t) => Waiting(t)'
    BY <2>1, <2>3 DEF Waiting, Waits
  <2>5. QED
    BY <2>1, <2>2, <2>4 DEF WaitingShown
<1>13. ASSUME NEW q \in Requests, Notified(q) PROVE WaitingShown'
  BY <1>13 DEF Notified, turns, asked, Unseen, NoStatus, Waiting, Waits, WaitingShown
<1>14. ASSUME NEW q \in Requests, NotifyFails(q) PROVE WaitingShown'
  BY <1>14, FailShown DEF NotifyFails
<1>15. ASSUME NEW q \in Requests, Approved(q) PROVE WaitingShown'
  <2>1. task[q] \in Tasks /\ Event(task[q], "task.resumed")
    BY <1>15 DEF Approved, Placed, TypeOK
  <2>2. QED
    BY <1>15, <2>1, EventStatus, KnownEvents
    DEF Approved, turns, asked, Settled, Unseen, NoStatus, Waiting, Waits, WaitingShown
<1>16. ASSUME NEW q \in Requests, Refused(q) PROVE WaitingShown'
  BY <1>16, FailShown DEF Refused
<1>17. ASSUME NEW q \in Requests, RuntimeClosed(q) PROVE WaitingShown'
  BY <1>17 DEF RuntimeClosed, turns, asked, Unseen, NoStatus, Waiting, Waits, WaitingShown
<1>18. ASSUME NEW q \in Requests, GiveUp(q) PROVE WaitingShown'
  BY <1>18 DEF GiveUp, Settled, turns, asked, TypeOK, Unseen, NoStatus, Waiting, Waits, WaitingShown
<1>19. ASSUME NEW q \in Requests, TimerFires(q) PROVE WaitingShown'
  BY <1>19 DEF TimerFires, turns, asked, Unseen, NoStatus, Waiting, Waits, WaitingShown
<1>20. CASE UNCHANGED vars
  BY <1>20 DEF vars, turns, asked, Unseen, NoStatus, Waiting, Waits, WaitingShown
<1>21. QED
  BY <1>1, <1>2, <1>3, <1>4, <1>5, <1>6, <1>7, <1>8, <1>9, <1>10, <1>11, <1>12, <1>13, <1>14,
     <1>15, <1>16, <1>17, <1>18, <1>19, <1>20
  DEF Next, Turn, Progress

(***************************************************************************)
(* The properties.                                                         *)
(***************************************************************************)
\* The inductive invariant holds initially ...
LEMMA InitInv == Init => ConfirmationInv
<1>1. SUFFICES ASSUME Init PROVE ConfirmationInv
  OBVIOUS
<1>2. Placed /\ Fresh /\ OneTurn /\ Unseen
  BY <1>1 DEF Init, Placed, Fresh, OneTurn, Unseen
<1>3. Genuine /\ RefusalStops
  BY <1>1 DEF Init, Genuine, RefusalStops
<1>4. WaitingShown
  BY <1>1 DEF Init, WaitingShown, NoStatus
<1>5. QED
  BY <1>2, <1>3, <1>4 DEF ConfirmationInv

\* ... and every step keeps it.
LEMMA NextInv ==
  ASSUME TypeOK, ConfirmationInv, [Next]_vars
  PROVE  TypeOK' /\ ConfirmationInv'
<1>1. TypeOK'
  BY NextType DEF ConfirmationInv
<1>2. Placed' /\ Fresh' /\ Genuine' /\ OneTurn' /\ Unseen' /\ RefusalStops' /\ WaitingShown'
  BY <1>1, NextPlaced, NextFresh, NextGenuine, NextOneTurn, NextUnseen, NextRefusalStops,
     NextWaitingShown
  DEF ConfirmationInv
<1>3. QED
  BY <1>1, <1>2 DEF ConfirmationInv

\* Type correctness, with the inductive invariant.
THEOREM ConfirmationCorrect == Spec => [](TypeOK /\ ConfirmationInv)
<1>1. Init => TypeOK /\ ConfirmationInv
  BY InitType, InitInv
<1>2. TypeOK /\ ConfirmationInv /\ [Next]_vars => (TypeOK /\ ConfirmationInv)'
  BY NextInv
<1>3. QED
  BY <1>1, <1>2, PTL DEF Spec

\* An approval that request() returns comes from the sender of the task, in the epoch of its
\* turn, and stands in the table, in whatever order decide(), the timer, cancel_task and a
\* failed notice come.
THEOREM ApprovalIsGenuine == Spec => []ApprovalGenuine
<1>1. TypeOK /\ ConfirmationInv => ApprovalGenuine
  BY DEF ConfirmationInv, Genuine, ApprovalGenuine
<1>2. QED
  BY <1>1, ConfirmationCorrect, PTL

\* No refusal or failure goes back to a run that still has the runtime it asked with, but for
\* a thread that gave up.
THEOREM RefusalTakesRuntime == Spec => []RefusalStops
<1>1. TypeOK /\ ConfirmationInv => RefusalStops
  BY DEF ConfirmationInv
<1>2. QED
  BY <1>1, ConfirmationCorrect, PTL

\* The status WAITING_CONFIRMATION does not outlive the wait, but for a task that is stopped,
\* has left, or whose thread gave up.
THEOREM WaitingIsShown == Spec => []WaitingShown
<1>1. TypeOK /\ ConfirmationInv => WaitingShown
  BY DEF ConfirmationInv
<1>2. QED
  BY <1>1, ConfirmationCorrect, PTL
=============================================================================
