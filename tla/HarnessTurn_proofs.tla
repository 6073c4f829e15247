-------------------------- MODULE HarnessTurn_proofs --------------------------
(***************************************************************************)
(* Proofs about HarnessTurn.tla, for any set of tasks and of sessions.     *)
(***************************************************************************)
EXTENDS HarnessTurn, TLAPS

(***************************************************************************)
(* Types.  The effects that several actions share come first.              *)
(***************************************************************************)
LEMMA SettleType ==
  ASSUME WorkTypes, NEW t \in Tasks, NEW o \in Outcome, Settle(t, o),
         UNCHANGED <<stopping, reason, awaits>>
  PROVE  WorkTypes'
BY DEF WorkTypes, Settle, WorkState

LEMMA EndReplyType ==
  ASSUME TurnTypes, NEW t \in Tasks, NEW r \in Result, EndReply(t, r)
  PROVE  reply' \in [Tasks -> ReplyState] /\ result' \in [Tasks -> Result]
BY DEF TurnTypes, EndReply, ReplyState

LEMMA RotateType ==
  ASSUME RegTypes, NEW s \in Sessions, Rotate(s)
  PROVE  RegTypes'
BY DEF RegTypes, Rotate

LEMMA FinishLeaseType ==
  ASSUME RegTypes, NEW t \in Tasks, FinishLease(t)
  PROVE  RegTypes'
BY TaskAssumption DEF RegTypes, FinishLease

LEMMA StartCloserType ==
  ASSUME RuntimeTypes, NEW c \in Closers, StartCloser(c),
         UNCHANGED <<nonce, harness, dead, policySession, victim>>
  PROVE  RuntimeTypes'
BY DEF RuntimeTypes, StartCloser

LEMMA FlagType ==
  ASSUME FlagTypes, NEW s \in Sessions, Flag(s)
  PROVE  interrupts' \subseteq Sessions
BY DEF FlagTypes, Flag

LEMMA CancelReplyType ==
  ASSUME TypeOK, NEW t \in Tasks, CancelReply(t), UNCHANGED lease,
         UNCHANGED <<nonce, harness, dead, victim, jobNonce, jobHarness>>
  PROVE  TurnTypes' /\ RuntimeTypes' /\ JobTypes' /\ interrupts' \subseteq Sessions
<1>1. SessionOf[t] \in Sessions
  BY TaskAssumption
<1>2. reply' \in [Tasks -> ReplyState] /\ result' \in [Tasks -> Result]
  <2>1. "cancelled" \in Result /\ TurnTypes
    BY DEF Result, TypeOK
  <2>2. CASE EndReply(t, "cancelled")
    BY <2>1, <2>2, EndReplyType
  <2>3. CASE UNCHANGED result /\ \E st \in ReplyState : reply' = [reply EXCEPT ![t] = st]
    BY <2>1, <2>3 DEF TurnTypes
  <2>4. CASE UNCHANGED <<reply, result>>
    BY <2>1, <2>4 DEF TurnTypes
  <2>5. QED
    BY <2>2, <2>3, <2>4 DEF CancelReply, ReplyState
<1>3. TurnTypes'
  BY <1>2 DEF CancelReply, LeaveOperation, TypeOK, TurnTypes
<1>4. RuntimeTypes'
  BY DEF CancelReply, StartCloser, LeaveOperation, TypeOK, RuntimeTypes
<1>5. JobTypes' /\ interrupts' \subseteq Sessions
  BY <1>1 DEF CancelReply, TypeOK, JobTypes, FlagTypes, JobState
<1>6. QED
  BY <1>3, <1>4, <1>5

LEMMA CancelledLeaseType ==
  ASSUME RegTypes, NEW t \in Tasks, CancelledLease(t)
  PROVE  RegTypes'
BY FinishLeaseType DEF CancelledLease, RegTypes, regVars

LEMMA BeginAbortType ==
  ASSUME TypeOK, NEW t \in Tasks, NEW why \in Reason, BeginAbort(t, why),
         UNCHANGED <<lease, nonce, harness, dead, victim, jobNonce, jobHarness>>,
         stopping' \subseteq Tasks
  PROVE  /\ WorkTypes' /\ TurnTypes' /\ RegTypes' /\ RuntimeTypes' /\ JobTypes'
         /\ FlagTypes'
<1>1. SessionOf[t] \in Sessions
  BY TaskAssumption
<1>2. WorkTypes'
  BY DEF BeginAbort, TypeOK, WorkTypes, WorkState
<1> DEFINE s == SessionOf[t]
           R == {q \in Tasks : SessionOf[q] = s /\ reply[q] \in Recovering}
<1>3. ASSUME NEW q \in R, Flag(s),
             reply' = [reply EXCEPT ![q] = IF s \in interrupts THEN @
                                           ELSE "recoveryCancelled"],
             hit' = IF s \in interrupts THEN hit ELSE hit \cup {q},
             UNCHANGED <<result, activeTask, policySession, closer, job, regVars>>
      PROVE  TurnTypes' /\ RegTypes' /\ RuntimeTypes' /\ JobTypes' /\ FlagTypes'
  <2>1. TurnTypes'
    BY <1>3 DEF TypeOK, TurnTypes, ReplyState
  <2>2. RegTypes' /\ RuntimeTypes' /\ JobTypes'
    BY <1>3 DEF TypeOK, RegTypes, RuntimeTypes, JobTypes, regVars
  <2>3. FlagTypes'
    BY <1>1, <1>3 DEF TypeOK, FlagTypes, Flag
  <2>4. QED
    BY <2>1, <2>2, <2>3
<1>4. ASSUME ActiveIn(s), Flag(s), hit' = hit \cup {activeTask},
             StartCloser(<<"abort", t>>),
             UNCHANGED <<reply, result, activeTask, policySession, job, regVars>>
      PROVE  TurnTypes' /\ RegTypes' /\ RuntimeTypes' /\ JobTypes' /\ FlagTypes'
  <2>1. TurnTypes' /\ RegTypes' /\ JobTypes'
    BY <1>4 DEF TypeOK, TurnTypes, RegTypes, JobTypes, regVars
  <2>2. RuntimeTypes'
    BY <1>4, StartCloserType DEF TypeOK, Closers
  <2>3. FlagTypes'
    BY <1>1, <1>4 DEF TypeOK, TurnTypes, FlagTypes, Flag, ActiveIn
  <2>4. QED
    BY <2>1, <2>2, <2>3
<1>5. ASSUME CancelReply(t), CancelledLease(t), UNCHANGED hit
      PROVE  TurnTypes' /\ RegTypes' /\ RuntimeTypes' /\ JobTypes' /\ FlagTypes'
  BY <1>5, CancelReplyType, CancelledLeaseType DEF TypeOK, FlagTypes
<1>6. QED
  BY <1>2, <1>3, <1>4, <1>5 DEF BeginAbort

LEMMA InitType == Init => TypeOK
<1> SUFFICES ASSUME Init PROVE TypeOK
  OBVIOUS
<1>1. WorkTypes
  BY DEF Init, WorkTypes, WorkState, Outcome, Reason
<1>2. TurnTypes /\ RegTypes
  BY DEF Init, TurnTypes, RegTypes, ReplyState, Result
<1>3. RuntimeTypes /\ JobTypes
  BY DEF Init, RuntimeTypes, JobTypes, JobState
<1>4. CallTypes /\ FlagTypes
  BY DEF Init, CallTypes, FlagTypes, NoCall
<1>5. QED
  BY <1>1, <1>2, <1>3, <1>4 DEF TypeOK

(***************************************************************************)
(* Every step keeps the types: one lemma for each actor, one step for each *)
(* of its actions.                                                         *)
(***************************************************************************)

LEMMA WorkStepType ==
  ASSUME TypeOK, NEW t \in Tasks, WorkStep(t)
  PROVE  TypeOK'
<1> USE DEF workVars, turnVars, regVars, rtVars, jobVars, callVars, flagVars
<1>1. CASE Submit(t)
  BY <1>1 DEF Submit, TypeOK, WorkTypes, TurnTypes, RegTypes, RuntimeTypes, JobTypes,
         CallTypes, FlagTypes, WorkState
<1>2. CASE Start(t)
  BY <1>2 DEF Start, Settle, TypeOK, WorkTypes, TurnTypes, RegTypes, RuntimeTypes,
         JobTypes, CallTypes, FlagTypes,
         WorkState, Outcome, ReplyState
<1>3. ASSUME NEW why \in GiveUps, GiveUp(t, why) PROVE TypeOK'
  <2>1. why \in Reason /\ stopping' \subseteq Tasks
    BY <1>3, TaskAssumption DEF GiveUp, Reason, TypeOK, WorkTypes
  <2>2. QED
    BY <1>3, <2>1, BeginAbortType DEF GiveUp, TypeOK, CallTypes
<1>4. CASE Stop(t)
  <2>1. stopping' \subseteq Tasks /\ CallTypes'
    BY <1>4 DEF Stop, TypeOK, WorkTypes, CallTypes
  <2>2. ASSUME BeginAbort(t, "cancel") PROVE TypeOK'
    BY <1>4, <2>1, <2>2, BeginAbortType DEF Stop, TypeOK, Reason
  <2>3. ASSUME Settle(t, "cancelled"),
               UNCHANGED <<reason, awaits, reply, result, activeTask, policySession,
                           closer, job, regVars, flagVars>>
        PROVE  TypeOK'
    BY <1>4, <2>1, <2>3 DEF Stop, Settle, TypeOK, WorkTypes, TurnTypes, RegTypes,
           RuntimeTypes, JobTypes, FlagTypes, WorkState, Outcome
  <2>4. ASSUME reason' = [reason EXCEPT ![t] = "cancel"], CancelReply(t),
               CancelledLease(t), UNCHANGED <<work, outcome, awaits, hit>>
        PROVE  TypeOK'
    <3>1. WorkTypes'
      BY <1>4, <2>1, <2>4 DEF TypeOK, WorkTypes, Reason
    <3>2. RegTypes'
      BY <2>4, CancelledLeaseType DEF TypeOK
    <3>3. QED
      BY <1>4, <2>1, <2>4, <3>1, <3>2, CancelReplyType DEF Stop, TypeOK, FlagTypes
  <2>5. QED
    BY <1>4, <2>2, <2>3, <2>4 DEF Stop
<1>5. CASE AbortReturn(t)
  <2>1. SessionOf[t] \in Sessions
    BY TaskAssumption
  <2>2. WorkTypes' /\ CallTypes'
    BY <1>5 DEF AbortReturn, TypeOK, WorkTypes, CallTypes, WorkState
  <2>3. RegTypes'
    BY <1>5, <2>1, RotateType DEF AbortReturn, TypeOK
  <2>4. QED
    BY <1>5, <2>2, <2>3, CancelReplyType DEF AbortReturn, TypeOK, FlagTypes
<1>6. CASE Gathered(t)
  BY <1>6 DEF Gathered, Settle, TypeOK, WorkTypes, TurnTypes, RegTypes, RuntimeTypes,
         JobTypes, CallTypes, FlagTypes, WorkState, Outcome
<1>7. CASE ReplyDone(t)
  BY <1>7 DEF ReplyDone, Settle, TypeOK, WorkTypes, TurnTypes, RegTypes, RuntimeTypes,
         JobTypes, CallTypes, FlagTypes, WorkState, Outcome
<1>8. CASE Deliver(t)
  BY <1>8 DEF Deliver, Settle, TypeOK, WorkTypes, TurnTypes, RegTypes, RuntimeTypes,
         JobTypes, CallTypes, FlagTypes, WorkState, Outcome
<1>9. QED
  BY <1>1, <1>2, <1>3, <1>4, <1>5, <1>6, <1>7, <1>8 DEF WorkStep

LEMMA ReplyStepType ==
  ASSUME TypeOK, NEW t \in Tasks, ReplyStep(t)
  PROVE  TypeOK'
<1> USE DEF workVars, turnVars, regVars, rtVars, jobVars, callVars, flagVars
<1>1. CASE TurnStart(t)
  BY <1>1 DEF TurnStart, TypeOK, WorkTypes, TurnTypes, RegTypes, RuntimeTypes, JobTypes,
         CallTypes, FlagTypes, ReplyState
<1>2. CASE BeginTurn(t)
  <2>1. SessionOf[t] \in Sessions
    BY TaskAssumption
  <2>2. /\ gen[SessionOf[t]] \in Nat \ {0}
        /\ gen[SessionOf[t]] + 1 \in Nat \ {0}
    BY <2>1 DEF TypeOK, RegTypes
  <2>3. TurnTypes'
    BY <1>2, <2>2 DEF BeginTurn, TypeOK, TurnTypes, ReplyState
  <2>4. RegTypes'
    BY <1>2, <2>2 DEF BeginTurn, TypeOK, RegTypes
  <2>5. JobTypes'
    BY <1>2 DEF BeginTurn, TypeOK, JobTypes, JobState
  <2>6. WorkTypes' /\ RuntimeTypes' /\ CallTypes' /\ FlagTypes'
    BY <1>2 DEF BeginTurn, TypeOK, WorkTypes, RuntimeTypes, CallTypes, FlagTypes
  <2>7. QED
    BY <2>3, <2>4, <2>5, <2>6 DEF TypeOK
<1>3. CASE RecoveryFails(t)
  BY <1>3 DEF RecoveryFails, EndReply, TypeOK, WorkTypes, TurnTypes, RegTypes,
         RuntimeTypes, JobTypes, CallTypes, FlagTypes,
         ReplyState, Result
<1>4. CASE RecoveryStopped(t)
  BY <1>4 DEF RecoveryStopped, EndReply, TypeOK, WorkTypes, TurnTypes, RegTypes,
         RuntimeTypes, JobTypes, CallTypes, FlagTypes,
         ReplyState, Result
<1>5. CASE Resume(t)
  <2>1. TurnTypes'
    BY <1>5 DEF Resume, EndReply, LeaveOperation, TypeOK, TurnTypes, ReplyState, Result
  <2>2. RegTypes'
    BY <1>5, FinishLeaseType DEF Resume, TypeOK, RegTypes
  <2>3. RuntimeTypes'
    BY <1>5 DEF Resume, LeaveOperation, StartCloser, TypeOK, RuntimeTypes
  <2>4. WorkTypes' /\ JobTypes' /\ CallTypes' /\ FlagTypes'
    BY <1>5 DEF Resume, TypeOK, WorkTypes, JobTypes, CallTypes, FlagTypes
  <2>5. QED
    BY <2>1, <2>2, <2>3, <2>4 DEF TypeOK
<1>6. CASE TurnClosed(t)
  <2>1. TurnTypes'
    BY <1>6 DEF TurnClosed, EndReply, LeaveOperation, TypeOK, TurnTypes, ReplyState, Result
  <2>2. RegTypes'
    BY <1>6, TaskAssumption, FinishLeaseType, RotateType DEF TurnClosed, TypeOK
  <2>3. RuntimeTypes'
    BY <1>6 DEF TurnClosed, LeaveOperation, TypeOK, RuntimeTypes
  <2>4. WorkTypes' /\ JobTypes' /\ CallTypes' /\ FlagTypes'
    BY <1>6 DEF TurnClosed, TypeOK, WorkTypes, JobTypes, CallTypes, FlagTypes
  <2>5. QED
    BY <2>1, <2>2, <2>3, <2>4 DEF TypeOK
<1>7. QED
  BY <1>1, <1>2, <1>3, <1>4, <1>5, <1>6 DEF ReplyStep

LEMMA JobStepType ==
  ASSUME TypeOK, NEW t \in Tasks, JobStep(t)
  PROVE  TypeOK'
<1> USE DEF workVars, turnVars, regVars, rtVars, jobVars, callVars, flagVars
<1>1. CASE PickJob(t)
  BY <1>1 DEF PickJob, TypeOK, WorkTypes, TurnTypes, RegTypes, RuntimeTypes, JobTypes,
         CallTypes, FlagTypes, JobState
<1>2. CASE BindJob(t)
  BY <1>2, TaskAssumption DEF BindJob, Sid, TypeOK, WorkTypes, TurnTypes, RegTypes,
         RuntimeTypes, JobTypes, CallTypes, FlagTypes, JobState
<1>3. CASE RunEnds(t)
  BY <1>3 DEF RunEnds, TypeOK, WorkTypes, TurnTypes, RegTypes, RuntimeTypes, JobTypes,
         CallTypes, FlagTypes, JobState
<1>4. CASE BindFails(t)
  BY <1>4 DEF BindFails, TypeOK, WorkTypes, TurnTypes, RegTypes, RuntimeTypes, JobTypes,
         CallTypes, FlagTypes, JobState
<1>5. QED
  BY <1>1, <1>2, <1>3, <1>4 DEF JobStep

LEMMA CloserStepType ==
  ASSUME TypeOK, NEW c \in Closers, CloserStep(c)
  PROVE  TypeOK'
<1> USE DEF workVars, turnVars, regVars, rtVars, jobVars, callVars, flagVars
<1>1. CASE CloserSwap(c)
  <2>1. RuntimeTypes'
    <3>1. /\ \E st \in {"closing", "done"} : closer' = [closer EXCEPT ![c] = st]
          /\ \E v \in Nat : victim' = [victim EXCEPT ![c] = v]
      BY <1>1 DEF CloserSwap, TypeOK, RuntimeTypes
    <3>2. /\ closer' \in [Closers -> {"idle", "queued", "closing", "done"}]
          /\ victim' \in [Closers -> Nat]
      BY <3>1 DEF TypeOK, RuntimeTypes
    <3>3. /\ nonce' \in Nat /\ dead' \subseteq Nat
          /\ policySession' = NoSid
      BY <1>1 DEF CloserSwap, TypeOK, RuntimeTypes
    <3>4. harness' \in BOOLEAN
      BY <1>1, Zenon DEF CloserSwap
    <3>5. QED
      BY <3>2, <3>3, <3>4 DEF RuntimeTypes
  <2>2. WorkTypes' /\ TurnTypes' /\ RegTypes' /\ JobTypes' /\ CallTypes' /\ FlagTypes'
    BY <1>1 DEF CloserSwap, TypeOK, WorkTypes, TurnTypes, RegTypes, JobTypes, CallTypes,
           FlagTypes
  <2>3. QED
    BY <2>1, <2>2 DEF TypeOK
<1>2. CASE CloserDone(c)
  BY <1>2 DEF CloserDone, TypeOK, WorkTypes, TurnTypes, RegTypes, RuntimeTypes, JobTypes,
         CallTypes, FlagTypes
<1>3. QED
  BY <1>1, <1>2 DEF CloserStep

LEMMA CallStepType ==
  ASSUME TypeOK, CallStep
  PROVE  TypeOK'
<1> USE DEF workVars, turnVars, regVars, rtVars, jobVars, callVars, flagVars
<1>1. ASSUME NEW t \in Tasks, DispatchBegin(t) PROVE TypeOK'
  BY <1>1 DEF DispatchBegin, TypeOK, WorkTypes, TurnTypes, RegTypes, RuntimeTypes,
         JobTypes, CallTypes, FlagTypes
<1>2. CASE DispatchApprove
  <2>1. CallTypes'
    BY <1>2 DEF DispatchApprove, NoCall, TypeOK, CallTypes
  <2>2. QED
    BY <1>2, <2>1 DEF DispatchApprove, TypeOK, WorkTypes, TurnTypes, RegTypes,
           RuntimeTypes, JobTypes, CallTypes, FlagTypes
<1>3. CASE DispatchDrop
  BY <1>3 DEF DispatchDrop, NoCall, TypeOK, WorkTypes, TurnTypes, RegTypes, RuntimeTypes,
         JobTypes, CallTypes, FlagTypes
<1>4. CASE DispatchRefuse
  <2>1. call.task \in Tasks /\ call.from \in Tasks
    BY <1>4 DEF DispatchRefuse, NoCall, TypeOK, CallTypes
  <2>2. SessionOf[call.task] \in Sessions /\ <<"confirm", call.from>> \in Closers
    BY <2>1, TaskAssumption DEF Closers
  <2>3. CallTypes'
    BY <1>4 DEF DispatchRefuse, NoCall, TypeOK, CallTypes
  <2>4. RegTypes'
    BY <1>4, <2>2, RotateType DEF DispatchRefuse, TypeOK
  <2>5. RuntimeTypes'
    BY <1>4, <2>2, StartCloserType DEF DispatchRefuse, TypeOK
  <2>6. FlagTypes'
    BY <1>4, <2>1, <2>2, FlagType DEF DispatchRefuse, TypeOK, FlagTypes
  <2>7. QED
    BY <1>4, <2>3, <2>4, <2>5, <2>6 DEF DispatchRefuse, TypeOK, WorkTypes, TurnTypes,
           JobTypes
<1>5. CASE DispatchStopped
  BY <1>5 DEF DispatchStopped, NoCall, TypeOK, WorkTypes, TurnTypes, RegTypes,
         RuntimeTypes, JobTypes, CallTypes, FlagTypes
<1>6. CASE DispatchGivesUp \/ DispatchRaises
  <2>1. CallTypes'
    BY <1>6 DEF DispatchGivesUp, DispatchRaises, NoCall, TypeOK, CallTypes
  <2>2. QED
    BY <1>6, <2>1 DEF DispatchGivesUp, DispatchRaises, TypeOK, WorkTypes, TurnTypes, RegTypes,
           RuntimeTypes, JobTypes, CallTypes, FlagTypes
<1>7. QED
  BY <1>1, <1>2, <1>3, <1>4, <1>5, <1>6 DEF CallStep

(* The types of all variables hold in every reachable state. *)
THEOREM TypeCorrect == Spec => []TypeOK
<1>1. Init => TypeOK
  BY InitType
<1>2. TypeOK /\ [Next]_vars => TypeOK'
  <2> SUFFICES ASSUME TypeOK, [Next]_vars PROVE TypeOK'
    OBVIOUS
  <2>1. ASSUME NEW t \in Tasks, WorkStep(t) \/ ReplyStep(t) \/ JobStep(t) PROVE TypeOK'
    BY <2>1, WorkStepType, ReplyStepType, JobStepType
  <2>2. ASSUME NEW c \in Closers, CloserStep(c) PROVE TypeOK'
    BY <2>2, CloserStepType
  <2>3. CASE CallStep
    BY <2>3, CallStepType
  <2>4. CASE UNCHANGED vars
    BY <2>4 DEF vars, workVars, turnVars, regVars, rtVars, jobVars, callVars, flagVars,
           TypeOK,
           WorkTypes, TurnTypes, RegTypes, RuntimeTypes, JobTypes, CallTypes, FlagTypes
  <2>5. QED
    BY <2>1, <2>2, <2>3, <2>4 DEF Next, Quiescent
<1>3. QED
  BY <1>1, <1>2, PTL DEF Spec

(***************************************************************************)
(* The turn invariant.  Again the shared effects come first: what they do  *)
(* to the coroutines, and what they do to the registry file.               *)
(***************************************************************************)
TurnCore == /\ ResultAtEnd /\ OneTurn /\ ActiveOperates /\ StopMarked
            /\ StoppedTurnNeverSucceeds /\ RegistryMarksLiveTurn

LEMMA CancelReplyTurn ==
  ASSUME TypeOK, TurnCore, NEW t \in Tasks, CancelReply(t), UNCHANGED hit
  PROVE  /\ OneTurn' /\ ActiveOperates' /\ StopMarked' /\ ResultAtEnd'
         /\ StoppedTurnNeverSucceeds'
         /\ \/ activeTask' = activeTask /\ reply[t] \notin InOperation \ {"executing"}
            \/ /\ activeTask = t /\ activeTask' = NoTask
               /\ reply[t] \in InOperation \ {"executing"}
<1> USE DEF InTurn, InOperation
<1>1. \A u \in Tasks \ {t} : reply'[u] = reply[u] /\ result'[u] = result[u]
  BY DEF CancelReply, EndReply, TypeOK, TurnTypes
<1>2. /\ reply'[t] \in InTurn => reply[t] \in InTurn
      /\ reply'[t] \notin {"none", "turnwait", "recovering", "executing"}
      /\ result'[t] \in {result[t], "cancelled"}
  BY DEF CancelReply, EndReply, TypeOK, TurnTypes
<1>3. \/ /\ activeTask' = activeTask /\ reply[t] \notin InOperation \ {"executing"}
         /\ reply'[t] \in InOperation <=> reply[t] \in InOperation
      \/ /\ activeTask' = NoTask /\ reply[t] \in InOperation \ {"executing"}
         /\ reply'[t] = "done"
  BY DEF CancelReply, EndReply, LeaveOperation, TypeOK, TurnTypes
<1>4. reply[t] \in InOperation => activeTask = t
  BY DEF TurnCore, ActiveOperates
<1>5. OneTurn'
  BY <1>1, <1>2 DEF TurnCore, OneTurn
<1>6. ActiveOperates'
  <2>1. CASE activeTask' = activeTask
    BY <1>1, <1>3, <2>1, TaskAssumption DEF TurnCore, ActiveOperates
  <2>2. CASE activeTask' = NoTask /\ reply[t] \in InOperation /\ reply'[t] = "done"
    BY <1>1, <1>4, <2>2, TaskAssumption DEF TurnCore, ActiveOperates
  <2>3. QED
    BY <1>3, <2>1, <2>2
<1>7. \A u \in Tasks \ {t} : reply[u] = "executing" => interrupts' = interrupts
  BY DEF TurnCore, OneTurn, CancelReply
<1>8. StopMarked'
  BY <1>1, <1>2, <1>7 DEF TurnCore, StopMarked, TypeOK, FlagTypes
<1>9. StoppedTurnNeverSucceeds'
  BY <1>1, <1>2 DEF TurnCore, StoppedTurnNeverSucceeds, TypeOK, FlagTypes
<1>10. ResultAtEnd'
  <2>1. reply'[t] # "done" => reply[t] # "done" /\ result'[t] = result[t]
    BY DEF CancelReply, EndReply, TypeOK, TurnTypes
  <2>2. QED
    BY <1>1, <2>1 DEF TurnCore, ResultAtEnd
<1>11. QED
  BY <1>3, <1>4, <1>5, <1>6, <1>8, <1>9, <1>10

LEMMA RotateRegistry ==
  ASSUME TypeOK, RegistryMarksLiveTurn, NEW s \in Sessions, Rotate(s), UNCHANGED lease,
         \/ UNCHANGED activeTask
         \/ activeTask \in Tasks /\ SessionOf[activeTask] = s /\ activeTask' = NoTask
  PROVE  RegistryMarksLiveTurn'
BY DEF RegistryMarksLiveTurn, Rotate, ActiveIn, TypeOK, RegTypes

LEMMA FinishRegistry ==
  ASSUME TypeOK, RegistryMarksLiveTurn, NEW t \in Tasks, activeTask = t, FinishLease(t),
         UNCHANGED lease, activeTask' = NoTask
  PROVE  RegistryMarksLiveTurn'
<1>1. SessionOf[t] \in Sessions /\ t # NoTask
  BY TaskAssumption
<1>2. regState'[SessionOf[t]] # "running"
  BY <1>1 DEF RegistryMarksLiveTurn, FinishLease, ActiveIn, TypeOK, RegTypes
<1>3. \A s \in Sessions \ {SessionOf[t]} : regState'[s] # "running"
  BY <1>1 DEF RegistryMarksLiveTurn, FinishLease, ActiveIn, TypeOK, RegTypes
<1>4. QED
  BY <1>2, <1>3 DEF RegistryMarksLiveTurn

LEMMA CancelledLeaseRegistry ==
  ASSUME TypeOK, TurnCore, NEW t \in Tasks, CancelReply(t), CancelledLease(t),
         UNCHANGED <<lease, hit>>
  PROVE  RegistryMarksLiveTurn'
<1>1. CASE reply[t] \in InOperation \ {"executing"}
  BY <1>1, CancelReplyTurn, FinishRegistry DEF CancelledLease, TurnCore
<1>2. CASE reply[t] \notin InOperation \ {"executing"}
  BY <1>2, CancelReplyTurn DEF CancelledLease, TurnCore, RegistryMarksLiveTurn, ActiveIn,
         regVars
<1>3. QED
  BY <1>1, <1>2

(* Steps that leave the coroutines, the flags and the registry file alone. *)
LEMMA TurnFrame ==
  ASSUME TurnCore, UNCHANGED <<turnVars, regVars, flagVars>>
  PROVE  TurnCore'
BY DEF TurnCore, OneTurn, ActiveOperates, StopMarked, ResultAtEnd, StoppedTurnNeverSucceeds,
       RegistryMarksLiveTurn, ActiveIn, turnVars, regVars, flagVars

(* A stop reaches the active turn. *)
LEMMA MarkActiveTurn ==
  ASSUME TypeOK, TurnCore, activeTask \in Tasks, hit' = hit \cup {activeTask},
         interrupts' = interrupts \cup {SessionOf[activeTask]},
         UNCHANGED <<reply, result, activeTask>>
  PROVE  OneTurn' /\ ActiveOperates' /\ StopMarked' /\ ResultAtEnd' /\ StoppedTurnNeverSucceeds'
<1>1. reply[activeTask] \in InOperation
  BY DEF TurnCore, ActiveOperates
<1>2. StopMarked'
  BY <1>1 DEF TurnCore, StopMarked, InOperation
<1>3. StoppedTurnNeverSucceeds'
  BY <1>1 DEF TurnCore, StoppedTurnNeverSucceeds, ResultAtEnd, InOperation
<1>4. QED
  BY <1>2, <1>3 DEF TurnCore, OneTurn, ActiveOperates, ResultAtEnd

LEMMA BeginAbortTurn ==
  ASSUME TypeOK, TurnCore, NEW t \in Tasks, NEW why, BeginAbort(t, why), UNCHANGED lease
  PROVE  TurnCore'
<1> DEFINE s == SessionOf[t]
           R == {q \in Tasks : SessionOf[q] = s /\ reply[q] \in Recovering}
<1>1. ASSUME NEW q \in R, Flag(s),
             reply' = [reply EXCEPT ![q] = IF s \in interrupts THEN @
                                           ELSE "recoveryCancelled"],
             hit' = IF s \in interrupts THEN hit ELSE hit \cup {q},
             UNCHANGED <<result, activeTask, regVars>>
      PROVE  TurnCore'
  <2>1. CASE s \in interrupts
    <3>1. reply' = reply /\ interrupts' = interrupts /\ hit' = hit
      BY <1>1, <2>1 DEF Flag, TypeOK, TurnTypes
    <3>2. QED
      BY <1>1, <3>1, TurnFrame DEF turnVars, flagVars
  <2>2. CASE s \notin interrupts
    <3>1. /\ reply' = [reply EXCEPT ![q] = "recoveryCancelled"]
          /\ interrupts' = interrupts \cup {s} /\ hit' = hit \cup {q}
          /\ q \in Tasks /\ reply[q] \in Recovering
      BY <1>1, <2>2 DEF Flag
    <3>2. OneTurn' /\ ActiveOperates'
      BY <1>1, <3>1 DEF TurnCore, OneTurn, ActiveOperates, TypeOK, TurnTypes,
             InTurn, InOperation, Recovering
    <3>3. StopMarked'
      BY <3>1 DEF TurnCore, StopMarked, TypeOK, TurnTypes, FlagTypes
    <3>4. result[q] # "ok" /\ ResultAtEnd'
      BY <1>1, <3>1 DEF TurnCore, ResultAtEnd, TypeOK, TurnTypes, Recovering
    <3>5. StoppedTurnNeverSucceeds' /\ RegistryMarksLiveTurn'
      BY <1>1, <3>1, <3>4 DEF TurnCore, StoppedTurnNeverSucceeds, RegistryMarksLiveTurn,
             ActiveIn, regVars
    <3>6. QED
      BY <3>2, <3>3, <3>4, <3>5 DEF TurnCore
  <2>3. QED
    BY <2>1, <2>2
<1>2. ASSUME ActiveIn(s), Flag(s), hit' = hit \cup {activeTask},
             UNCHANGED <<reply, result, activeTask, regVars>>
      PROVE  TurnCore'
  <2>1. activeTask \in Tasks /\ SessionOf[activeTask] = s
    BY <1>2 DEF ActiveIn, TypeOK, TurnTypes
  <2>2. RegistryMarksLiveTurn'
    BY <1>2 DEF TurnCore, RegistryMarksLiveTurn, ActiveIn, regVars
  <2>3. QED
    BY <1>2, <2>1, <2>2, MarkActiveTurn DEF Flag, TurnCore
<1>3. ASSUME CancelReply(t), CancelledLease(t), UNCHANGED hit
      PROVE  TurnCore'
  BY <1>3, CancelReplyTurn, CancelledLeaseRegistry DEF TurnCore
<1>4. QED
  BY <1>1, <1>2, <1>3 DEF BeginAbort

(* One step per action of each actor. *)
LEMMA WorkStepTurn ==
  ASSUME TypeOK, StartedOnce, TurnCore, NEW t \in Tasks, WorkStep(t)
  PROVE  TurnCore'
<1>1. CASE Submit(t) \/ Gathered(t) \/ ReplyDone(t) \/ Deliver(t)
  BY <1>1, TurnFrame DEF Submit, Gathered, ReplyDone, Deliver
<1>2. CASE Start(t)
  <2>1. CASE UNCHANGED reply
    BY <1>2, <2>1, TurnFrame DEF Start, turnVars
  <2>2. CASE reply' = [reply EXCEPT ![t] = "turnwait"]
    <3>1. reply[t] = "none" /\ UNCHANGED <<result, lease, activeTask, regVars, flagVars>>
      BY <1>2 DEF Start, StartedOnce
    <3>2. OneTurn' /\ ActiveOperates' /\ ResultAtEnd'
      BY <2>2, <3>1 DEF TurnCore, OneTurn, ActiveOperates, ResultAtEnd, InTurn, InOperation,
             TypeOK, TurnTypes
    <3>3. StopMarked' /\ StoppedTurnNeverSucceeds' /\ RegistryMarksLiveTurn'
      BY <2>2, <3>1 DEF TurnCore, StopMarked, StoppedTurnNeverSucceeds,
             RegistryMarksLiveTurn,
             ActiveIn, TypeOK, TurnTypes, regVars, flagVars
    <3>4. QED
      BY <3>2, <3>3 DEF TurnCore
  <2>3. QED
    BY <1>2, <2>1, <2>2 DEF Start
<1>3. ASSUME NEW why \in GiveUps, GiveUp(t, why) PROVE TurnCore'
  BY <1>3, BeginAbortTurn DEF GiveUp
<1>4. CASE Stop(t)
  <2>1. ASSUME BeginAbort(t, "cancel") PROVE TurnCore'
    BY <1>4, <2>1, BeginAbortTurn DEF Stop
  <2>2. ASSUME UNCHANGED <<reply, result, activeTask, regVars, flagVars>> PROVE TurnCore'
    BY <1>4, <2>2, TurnFrame DEF Stop, turnVars
  <2>3. ASSUME CancelReply(t), CancelledLease(t), UNCHANGED hit PROVE TurnCore'
    BY <1>4, <2>3, CancelReplyTurn, CancelledLeaseRegistry DEF Stop, TurnCore
  <2>4. QED
    BY <1>4, <2>1, <2>2, <2>3 DEF Stop
<1>5. CASE AbortReturn(t)
  <2>1. SessionOf[t] \in Sessions
    BY TaskAssumption
  <2>2. RegistryMarksLiveTurn'
    BY <1>5, <2>1, CancelReplyTurn, RotateRegistry DEF AbortReturn, TurnCore
  <2>3. QED
    BY <1>5, <2>2, CancelReplyTurn DEF AbortReturn, TurnCore
<1>6. QED
  BY <1>1, <1>2, <1>3, <1>4, <1>5 DEF WorkStep

(* A reply that leaves an operation, or ends outside one. *)
LEMMA LeaveTurn ==
  ASSUME TypeOK, TurnCore, NEW t \in Tasks, reply[t] \in InTurn, UNCHANGED <<lease, hit>>,
         reply' = [reply EXCEPT ![t] = "done"] \/ reply' = [reply EXCEPT ![t] = "teardown"],
         \A u \in Tasks \ {t} : result'[u] = result[u],
         result'[t] = "ok" => reply[t] = "executing" /\ SessionOf[t] \notin interrupts,
         result'[t] # "none" => reply'[t] = "done",
         interrupts' = interrupts \/ interrupts' = interrupts \ {SessionOf[t]},
         activeTask' = IF reply[t] \in InOperation THEN NoTask ELSE activeTask
  PROVE  OneTurn' /\ ActiveOperates' /\ StopMarked' /\ ResultAtEnd' /\ StoppedTurnNeverSucceeds'
<1>1. /\ \A u \in Tasks \ {t} : reply'[u] = reply[u]
      /\ reply'[t] \in {"done", "teardown"}
  BY DEF TypeOK, TurnTypes
<1>2. OneTurn'
  BY <1>1 DEF TurnCore, OneTurn
<1>3. ActiveOperates'
  <2>1. reply[t] \in InOperation => activeTask = t
    BY DEF TurnCore, ActiveOperates
  <2>2. QED
    BY <1>1, <2>1, TaskAssumption DEF TurnCore, ActiveOperates, InOperation
<1>4. \A u \in Tasks \ {t} : reply[u] # "executing"
  BY DEF TurnCore, OneTurn, InTurn, InOperation
<1>5. StopMarked'
  BY <1>1, <1>4 DEF TurnCore, StopMarked, TypeOK, FlagTypes
<1>6. StoppedTurnNeverSucceeds'
  BY <1>1 DEF TurnCore, StopMarked, StoppedTurnNeverSucceeds, TypeOK, FlagTypes
<1>7. ResultAtEnd'
  BY <1>1 DEF TurnCore, ResultAtEnd
<1>8. QED
  BY <1>2, <1>3, <1>5, <1>6, <1>7

LEMMA EndOutside ==
  ASSUME TypeOK, TurnCore, NEW t \in Tasks, NEW r \in {"error", "cancelled", "interrupted"},
         reply[t] \in {"recovering", "recoveryCancelled", "teardown"}, EndReply(t, r),
         interrupts' = interrupts \/ interrupts' = interrupts \ {SessionOf[t]},
         UNCHANGED <<lease, activeTask, hit>>,
         UNCHANGED regVars \/ Rotate(SessionOf[t])
  PROVE  TurnCore'
<1>1. /\ reply[t] \in InTurn /\ reply[t] \notin InOperation
      /\ reply' = [reply EXCEPT ![t] = "done"] /\ result'[t] = r
      /\ \A u \in Tasks \ {t} : result'[u] = result[u]
  BY DEF InTurn, InOperation, EndReply, TypeOK, TurnTypes
<1>2. OneTurn' /\ ActiveOperates' /\ StopMarked' /\ ResultAtEnd' /\ StoppedTurnNeverSucceeds'
  <2>1. reply'[t] = "done"
    BY <1>1 DEF TypeOK, TurnTypes
  <2>2. QED
    BY <1>1, <2>1, LeaveTurn
<1>3. RegistryMarksLiveTurn'
  <2>1. SessionOf[t] \in Sessions
    BY TaskAssumption
  <2>2. CASE UNCHANGED regVars
    BY <2>2 DEF TurnCore, RegistryMarksLiveTurn, ActiveIn, regVars
  <2>3. CASE Rotate(SessionOf[t])
    BY <2>1, <2>3, RotateRegistry DEF TurnCore
  <2>4. QED
    BY <2>2, <2>3
<1>4. QED
  BY <1>2, <1>3 DEF TurnCore

LEMMA EndInside ==
  ASSUME TypeOK, TurnCore, NEW t \in Tasks, NEW r \in Result, r # "none",
         reply[t] \in InOperation, EndReply(t, r), activeTask' = NoTask,
         r = "ok" => reply[t] = "executing" /\ SessionOf[t] \notin interrupts,
         interrupts' = interrupts \/ interrupts' = interrupts \ {SessionOf[t]},
         UNCHANGED <<lease, hit>>
  PROVE  OneTurn' /\ ActiveOperates' /\ StopMarked' /\ ResultAtEnd' /\ StoppedTurnNeverSucceeds'
<1>1. /\ reply[t] \in InTurn
      /\ reply' = [reply EXCEPT ![t] = "done"] /\ result'[t] = r
      /\ \A u \in Tasks \ {t} : result'[u] = result[u]
      /\ reply'[t] = "done"
  BY DEF InTurn, EndReply, TypeOK, TurnTypes
<1>2. QED
  BY <1>1, LeaveTurn

LEMMA ReplyStepTurn ==
  ASSUME TypeOK, TurnCore, NEW t \in Tasks, ReplyStep(t)
  PROVE  TurnCore'
<1>0. SessionOf[t] \in Sessions /\ t # NoTask
  BY TaskAssumption
<1>1. CASE TurnStart(t)
  <2>1. OneTurn'
    BY <1>1 DEF TurnStart, TurnBusy, TurnCore, OneTurn, TypeOK, TurnTypes
  <2>2. QED
    BY <1>1, <2>1 DEF TurnStart, TypeOK, TurnTypes, TurnCore, ActiveOperates, StopMarked,
           ResultAtEnd, StoppedTurnNeverSucceeds, RegistryMarksLiveTurn, ActiveIn, InOperation,
           workVars, turnVars, regVars, rtVars, jobVars, callVars, flagVars
<1>2. CASE BeginTurn(t)
  <2>1. \A u \in Tasks : reply[u] \notin InOperation
    BY <1>2 DEF BeginTurn, TurnCore, OneTurn, InTurn, InOperation
  <2>2. OneTurn' /\ ActiveOperates'
    BY <1>2, <2>1, <1>0 DEF BeginTurn, TurnCore, OneTurn, ActiveOperates, InTurn,
           InOperation,
           TypeOK, TurnTypes
  <2>3. StopMarked' /\ ResultAtEnd' /\ StoppedTurnNeverSucceeds'
    BY <1>2 DEF BeginTurn, TurnCore, StopMarked, ResultAtEnd, StoppedTurnNeverSucceeds,
           TypeOK, TurnTypes, FlagTypes, flagVars
  <2>4. \A s \in Sessions : regState[s] # "running"
    BY <2>1 DEF TurnCore, RegistryMarksLiveTurn, ActiveOperates, ActiveIn, TypeOK, TurnTypes
  <2>5. RegistryMarksLiveTurn'
    BY <1>0, <1>2, <2>4 DEF BeginTurn, RegistryMarksLiveTurn, ActiveIn, TypeOK, TurnTypes,
           RegTypes
  <2>6. QED
    BY <2>2, <2>3, <2>5 DEF TurnCore
<1>3. CASE RecoveryFails(t)
  <2>1. /\ reply[t] = "recovering" /\ EndReply(t, "error")
        /\ UNCHANGED <<lease, activeTask, regVars, interrupts, hit>>
    BY <1>3 DEF RecoveryFails, flagVars
  <2>2. QED
    BY <2>1, EndOutside
<1>4. CASE RecoveryStopped(t)
  <2>1. /\ reply[t] = "recoveryCancelled"
        /\ EndReply(t, "interrupted") \/ EndReply(t, "cancelled")
        /\ interrupts' = interrupts \ {SessionOf[t]}
        /\ UNCHANGED <<lease, activeTask, regVars, hit>>
    BY <1>4 DEF RecoveryStopped
  <2>2. QED
    BY <2>1, EndOutside
<1>5. CASE Resume(t)
  <2>1. reply[t] = "executing" /\ reply[t] \in InOperation /\ activeTask = t
    BY <1>5 DEF Resume, TurnCore, ActiveOperates, InOperation
  <2>2. ASSUME SessionOf[t] \in interrupts, EndReply(t, "interrupted"), LeaveOperation,
               FinishLease(t), interrupts' = interrupts \ {SessionOf[t]}
        PROVE  TurnCore'
    BY <1>5, <2>1, <2>2, EndInside, FinishRegistry
      DEF Resume, TurnCore, LeaveOperation, Result
  <2>3. ASSUME reply' = [reply EXCEPT ![t] = "failing"],
               UNCHANGED <<result, activeTask, policySession, regVars, interrupts>>
        PROVE  TurnCore'
    <3>1. UNCHANGED <<lease, hit>>
      BY <1>5 DEF Resume
    <3>2. OneTurn' /\ ActiveOperates' /\ ResultAtEnd'
      BY <2>1, <2>3 DEF TurnCore, OneTurn, ActiveOperates, ResultAtEnd, InTurn, InOperation,
             TypeOK, TurnTypes
    <3>3. StopMarked' /\ StoppedTurnNeverSucceeds' /\ RegistryMarksLiveTurn'
      BY <2>3, <3>1 DEF TurnCore, StopMarked, StoppedTurnNeverSucceeds,
             RegistryMarksLiveTurn,
             ActiveIn, TypeOK, TurnTypes, FlagTypes, regVars
    <3>4. QED
      BY <3>2, <3>3 DEF TurnCore
  <2>4. ASSUME SessionOf[t] \notin interrupts, LeaveOperation, FinishLease(t),
               EndReply(t, "ok"), UNCHANGED interrupts
        PROVE  TurnCore'
    BY <1>5, <2>1, <2>4, EndInside, FinishRegistry
      DEF Resume, TurnCore, LeaveOperation, Result
  <2>5. ASSUME LeaveOperation, FinishLease(t), reply' = [reply EXCEPT ![t] = "teardown"],
               UNCHANGED <<result, interrupts>>
        PROVE  TurnCore'
    <3>1. /\ UNCHANGED <<lease, hit>> /\ activeTask' = NoTask
          /\ reply[t] \in InTurn /\ result[t] = "none"
      BY <1>5, <2>1, <2>5 DEF Resume, LeaveOperation, InTurn, TurnCore, ResultAtEnd
    <3>2. /\ OneTurn' /\ ActiveOperates' /\ StopMarked' /\ ResultAtEnd'
          /\ StoppedTurnNeverSucceeds'
      BY <2>1, <2>5, <3>1, LeaveTurn
    <3>3. QED
      BY <2>1, <2>5, <3>1, <3>2, FinishRegistry DEF TurnCore
  <2>6. QED
    BY <1>5, <2>2, <2>3, <2>4, <2>5 DEF Resume
<1>6. CASE TurnClosed(t)
  <2>1. UNCHANGED <<lease, hit, interrupts>>
    BY <1>6 DEF TurnClosed, flagVars
  <2>2. ASSUME reply[t] \in InOperation, NEW r \in {"error", "cancelled"}, EndReply(t, r),
               Rotate(SessionOf[t]) \/ FinishLease(t), LeaveOperation
        PROVE  TurnCore'
    <3>1. activeTask = t /\ activeTask' = NoTask
      BY <2>2 DEF TurnCore, ActiveOperates, LeaveOperation
    <3>2. RegistryMarksLiveTurn'
      BY <1>0, <2>1, <2>2, <3>1, RotateRegistry, FinishRegistry DEF TurnCore
    <3>3. QED
      BY <2>1, <2>2, <3>1, <3>2, EndInside DEF TurnCore, Result
  <2>3. ASSUME reply[t] = "teardown", EndReply(t, "error"), Rotate(SessionOf[t]),
               UNCHANGED <<activeTask, policySession>>
        PROVE  TurnCore'
    BY <2>1, <2>3, EndOutside
  <2>4. QED
    BY <1>6, <2>2, <2>3 DEF TurnClosed, InOperation
<1>7. QED
  BY <1>1, <1>2, <1>3, <1>4, <1>5, <1>6 DEF ReplyStep

(* Threads touch neither the coroutines nor the registry file; a refused      *)
(* dispatch marks the active turn and rotates its session.                    *)
LEMMA ThreadStepTurn ==
  ASSUME TypeOK, TurnCore,
         (\E t \in Tasks : JobStep(t)) \/ (\E c \in Closers : CloserStep(c)) \/ CallStep
  PROVE  TurnCore'
<1>1. ASSUME NEW t \in Tasks, JobStep(t) PROVE TurnCore'
  BY <1>1, TurnFrame DEF JobStep, PickJob, BindJob, RunEnds, BindFails
<1>2. ASSUME NEW c \in Closers, CloserStep(c) PROVE TurnCore'
  BY <1>2, TurnFrame DEF CloserStep, CloserSwap, CloserDone
<1>3. CASE DispatchRefuse
  <2>1. activeTask \in Tasks /\ call.task = activeTask
    BY <1>3 DEF DispatchRefuse, NoCall, TypeOK, CallTypes
  <2>2. SessionOf[activeTask] \in Sessions
    BY <2>1, TaskAssumption
  <2>3. UNCHANGED <<reply, result, lease, activeTask>>
    BY <1>3 DEF DispatchRefuse, turnVars
  <2>4. RegistryMarksLiveTurn'
    BY <1>3, <2>1, <2>2, <2>3, RotateRegistry DEF DispatchRefuse, TurnCore
  <2>5. QED
    BY <1>3, <2>1, <2>3, <2>4, MarkActiveTurn DEF DispatchRefuse, Flag, TurnCore
<1>4. CASE CallStep /\ ~DispatchRefuse
  BY <1>4, TurnFrame DEF CallStep, DispatchBegin, DispatchApprove, DispatchDrop,
         DispatchStopped, DispatchGivesUp, DispatchRaises
<1>5. QED
  BY <1>1, <1>2, <1>3, <1>4

(* A reply coroutine exists only after Start created it. *)
LEMMA StartedOnceStep ==
  ASSUME TypeOK, StartedOnce, [Next]_vars
  PROVE  StartedOnce'
<1>1. ASSUME NEW t \in Tasks, WorkStep(t) PROVE StartedOnce'
  <2>1. CASE Submit(t) \/ Start(t)
    BY <1>1, <2>1 DEF Submit, Start, Settle, StartedOnce, TypeOK, WorkTypes, TurnTypes,
           turnVars
  <2>2. ASSUME NEW why \in Reason, BeginAbort(t, why), work[t] = "replying" PROVE StartedOnce'
    BY <2>2 DEF BeginAbort, CancelReply, EndReply, StartedOnce, Recovering,
           TypeOK, WorkTypes, TurnTypes
  <2>3. ASSUME NEW why \in GiveUps, GiveUp(t, why) PROVE StartedOnce'
    BY <2>2, <2>3, TaskAssumption DEF GiveUp, Reason
  <2>4. CASE Stop(t)
    <3>1. ASSUME Settle(t, "cancelled"), UNCHANGED reply PROVE StartedOnce'
      BY <3>1 DEF Settle, StartedOnce, TypeOK, WorkTypes
    <3>2. ASSUME work[t] = "gathering", CancelReply(t), UNCHANGED work PROVE StartedOnce'
      BY <3>2 DEF CancelReply, EndReply, StartedOnce, TypeOK, TurnTypes
    <3>3. QED
      BY <2>2, <2>4, <3>1, <3>2 DEF Stop, Reason
  <2>5. CASE AbortReturn(t)
    BY <2>5 DEF AbortReturn, CancelReply, EndReply, StartedOnce, TypeOK, WorkTypes,
           TurnTypes
  <2>6. CASE Gathered(t) \/ ReplyDone(t) \/ Deliver(t)
    BY <2>6 DEF Gathered, ReplyDone, Deliver, Settle, StartedOnce, TypeOK, WorkTypes,
           turnVars
  <2>7. QED
    BY <1>1, <2>1, <2>3, <2>4, <2>5, <2>6 DEF WorkStep
<1>2. ASSUME NEW t \in Tasks, ReplyStep(t) PROVE StartedOnce'
  <2>1. reply[t] # "none" /\ UNCHANGED work /\ \A u \in Tasks \ {t} : reply'[u] = reply[u]
    BY <1>2 DEF ReplyStep, TurnStart, BeginTurn, RecoveryFails, RecoveryStopped, Resume,
           TurnClosed, EndReply, TypeOK, TurnTypes, workVars
  <2>2. QED
    BY <2>1 DEF StartedOnce
<1>3. ASSUME UNCHANGED <<work, reply>> PROVE StartedOnce'
  BY <1>3 DEF StartedOnce
<1>4. ASSUME NEW t \in Tasks, JobStep(t) PROVE UNCHANGED <<work, reply>>
  BY <1>4 DEF JobStep, PickJob, BindJob, RunEnds, BindFails, workVars, turnVars
<1>5. ASSUME NEW c \in Closers, CloserStep(c) PROVE UNCHANGED <<work, reply>>
  BY <1>5 DEF CloserStep, CloserSwap, CloserDone, workVars, turnVars
<1>6. CASE CallStep
  BY <1>3, <1>6 DEF CallStep, DispatchBegin, DispatchApprove, DispatchDrop, DispatchRefuse,
         DispatchStopped, DispatchGivesUp, DispatchRaises, workVars, turnVars
<1>7. CASE UNCHANGED vars
  BY <1>3, <1>7 DEF vars, workVars, turnVars
<1>8. QED
  BY <1>1, <1>2, <1>3, <1>4, <1>5, <1>6, <1>7 DEF Next, Quiescent

(* The turn lock, the active ids, the stop flag, the results and the registry *)
(* file agree in every reachable state.                                       *)
THEOREM TurnInvariant == Spec => []TurnInv
<1>1. Init => TurnInv
  BY TaskAssumption DEF Init, TurnInv, StartedOnce, ResultAtEnd, OneTurn, ActiveOperates,
         StopMarked, StoppedTurnNeverSucceeds, RegistryMarksLiveTurn, InTurn, InOperation
<1>2. TypeOK /\ TurnInv /\ [Next]_vars => TurnInv'
  <2> SUFFICES ASSUME TypeOK, TurnInv, [Next]_vars PROVE TurnInv'
    OBVIOUS
  <2>1. StartedOnce /\ TurnCore
    BY DEF TurnInv, TurnCore
  <2>2. ASSUME NEW t \in Tasks, WorkStep(t) PROVE TurnCore'
    BY <2>1, <2>2, WorkStepTurn
  <2>3. ASSUME NEW t \in Tasks, ReplyStep(t) PROVE TurnCore'
    BY <2>1, <2>3, ReplyStepTurn
  <2>4. ASSUME (\E t \in Tasks : JobStep(t)) \/ (\E c \in Closers : CloserStep(c)) \/ CallStep
        PROVE  TurnCore'
    BY <2>1, <2>4, ThreadStepTurn
  <2>5. ASSUME UNCHANGED vars PROVE TurnCore'
    BY <2>1, <2>5, TurnFrame DEF vars
  <2>6. TurnCore'
    BY <2>2, <2>3, <2>4, <2>5 DEF Next, Quiescent
  <2>7. StartedOnce'
    BY <2>1, StartedOnceStep
  <2>8. QED
    BY <2>6, <2>7 DEF TurnInv, TurnCore
<1>3. QED
  BY <1>1, <1>2, TypeCorrect, PTL DEF Spec

(* The registry file marks exactly the turn in flight. *)
THEOREM RegistryCorrect == Spec => []RegistryMarksLiveTurn
<1>1. TurnInv => RegistryMarksLiveTurn
  BY DEF TurnInv
<1>2. QED
  BY <1>1, TurnInvariant, PTL

(* A turn that was told to stop is never answered normally. *)
THEOREM StopCorrect == Spec => []StoppedTurnNeverSucceeds
<1>1. TurnInv => StoppedTurnNeverSucceeds
  BY DEF TurnInv
<1>2. QED
  BY <1>1, TurnInvariant, PTL

(***************************************************************************)
(* Refinement of TurnService.                                              *)
(***************************************************************************)
LEMMA ReplyMoves ==
  ASSUME TypeOK, NEW t \in Tasks, NEW r, reply' = [reply EXCEPT ![t] = r],
         StatusOf(r) = StatusOf(reply[t]), UNCHANGED <<result, hit>>
  PROVE  UNCHANGED Service!vars
<1>1. \A u \in Tasks : StatusOf(reply'[u]) = StatusOf(reply[u])
  BY DEF TypeOK, TurnTypes
<1>2. QED
  BY <1>1 DEF Service!vars

LEMMA ReplyEnds ==
  ASSUME TypeOK, NEW t \in Tasks, NEW r \in Result \ {"none"}, EndReply(t, r), UNCHANGED hit,
         reply[t] # "done",
         r = "ok" => StatusOf(reply[t]) = "active" /\ t \notin hit
  PROVE  Service!Next
<1> DEFINE status(v) == [u \in Tasks |-> StatusOf(v[u])]
           verdict(v) == [u \in Tasks |-> VerdictOf(v[u])]
<1>1. StatusOf("done") = "ended" /\ StatusOf(reply[t]) # "ended"
  BY DEF StatusOf
<1>2. status(reply') = [status(reply) EXCEPT ![t] = "ended"]
  BY <1>1 DEF EndReply, TypeOK, TurnTypes
<1>3. verdict(result') = [verdict(result) EXCEPT ![t] = VerdictOf(r)]
  BY DEF EndReply, TypeOK, TurnTypes
<1>4. CASE r = "ok"
  <2>1. Service!Answer(t)
    BY <1>2, <1>3, <1>4 DEF Service!Answer, VerdictOf
  <2>2. QED
    BY <2>1 DEF Service!Next
<1>5. CASE r # "ok"
  <2>1. VerdictOf(r) = "refused"
    BY <1>5 DEF VerdictOf
  <2>2. Service!Refuse(t)
    BY <1>1, <1>2, <1>3, <2>1 DEF Service!Refuse
  <2>3. QED
    BY <2>2 DEF Service!Next
<1>6. QED
  BY <1>4, <1>5

LEMMA TurnTold ==
  ASSUME NEW t \in Tasks, StatusOf(reply[t]) = "active", hit' = hit \cup {t},
         \A u \in Tasks : StatusOf(reply'[u]) = StatusOf(reply[u]), UNCHANGED result
  PROVE  Service!Next
<1>1. Service!Tell(t)
  BY DEF Service!Tell
<1>2. QED
  BY <1>1 DEF Service!Next

LEMMA CancelReplyRefines ==
  ASSUME TypeOK, NEW t \in Tasks, CancelReply(t), UNCHANGED hit
  PROVE  Service!Next \/ UNCHANGED Service!vars
<1>1. CASE EndReply(t, "cancelled") /\ reply[t] # "done"
  BY <1>1, ReplyEnds DEF Result
<1>2. CASE UNCHANGED <<reply, result>>
  BY <1>2 DEF Service!vars
<1>3. CASE /\ UNCHANGED result
           /\ \E r \in ReplyState : /\ StatusOf(r) = StatusOf(reply[t])
                                    /\ reply' = [reply EXCEPT ![t] = r]
  BY <1>3, ReplyMoves
<1>4. QED
  BY <1>1, <1>2, <1>3 DEF CancelReply, StatusOf, ReplyState

LEMMA BeginAbortRefines ==
  ASSUME TypeOK, TurnInv, NEW t \in Tasks, NEW why, BeginAbort(t, why)
  PROVE  Service!Next \/ UNCHANGED Service!vars
<1> DEFINE s == SessionOf[t]
           R == {q \in Tasks : SessionOf[q] = s /\ reply[q] \in Recovering}
<1>1. ASSUME NEW q \in R,
             reply' = [reply EXCEPT ![q] = IF s \in interrupts THEN @
                                           ELSE "recoveryCancelled"],
             hit' = IF s \in interrupts THEN hit ELSE hit \cup {q},
             UNCHANGED result
      PROVE  Service!Next \/ UNCHANGED Service!vars
  <2>1. CASE s \in interrupts
    BY <1>1, <2>1 DEF Service!vars, TypeOK, TurnTypes
  <2>2. CASE s \notin interrupts
    <3>1. /\ StatusOf(reply[q]) = "active" /\ hit' = hit \cup {q}
          /\ \A u \in Tasks : StatusOf(reply'[u]) = StatusOf(reply[u])
      BY <1>1, <2>2 DEF StatusOf, Recovering, TypeOK, TurnTypes
    <3>2. QED
      BY <1>1, <3>1, TurnTold
  <2>3. QED
    BY <2>1, <2>2
<1>2. ASSUME ActiveIn(s), hit' = hit \cup {activeTask}, UNCHANGED <<reply, result>>
      PROVE  Service!Next
  <2>1. activeTask \in Tasks /\ StatusOf(reply[activeTask]) = "active"
    BY <1>2 DEF ActiveIn, TypeOK, TurnTypes, TurnInv, ActiveOperates, InOperation, StatusOf
  <2>2. QED
    BY <1>2, <2>1, TurnTold
<1>3. QED
  BY <1>1, <1>2, CancelReplyRefines DEF BeginAbort

LEMMA ReplyStepRefines ==
  ASSUME TypeOK, TurnInv, NEW t \in Tasks, ReplyStep(t)
  PROVE  Service!Next \/ UNCHANGED Service!vars
<1>1. CASE TurnStart(t)
  <2>1. /\ \A u \in Tasks : StatusOf(reply[u]) # "active"
        /\ StatusOf(reply[t]) = "waiting" /\ StatusOf("recovering") = "active"
    BY <1>1 DEF TurnStart, TurnBusy, StatusOf, InTurn, InOperation, TypeOK, TurnTypes,
           ReplyState
  <2>2. [u \in Tasks |-> StatusOf(reply'[u])]
          = [[u \in Tasks |-> StatusOf(reply[u])] EXCEPT ![t] = "active"]
    BY <1>1, <2>1 DEF TurnStart, TypeOK, TurnTypes
  <2>3. Service!Open(t)
    BY <1>1, <2>1, <2>2 DEF TurnStart, Service!Open, flagVars
  <2>4. QED
    BY <2>3 DEF Service!Next
<1>2. CASE BeginTurn(t)
  BY <1>2, ReplyMoves DEF BeginTurn, StatusOf, flagVars
<1>3. CASE RecoveryFails(t)
  BY <1>3, ReplyEnds DEF RecoveryFails, Result, flagVars
<1>4. CASE RecoveryStopped(t)
  BY <1>4, ReplyEnds DEF RecoveryStopped, Result
<1>5. CASE Resume(t)
  <2>1. reply[t] = "executing" /\ StatusOf(reply[t]) = "active" /\ UNCHANGED hit
    BY <1>5 DEF Resume, StatusOf
  <2>2. CASE EndReply(t, "interrupted")
    BY <2>1, <2>2, ReplyEnds DEF Result
  <2>3. CASE EndReply(t, "ok") /\ SessionOf[t] \notin interrupts
    <3>1. t \notin hit
      BY <2>1, <2>3 DEF TurnInv, StopMarked
    <3>2. QED
      BY <2>1, <2>3, <3>1, ReplyEnds DEF Result
  <2>4. CASE /\ UNCHANGED result
             /\ \/ reply' = [reply EXCEPT ![t] = "failing"]
                \/ reply' = [reply EXCEPT ![t] = "teardown"]
    BY <2>1, <2>4, ReplyMoves DEF StatusOf
  <2>5. QED
    BY <1>5, <2>2, <2>3, <2>4 DEF Resume
<1>6. CASE TurnClosed(t)
  BY <1>6, ReplyEnds DEF TurnClosed, Result, flagVars
<1>7. QED
  BY <1>1, <1>2, <1>3, <1>4, <1>5, <1>6 DEF ReplyStep

LEMMA WorkStepRefines ==
  ASSUME TypeOK, TurnInv, NEW t \in Tasks, WorkStep(t)
  PROVE  Service!Next \/ UNCHANGED Service!vars
<1>1. CASE Submit(t) \/ Gathered(t) \/ ReplyDone(t) \/ Deliver(t)
  BY <1>1 DEF Submit, Gathered, ReplyDone, Deliver, turnVars, flagVars, Service!vars
<1>2. CASE Start(t)
  <2>1. CASE UNCHANGED reply
    BY <1>2, <2>1 DEF Start, flagVars, Service!vars
  <2>2. CASE reply' = [reply EXCEPT ![t] = "turnwait"]
    BY <1>2, <2>2, ReplyMoves DEF Start, TurnInv, StartedOnce, StatusOf, flagVars
  <2>3. QED
    BY <1>2, <2>1, <2>2 DEF Start
<1>3. ASSUME NEW why \in GiveUps, GiveUp(t, why)
      PROVE  Service!Next \/ UNCHANGED Service!vars
  BY <1>3, BeginAbortRefines DEF GiveUp
<1>4. CASE Stop(t)
  <2>1. CASE BeginAbort(t, "cancel")
    BY <2>1, BeginAbortRefines
  <2>2. CASE UNCHANGED <<reply, result, flagVars>>
    BY <2>2 DEF flagVars, Service!vars
  <2>3. CASE CancelReply(t) /\ UNCHANGED hit
    BY <2>3, CancelReplyRefines
  <2>4. QED
    BY <1>4, <2>1, <2>2, <2>3 DEF Stop
<1>5. CASE AbortReturn(t)
  BY <1>5, CancelReplyRefines DEF AbortReturn
<1>6. QED
  BY <1>1, <1>2, <1>3, <1>4, <1>5 DEF WorkStep

LEMMA CallStepRefines ==
  ASSUME TypeOK, TurnInv, CallStep
  PROVE  Service!Next \/ UNCHANGED Service!vars
<1>1. CASE DispatchRefuse
  <2>1. activeTask \in Tasks
    BY <1>1 DEF DispatchRefuse, NoCall, TypeOK, CallTypes
  <2>2. StatusOf(reply[activeTask]) = "active"
    BY <2>1 DEF TurnInv, ActiveOperates, InOperation, StatusOf
  <2>3. QED
    BY <1>1, <2>1, <2>2, TurnTold DEF DispatchRefuse, turnVars
<1>2. CASE ~DispatchRefuse
  BY <1>2 DEF CallStep, DispatchBegin, DispatchApprove, DispatchDrop, DispatchStopped,
         DispatchGivesUp, DispatchRaises, turnVars, flagVars, Service!vars
<1>3. QED
  BY <1>1, <1>2

(* HarnessTurn implements TurnService: turns are served one at a time over    *)
(* all sessions, and a stopped one is refused.                                *)
THEOREM Refinement == Spec => ImplementsTurnService
<1>1. Init => Service!Init
  BY DEF Init, Service!Init, StatusOf, VerdictOf
<1>2. TypeOK /\ TurnInv /\ [Next]_vars => [Service!Next]_(Service!vars)
  <2> SUFFICES ASSUME TypeOK, TurnInv, [Next]_vars
               PROVE  Service!Next \/ UNCHANGED Service!vars
    OBVIOUS
  <2>1. ASSUME NEW t \in Tasks, WorkStep(t) \/ ReplyStep(t)
        PROVE  Service!Next \/ UNCHANGED Service!vars
    BY <2>1, WorkStepRefines, ReplyStepRefines
  <2>2. ASSUME NEW t \in Tasks, JobStep(t) PROVE UNCHANGED Service!vars
    BY <2>2 DEF JobStep, PickJob, BindJob, RunEnds, BindFails, turnVars, flagVars,
           Service!vars
  <2>3. ASSUME NEW c \in Closers, CloserStep(c) PROVE UNCHANGED Service!vars
    BY <2>3 DEF CloserStep, CloserSwap, CloserDone, turnVars, flagVars, Service!vars
  <2>4. CASE CallStep
    BY <2>4, CallStepRefines
  <2>5. CASE UNCHANGED vars
    BY <2>5 DEF vars, turnVars, flagVars, Service!vars
  <2>6. QED
    BY <2>1, <2>2, <2>3, <2>4, <2>5 DEF Next, Quiescent
<1>3. QED
  BY <1>1, <1>2, TypeCorrect, TurnInvariant, PTL DEF Spec, ImplementsTurnService,
         Service!Spec
(***************************************************************************)
(* The runtimes of the runs.  A closer and a job are started once, so the  *)
(* runtime that a run was bound to stays with the bridge, or with the      *)
(* closer that took it, until it is closed.                                *)
(***************************************************************************)
(* Where a harness can be. *)
Held(h) == \/ harness /\ h = nonce
           \/ h \in dead
           \/ \E c \in Closers : closer[c] = "closing" /\ victim[c] = h

(* A turn makes one job, which binds a harness once. *)
JobOnce ==
  \A t \in Tasks :
    /\ reply[t] \in {"none", "turnwait"} \cup Recovering => job[t] = "none"
    /\ job[t] \in {"none", "queued", "picked"} => jobHarness[t] = 0
    /\ job[t] = "running" => jobHarness[t] # 0

(* The closers of a reply and of an abort run once. *)
CloserOnce ==
  \A t \in Tasks :
    /\ reply[t] \in {"none", "turnwait", "executing"} \cup Recovering =>
         closer[<<"turn", t>>] = "idle"
    /\ work[t] \in {"idle", "queued", "replying"} => closer[<<"abort", t>>] = "idle"

(* No harness that a job was bound to is out of reach. *)
RuntimesHeld ==
  /\ nonce > 0
  /\ \A t \in Tasks : /\ jobHarness[t] <= nonce
                      /\ jobHarness[t] # 0 => Held(jobHarness[t])

(* The run that asked is bound; a refusal's closer outdates its runtime when it runs; *)
(* a policy session belongs to a live harness.                                        *)
CallBound ==
  /\ call # NoCall => jobHarness[call.from] # 0
  /\ call.st = "stopping" =>
       closer[<<"confirm", call.from>>] = "queued" \/ jobHarness[call.from] < nonce
  /\ policySession # NoSid => harness

RunInv == JobOnce /\ CloserOnce /\ RuntimesHeld /\ CallBound

(* What cancelling a reply does to the job and the closers. *)
LEMMA CancelEffect ==
  ASSUME TypeOK, NEW t \in Tasks, CancelReply(t)
  PROVE  /\ \A u \in Tasks \ {t} : reply'[u] = reply[u] /\ job'[u] = job[u]
         /\ reply'[t] \in {"none", "turnwait", "executing"} \cup Recovering =>
              reply'[t] = reply[t] \/ reply[t] = "recovering"
         /\ reply'[t] \notin {"turnwait", "recovering", "executing"}
         /\ job'[t] = job[t] \/ (job'[t] = "dropped" /\ reply[t] = "executing")
         /\ \/ closer' = closer
            \/ /\ closer' = [closer EXCEPT ![<<"turn", t>>] = "queued"]
               /\ reply[t] = "executing" /\ reply'[t] \in {"cancelOnly", "cancelRotate"}
         /\ policySession' \in {policySession, NoSid}
BY DEF CancelReply, EndReply, StartCloser, LeaveOperation, Recovering, TypeOK, TurnTypes, JobTypes

(* What a work step does to the jobs and the closers. *)
WorkEffect(t) ==
  /\ \A u \in Tasks :
       /\ reply'[u] \in {"none", "turnwait", "executing"} \cup Recovering =>
            \/ reply'[u] = reply[u]
            \/ {reply[u], reply'[u]} \subseteq {"none", "turnwait"} \cup Recovering
       /\ \/ job'[u] = job[u]
          \/ job'[u] = "dropped" /\ reply[u] = "executing" /\ reply'[u] # "executing"
       /\ work'[u] \in {"idle", "queued", "replying"} => work[u] \in {"idle", "queued", "replying"}
  /\ \/ closer' = closer
     \/ /\ closer' = [closer EXCEPT ![<<"turn", t>>] = "queued"]
        /\ reply[t] = "executing" /\ reply'[t] \in {"cancelOnly", "cancelRotate"}
     \/ /\ closer' = [closer EXCEPT ![<<"abort", t>>] = "queued"]
        /\ work[t] = "replying" /\ work'[t] = "abortRuntime"
  /\ policySession' \in {policySession, NoSid}
  /\ UNCHANGED <<nonce, harness, dead, victim, jobNonce, jobHarness, callVars>>

LEMMA CancelIsWorkEffect ==
  ASSUME TypeOK, NEW t \in Tasks, CancelReply(t),
         UNCHANGED <<nonce, harness, dead, victim, jobNonce, jobHarness, callVars>>,
         work' = work \/ work' = [work EXCEPT ![t] = "gathering"]
  PROVE  WorkEffect(t)
BY CancelEffect DEF WorkEffect, Recovering, TypeOK, WorkTypes

LEMMA BeginAbortEffect ==
  ASSUME TypeOK, NEW t \in Tasks, NEW why, BeginAbort(t, why), work[t] = "replying",
         UNCHANGED <<nonce, harness, dead, victim, jobNonce, jobHarness, callVars>>
  PROVE  WorkEffect(t)
<1> DEFINE s == SessionOf[t]
           R == {q \in Tasks : SessionOf[q] = s /\ reply[q] \in Recovering}
<1>1. ASSUME NEW q \in R, work' = [work EXCEPT ![t] = "abortRecovery"],
             reply' = [reply EXCEPT ![q] = IF s \in interrupts THEN @ ELSE "recoveryCancelled"],
             UNCHANGED <<policySession, closer, job>>
      PROVE  WorkEffect(t)
  BY <1>1 DEF WorkEffect, Recovering, TypeOK, WorkTypes, TurnTypes
<1>2. ASSUME work' = [work EXCEPT ![t] = "abortRuntime"], StartCloser(<<"abort", t>>),
             UNCHANGED <<reply, policySession, job>>
      PROVE  WorkEffect(t)
  BY <1>2 DEF WorkEffect, StartCloser, TypeOK, WorkTypes
<1>3. ASSUME work' = [work EXCEPT ![t] = "gathering"], CancelReply(t) PROVE WorkEffect(t)
  BY <1>3, CancelIsWorkEffect
<1>4. QED
  BY <1>1, <1>2, <1>3 DEF BeginAbort

LEMMA WorkStepEffect ==
  ASSUME TypeOK, StartedOnce, NEW t \in Tasks, WorkStep(t)
  PROVE  WorkEffect(t)
<1> USE DEF workVars, turnVars, rtVars, jobVars
<1>1. CASE Submit(t) \/ Gathered(t) \/ ReplyDone(t) \/ Deliver(t)
  BY <1>1 DEF Submit, Gathered, ReplyDone, Deliver, Settle, WorkEffect, TypeOK, WorkTypes
<1>2. CASE Start(t)
  BY <1>2 DEF Start, Settle, StartedOnce, WorkEffect, TypeOK, WorkTypes, TurnTypes
<1>3. ASSUME NEW why \in GiveUps, GiveUp(t, why) PROVE WorkEffect(t)
  BY <1>3, BeginAbortEffect DEF GiveUp
<1>4. CASE Stop(t)
  <2>1. UNCHANGED <<nonce, harness, dead, victim, jobNonce, jobHarness, callVars>>
    BY <1>4 DEF Stop
  <2>2. ASSUME work[t] = "replying", BeginAbort(t, "cancel") PROVE WorkEffect(t)
    BY <2>1, <2>2, BeginAbortEffect
  <2>3. ASSUME CancelReply(t), UNCHANGED work PROVE WorkEffect(t)
    BY <2>1, <2>3, CancelIsWorkEffect
  <2>4. ASSUME Settle(t, "cancelled"), UNCHANGED <<reply, policySession, closer, job>>
        PROVE  WorkEffect(t)
    BY <2>1, <2>4 DEF Settle, WorkEffect, TypeOK, WorkTypes
  <2>5. QED
    BY <1>4, <2>2, <2>3, <2>4 DEF Stop
<1>5. CASE AbortReturn(t)
  BY <1>5, CancelIsWorkEffect DEF AbortReturn
<1>6. QED
  BY <1>1, <1>2, <1>3, <1>4, <1>5 DEF WorkStep

LEMMA WorkStepRun ==
  ASSUME TypeOK, RunInv, NEW t \in Tasks, WorkEffect(t)
  PROVE  RunInv'
<1>1. JobOnce'
  BY DEF RunInv, JobOnce, WorkEffect, Recovering
<1>2. CloserOnce'
  <2> DEFINE Before == {"none", "turnwait", "executing"} \cup Recovering
             Early  == {"idle", "queued", "replying"}
  <2> SUFFICES ASSUME NEW u \in Tasks
               PROVE  /\ reply'[u] \in Before => closer'[<<"turn", u>>] = "idle"
                      /\ work'[u] \in Early => closer'[<<"abort", u>>] = "idle"
    BY DEF CloserOnce, Recovering
  <2>1. /\ reply'[u] \in Before => reply[u] \in Before
        /\ work'[u] \in Early => work[u] \in Early
        /\ call' = call
    BY DEF WorkEffect, callVars
  <2>2. /\ reply[u] \in Before => closer[<<"turn", u>>] = "idle"
        /\ work[u] \in Early => closer[<<"abort", u>>] = "idle"
    BY DEF RunInv, CloserOnce
  <2>3. /\ reply'[t] \in {"cancelOnly", "cancelRotate"} => reply'[t] \notin Before
        /\ work'[t] = "abortRuntime" => work'[t] \notin Early
    BY DEF Recovering
  <2> HIDE DEF Before, Early
  <2>4. CASE closer' = closer
    BY <2>1, <2>2, <2>4
  <2>5. ASSUME NEW k \in {"turn", "abort"}, closer' = [closer EXCEPT ![<<k, t>>] = "queued"]
        PROVE  /\ k # "turn" \/ u # t => closer'[<<"turn", u>>] = closer[<<"turn", u>>]
               /\ k # "abort" \/ u # t => closer'[<<"abort", u>>] = closer[<<"abort", u>>]
    <3>1. closer \in [Closers -> {"idle", "queued", "closing", "done"}]
      BY DEF TypeOK, RuntimeTypes
    <3>2. \A c \in Closers : c # <<k, t>> => closer'[c] = closer[c]
      BY <2>5, <3>1
    <3>3. QED
      BY <3>2 DEF Closers
  <2>6. CASE /\ closer' = [closer EXCEPT ![<<"turn", t>>] = "queued"]
             /\ reply[t] = "executing" /\ reply'[t] \in {"cancelOnly", "cancelRotate"}
    BY <2>1, <2>2, <2>3, <2>5, <2>6
  <2>7. CASE /\ closer' = [closer EXCEPT ![<<"abort", t>>] = "queued"]
             /\ work[t] = "replying" /\ work'[t] = "abortRuntime"
    BY <2>1, <2>2, <2>3, <2>5, <2>7
  <2>8. QED
    BY <2>4, <2>6, <2>7 DEF WorkEffect
<1>3. \A c \in Closers : closer[c] = "closing" => closer'[c] = "closing"
  <2>1. \/ closer' = closer
        \/ \E d \in Closers : closer[d] = "idle" /\ closer' = [closer EXCEPT ![d] = "queued"]
    BY DEF RunInv, CloserOnce, WorkEffect, Closers
  <2>2. QED
    BY <2>1 DEF TypeOK, RuntimeTypes
<1>4. RuntimesHeld'
  BY <1>3 DEF RunInv, RuntimesHeld, Held, WorkEffect
<1>5. CallBound'
  <2>1. \A u \in Tasks : closer'[<<"confirm", u>>] = closer[<<"confirm", u>>]
    BY DEF WorkEffect, TypeOK, RuntimeTypes, Closers
  <2>2. call # NoCall => call.from \in Tasks
    BY DEF TypeOK, CallTypes
  <2>3. call.st = "stopping" => call # NoCall
    BY DEF NoCall
  <2>4. QED
    BY <2>1, <2>2, <2>3 DEF RunInv, CallBound, WorkEffect, callVars
<1>6. QED
  BY <1>1, <1>2, <1>4, <1>5 DEF RunInv

LEMMA ReplyStepRun ==
  ASSUME TypeOK, RunInv, NEW t \in Tasks, ReplyStep(t)
  PROVE  RunInv'
<1> USE DEF workVars, rtVars, jobVars, callVars
<1>1. UNCHANGED <<work, nonce, harness, dead, victim, jobNonce, jobHarness, call>>
  BY DEF ReplyStep, TurnStart, BeginTurn, RecoveryFails, RecoveryStopped, Resume, TurnClosed
<1>2. /\ \A u \in Tasks \ {t} : reply'[u] = reply[u] /\ job'[u] = job[u]
      /\ reply'[t] \in {"none", "turnwait", "executing"} \cup Recovering =>
           reply[t] \in {"turnwait", "recovering"}
      /\ reply'[t] \in {"none", "turnwait"} \cup Recovering => job'[t] = job[t]
      /\ job'[t] = job[t] \/ (job[t] = "none" /\ job'[t] = "queued")
      /\ \/ closer' = closer
         \/ /\ closer' = [closer EXCEPT ![<<"turn", t>>] = "queued"]
            /\ reply[t] = "executing" /\ reply'[t] \in {"failing", "teardown"}
      /\ policySession' \in {policySession, NoSid}
  <2>1. CASE TurnStart(t) \/ RecoveryFails(t) \/ RecoveryStopped(t)
    BY <2>1 DEF TurnStart, RecoveryFails, RecoveryStopped, EndReply, Recovering, TypeOK, TurnTypes
  <2>2. CASE BeginTurn(t)
    BY <2>2 DEF BeginTurn, RunInv, JobOnce, Recovering, TypeOK, TurnTypes, JobTypes
  <2>3. CASE Resume(t)
    BY <2>3 DEF Resume, EndReply, LeaveOperation, StartCloser, Recovering, TypeOK, TurnTypes
  <2>4. CASE TurnClosed(t)
    BY <2>4 DEF TurnClosed, EndReply, LeaveOperation, Recovering, TypeOK, TurnTypes
  <2>5. QED
    BY <2>1, <2>2, <2>3, <2>4 DEF ReplyStep
<1>3. JobOnce'
  BY <1>1, <1>2 DEF RunInv, JobOnce, Recovering
<1>4. CloserOnce'
  <2>1. CASE closer' = closer
    BY <1>1, <1>2, <2>1 DEF RunInv, CloserOnce, Recovering
  <2>2. CASE /\ closer' = [closer EXCEPT ![<<"turn", t>>] = "queued"]
             /\ reply[t] = "executing" /\ reply'[t] \in {"failing", "teardown"}
    <3>1. /\ \A u \in Tasks \ {t} : closer'[<<"turn", u>>] = closer[<<"turn", u>>]
          /\ \A u \in Tasks : /\ closer'[<<"abort", u>>] = closer[<<"abort", u>>]
                             /\ closer'[<<"confirm", u>>] = closer[<<"confirm", u>>]
      BY <2>2 DEF TypeOK, RuntimeTypes, Closers
    <3>2. reply'[t] \notin {"none", "turnwait", "executing"} \cup Recovering
      BY <2>2 DEF Recovering
    <3>3. ASSUME NEW u \in Tasks,
                 reply'[u] \in {"none", "turnwait", "executing"} \cup Recovering
          PROVE  closer'[<<"turn", u>>] = "idle"
      <4>1. u # t /\ reply'[u] = reply[u]
        BY <1>2, <3>2, <3>3
      <4>2. QED
        BY <3>1, <3>3, <4>1 DEF RunInv, CloserOnce
    <3>4. QED
      BY <1>1, <3>1, <3>3 DEF RunInv, CloserOnce
  <2>3. QED
    BY <1>2, <2>1, <2>2
<1>5. \A c \in Closers : closer[c] = "closing" => closer'[c] = "closing"
  BY <1>2 DEF RunInv, CloserOnce, TypeOK, RuntimeTypes
<1>6. RuntimesHeld'
  BY <1>1, <1>5 DEF RunInv, RuntimesHeld, Held
<1>7. CallBound'
  <2>1. \A u \in Tasks : closer'[<<"confirm", u>>] = closer[<<"confirm", u>>]
    BY <1>2 DEF TypeOK, RuntimeTypes, Closers
  <2>2. call # NoCall => call.from \in Tasks
    BY DEF TypeOK, CallTypes
  <2>3. call.st = "stopping" => call # NoCall
    BY DEF NoCall
  <2>4. QED
    BY <1>1, <1>2, <2>1, <2>2, <2>3 DEF RunInv, CallBound
<1>8. QED
  BY <1>3, <1>4, <1>6, <1>7 DEF RunInv

LEMMA JobStepRun ==
  ASSUME TypeOK, RunInv, NEW t \in Tasks, JobStep(t)
  PROVE  RunInv'
<1> USE DEF workVars, turnVars, rtVars, jobVars, callVars
<1>1. UNCHANGED <<work, reply, nonce, dead, closer, victim, call>>
  BY DEF JobStep, PickJob, BindJob, RunEnds, BindFails
<1>2. CASE BindJob(t)
  <2>1. /\ job' = [job EXCEPT ![t] = "running"] /\ jobHarness' = [jobHarness EXCEPT ![t] = nonce]
        /\ harness' = TRUE /\ job[t] = "picked" /\ nonce \in Nat \ {0}
    BY <1>2 DEF BindJob, RunInv, RuntimesHeld, TypeOK, RuntimeTypes
  <2>2. /\ jobHarness[t] = 0
        /\ \A u \in Tasks \ {t} : jobHarness'[u] = jobHarness[u] /\ job'[u] = job[u]
    BY <2>1 DEF RunInv, JobOnce, TypeOK, JobTypes
  <2>3. jobHarness'[t] = nonce /\ job'[t] = "running"
    BY <2>1 DEF TypeOK, JobTypes
  <2>4. JobOnce'
    BY <1>1, <2>1, <2>2, <2>3 DEF RunInv, JobOnce
  <2>5. CloserOnce'
    BY <1>1 DEF RunInv, CloserOnce
  <2>6. RuntimesHeld'
    <3>1. \A h : Held(h) => Held(h)'
      BY <1>1, <2>1 DEF Held
    <3>2. Held(nonce)'
      BY <1>1, <2>1 DEF Held
    <3>3. QED
      BY <1>1, <2>1, <2>2, <2>3, <3>1, <3>2 DEF RunInv, RuntimesHeld, Held
  <2>7. CallBound'
    <3>1. call # NoCall => call.from # t /\ call.from \in Tasks
      BY <2>2 DEF RunInv, CallBound, TypeOK, CallTypes
    <3>2. call.st = "stopping" => call # NoCall
      BY DEF NoCall
    <3>3. QED
      BY <1>1, <2>1, <2>2, <3>1, <3>2 DEF RunInv, CallBound
  <2>8. QED
    BY <2>4, <2>5, <2>6, <2>7 DEF RunInv
<1>3. CASE PickJob(t) \/ RunEnds(t) \/ BindFails(t)
  <2>1. /\ UNCHANGED <<harness, policySession, jobHarness>>
        /\ \A u \in Tasks \ {t} : job'[u] = job[u]
        /\ job[t] # "none" /\ job'[t] \notin {"none", "running"}
        /\ job'[t] \in {"queued", "picked"} => job[t] = "queued"
    BY <1>3 DEF PickJob, RunEnds, BindFails, TypeOK, JobTypes
  <2>2. JobOnce'
    BY <1>1, <2>1 DEF RunInv, JobOnce
  <2>3. CloserOnce' /\ RuntimesHeld' /\ CallBound'
    BY <1>1, <2>1 DEF RunInv, CloserOnce, RuntimesHeld, Held, CallBound
  <2>4. QED
    BY <2>2, <2>3 DEF RunInv
<1>4. QED
  BY <1>2, <1>3 DEF JobStep

LEMMA CloserStepRun ==
  ASSUME TypeOK, RunInv, NEW c \in Closers, CloserStep(c)
  PROVE  RunInv'
<1> USE DEF workVars, turnVars, rtVars, jobVars, callVars
<1>1. UNCHANGED <<work, reply, job, jobHarness, call>>
  BY DEF CloserStep, CloserSwap, CloserDone
<1>2. JobOnce'
  BY <1>1 DEF RunInv, JobOnce
<1>3. CloserOnce'
  <2>1. /\ closer[c] \in {"queued", "closing"}
        /\ \E st \in {"closing", "done"} : closer' = [closer EXCEPT ![c] = st]
    BY DEF CloserStep, CloserSwap, CloserDone
  <2>2. \A d \in Closers :
          /\ closer[d] = "idle" => closer'[d] = "idle"
          /\ closer'[d] \in {"queued", "closing"} => closer[d] \in {"queued", "closing"}
    BY <2>1 DEF TypeOK, RuntimeTypes
  <2>3. QED
    BY <1>1, <2>2 DEF RunInv, CloserOnce, Closers
<1>4. RuntimesHeld'
  <2>1. nonce' \in {nonce, nonce + 1}
    BY DEF CloserStep, CloserSwap, CloserDone
  <2>2. \A h \in Nat : Held(h) => Held(h)'
    <3>1. CASE CloserSwap(c)
      BY <3>1 DEF CloserSwap, Held, TypeOK, RuntimeTypes
    <3>2. CASE CloserDone(c)
      BY <3>2 DEF CloserDone, Held, TypeOK, RuntimeTypes
    <3>3. QED
      BY <3>1, <3>2 DEF CloserStep
  <2>3. QED
    BY <1>1, <2>1, <2>2 DEF RunInv, RuntimesHeld, Held, TypeOK, RuntimeTypes, JobTypes
<1>5. CallBound'
  <2>1. CASE CloserSwap(c)
    <3>1. call # NoCall => call.from \in Tasks
      BY DEF TypeOK, CallTypes
    <3>2. call.st = "stopping" => call # NoCall
      BY DEF NoCall
    <3>3. policySession' = NoSid /\ nonce' = nonce + 1 /\ nonce \in Nat
      BY <2>1 DEF CloserSwap, TypeOK, RuntimeTypes
    <3>4. \A u \in Tasks : jobHarness[u] < nonce'
      BY <3>3 DEF RunInv, RuntimesHeld, TypeOK, JobTypes
    <3>5. QED
      BY <1>1, <3>1, <3>2, <3>3, <3>4 DEF RunInv, CallBound
  <2>2. CASE CloserDone(c)
    <3>1. closer' = [closer EXCEPT ![c] = "done"] /\ closer[c] = "closing"
      BY <2>2 DEF CloserDone
    <3>2. \A d \in Closers : closer[d] = "queued" => closer'[d] = "queued"
      BY <3>1 DEF TypeOK, RuntimeTypes
    <3>3. call.st = "stopping" => <<"confirm", call.from>> \in Closers
      BY DEF TypeOK, CallTypes, NoCall, Closers
    <3>4. QED
      BY <1>1, <2>2, <3>2, <3>3 DEF CloserDone, RunInv, CallBound
  <2>3. QED
    BY <2>1, <2>2 DEF CloserStep
<1>6. QED
  BY <1>2, <1>3, <1>4, <1>5 DEF RunInv

LEMMA CallStepRun ==
  ASSUME TypeOK, RunInv, CallStep
  PROVE  RunInv'
<1> USE DEF workVars, turnVars, rtVars, jobVars
<1>1. UNCHANGED <<work, reply, job, jobHarness, nonce, harness, dead, victim, policySession>>
  BY DEF CallStep, DispatchBegin, DispatchApprove, DispatchDrop, DispatchRefuse, DispatchStopped,
         DispatchGivesUp, DispatchRaises
<1>2. JobOnce'
  BY <1>1 DEF RunInv, JobOnce
<1>3. ASSUME closer' = closer PROVE CloserOnce' /\ RuntimesHeld'
  BY <1>1, <1>3 DEF RunInv, CloserOnce, RuntimesHeld, Held
<1>4. ASSUME NEW t \in Tasks, DispatchBegin(t) PROVE closer' = closer /\ CallBound'
  <2>1. closer' = closer /\ call'.st = "asking" /\ call'.from = t /\ jobHarness[t] = nonce
    BY <1>4 DEF DispatchBegin
  <2>2. QED
    BY <1>1, <2>1 DEF RunInv, RuntimesHeld, CallBound
<1>5. CASE DispatchApprove \/ DispatchDrop \/ DispatchStopped \/ DispatchRaises
  <2>1. closer' = closer /\ call' = NoCall
    BY <1>5 DEF DispatchApprove, DispatchDrop, DispatchStopped, DispatchRaises
  <2>2. QED
    BY <1>1, <1>2, <1>3, <2>1 DEF RunInv, CallBound, NoCall
<1>6. CASE DispatchGivesUp
  <2>1. /\ closer' = closer /\ call.st = "stopping" /\ call # NoCall
        /\ call' = [call EXCEPT !.st = "late"]
    BY <1>6 DEF DispatchGivesUp, NoCall
  <2>2. call'.st = "late" /\ call'.from = call.from
    BY <2>1 DEF TypeOK, CallTypes
  <2>3. CallBound'
    BY <1>1, <2>1, <2>2 DEF RunInv, CallBound
  <2>4. QED
    BY <1>2, <1>3, <2>1, <2>3 DEF RunInv
<1>7. CASE DispatchRefuse
  <2>1. /\ closer' = [closer EXCEPT ![<<"confirm", call.from>>] = "queued"]
        /\ call.st = "asking" /\ call' = [call EXCEPT !.st = "stopping"] /\ call # NoCall
        /\ closer[<<"confirm", call.from>>] = "idle"
    BY <1>7 DEF DispatchRefuse, StartCloser, NoCall
  <2>2. call.from \in Tasks /\ call'.st = "stopping" /\ call'.from = call.from
    BY <2>1 DEF TypeOK, CallTypes
  <2>3. CloserOnce'
    BY <1>1, <2>1, <2>2 DEF RunInv, CloserOnce, TypeOK, RuntimeTypes, Closers
  <2>4. \A c \in Closers : closer[c] = "closing" => closer'[c] = "closing"
    BY <2>1, <2>2 DEF TypeOK, RuntimeTypes
  <2>5. RuntimesHeld'
    BY <1>1, <2>4 DEF RunInv, RuntimesHeld, Held
  <2>6. CallBound'
    <3>1. closer'[<<"confirm", call.from>>] = "queued"
      BY <2>1, <2>2 DEF TypeOK, RuntimeTypes, Closers
    <3>2. QED
      BY <1>1, <2>1, <2>2, <3>1 DEF RunInv, CallBound
  <2>7. QED
    BY <1>2, <2>3, <2>5, <2>6 DEF RunInv
<1>8. QED
  BY <1>2, <1>3, <1>4, <1>5, <1>6, <1>7 DEF CallStep, RunInv

(* The runtimes stay in reach, in every reachable state. *)
THEOREM RunCorrect == Spec => []RunInv
<1>1. Init => RunInv
  BY TaskAssumption
  DEF Init, RunInv, JobOnce, CloserOnce, RuntimesHeld, CallBound, NoCall, Closers
<1>2. TypeOK /\ TurnInv /\ RunInv /\ [Next]_vars => RunInv'
  <2> SUFFICES ASSUME TypeOK, TurnInv, RunInv, [Next]_vars PROVE RunInv'
    OBVIOUS
  <2>1. ASSUME NEW t \in Tasks, WorkStep(t) PROVE RunInv'
    BY <2>1, WorkStepEffect, WorkStepRun DEF TurnInv
  <2>2. ASSUME NEW t \in Tasks, ReplyStep(t) \/ JobStep(t) PROVE RunInv'
    BY <2>2, ReplyStepRun, JobStepRun
  <2>3. ASSUME NEW c \in Closers, CloserStep(c) PROVE RunInv'
    BY <2>3, CloserStepRun
  <2>4. CASE CallStep
    BY <2>4, CallStepRun
  <2>5. ASSUME UNCHANGED vars PROVE RunInv'
    BY <2>5
    DEF vars, workVars, turnVars, rtVars, jobVars, callVars, RunInv, JobOnce, CloserOnce,
        RuntimesHeld, Held, CallBound
  <2>6. QED
    BY <2>1, <2>2, <2>3, <2>4, <2>5 DEF Next, Quiescent
<1>3. QED
  BY <1>1, <1>2, TypeCorrect, TurnInvariant, PTL DEF Spec

(* RunReachable: no run escapes the closers of the bridge. *)
THEOREM RunReachableCorrect == Spec => []RunReachable
<1>1. RunInv => RunReachable
  BY DEF RunInv, JobOnce, RuntimesHeld, Held, RunReachable
<1>2. QED
  BY <1>1, RunCorrect, PTL

(* RefusedRunLosesRuntime: a refusal returns to a run that has lost its runtime *)
(* (_confirm_from_tool).                                                        *)
THEOREM RefusalCorrect == Spec => RefusedRunLosesRuntime
<1> DEFINE Lost == call.st = "stopping" /\ call'.st = "idle" =>
                     jobHarness[call.from] \in dead \cup {victim[c] : c \in Closers}
<1>1. TypeOK /\ RunInv /\ [Next]_vars => [Lost]_vars
  <2> SUFFICES ASSUME TypeOK, RunInv, [Next]_vars, call.st = "stopping", call'.st = "idle"
               PROVE  jobHarness[call.from] \in dead \cup {victim[c] : c \in Closers}
    OBVIOUS
  <2>1. ASSUME NEW t \in Tasks, WorkStep(t) \/ ReplyStep(t) \/ JobStep(t) PROVE call' = call
    BY <2>1 DEF WorkStep, Submit, Start, Stop, AbortReturn, Gathered, ReplyDone, Deliver, GiveUp,
           ReplyStep, TurnStart, BeginTurn, RecoveryFails, RecoveryStopped, Resume, TurnClosed,
           JobStep, PickJob, BindJob, RunEnds, BindFails, callVars
  <2>2. ASSUME NEW c \in Closers, CloserStep(c) PROVE call' = call
    BY <2>2 DEF CloserStep, CloserSwap, CloserDone, callVars
  <2>3. UNCHANGED vars => call' = call
    BY DEF vars, callVars
  <2>4. DispatchStopped
    BY <2>1, <2>2, <2>3
    DEF Next, Quiescent, CallStep, DispatchBegin, DispatchApprove, DispatchDrop, DispatchRefuse,
        DispatchGivesUp, DispatchRaises, NoCall, TypeOK, CallTypes
  <2>5. call.from \in Tasks /\ call # NoCall
    BY DEF NoCall, TypeOK, CallTypes
  <2>6. jobHarness[call.from] < nonce /\ Held(jobHarness[call.from])
    BY <2>4, <2>5 DEF DispatchStopped, RunInv, CallBound, RuntimesHeld
  <2>7. QED
    BY <2>6 DEF Held, TypeOK, RuntimeTypes
<1>2. QED
  BY <1>1, TypeCorrect, RunCorrect, PTL DEF Spec, RefusedRunLosesRuntime

(***************************************************************************)
(* The end of a task.                                                      *)
(***************************************************************************)
(* An abort has its reason, a cancelled task was stopped, and what is delivered is a *)
(* reply that has ended; so a task leaves its reply behind only when a stop cuts     *)
(* the abort of another reason.                                                      *)
DrainInv ==
  /\ \A t \in Tasks :
       /\ work[t] \in {"abortRecovery", "abortRuntime"} => reason[t] # "none"
       /\ reason[t] = "cancel" => t \in stopping
       /\ work[t] = "delivering" => reply[t] = "done"
  /\ DrainedUnlessAbortCut

(* A reply that is not running is not started again, and one that ended stays ended. *)
Drains == \A t \in Tasks : /\ reply'[t] \notin {"none", "done"} => reply[t] \notin {"none", "done"}
                           /\ reply[t] = "done" => reply'[t] = "done"

LEMMA CancelDrains ==
  ASSUME TypeOK, NEW t \in Tasks, CancelReply(t)
  PROVE  Drains
BY DEF CancelReply, EndReply, Drains, TypeOK, TurnTypes

LEMMA BeginAbortDrains ==
  ASSUME TypeOK, DrainInv, NEW t \in Tasks, NEW why \in Reason \ {"none"}, BeginAbort(t, why),
         stopping' \in {stopping, stopping \cup {t}}, why = "cancel" => t \in stopping'
  PROVE  DrainInv'
<1>1. Drains
  <2> DEFINE s == SessionOf[t]
             R == {q \in Tasks : SessionOf[q] = s /\ reply[q] \in Recovering}
  <2>1. ASSUME NEW q \in R,
               reply' = [reply EXCEPT ![q] = IF s \in interrupts THEN @ ELSE "recoveryCancelled"]
        PROVE  Drains
    BY <2>1 DEF Drains, Recovering, TypeOK, TurnTypes
  <2>2. ASSUME UNCHANGED reply PROVE Drains
    BY <2>2 DEF Drains
  <2>3. QED
    BY <2>1, <2>2, CancelDrains DEF BeginAbort
<1>2. /\ reason' = [reason EXCEPT ![t] = why]
      /\ \E w \in {"abortRecovery", "abortRuntime", "gathering"} : work' = [work EXCEPT ![t] = w]
  BY DEF BeginAbort
<1>3. /\ \A u \in Tasks \ {t} : reason'[u] = reason[u] /\ work'[u] = work[u]
      /\ reason'[t] = why /\ work'[t] \in {"abortRecovery", "abortRuntime", "gathering"}
  BY <1>2 DEF TypeOK, WorkTypes
<1>4. QED
  BY <1>1, <1>3 DEF DrainInv, DrainedUnlessAbortCut, Drains

(* The task ends, by the outcome o, with its reply where it was. *)
LEMMA SettleDrains ==
  ASSUME TypeOK, DrainInv, NEW t \in Tasks, NEW o, Settle(t, o), UNCHANGED <<reason, reply>>,
         stopping' \in {stopping, stopping \cup {t}},
         \/ reply[t] \in {"none", "done"}
         \/ t \in stopping' /\ reason[t] \in {"timeout", "stream"}
  PROVE  DrainInv'
<1>1. work'[t] = "settled" /\ \A u \in Tasks \ {t} : work'[u] = work[u]
  BY DEF Settle, TypeOK, WorkTypes
<1>2. QED
  BY <1>1 DEF DrainInv, DrainedUnlessAbortCut

LEMMA WorkStepDrains ==
  ASSUME TypeOK, StartedOnce, DrainInv, NEW t \in Tasks, WorkStep(t)
  PROVE  DrainInv'
<1> USE DEF turnVars
<1>1. CASE Submit(t)
  BY <1>1 DEF Submit, StartedOnce, DrainInv, DrainedUnlessAbortCut, TypeOK, WorkTypes
<1>2. CASE Start(t)
  <2>1. work[t] = "queued" /\ reply[t] = "none" /\ UNCHANGED <<stopping, reason>>
    BY <1>2 DEF Start, StartedOnce
  <2>2. CASE Settle(t, "failed") /\ UNCHANGED reply
    BY <2>1, <2>2, SettleDrains
  <2>3. CASE work' = [work EXCEPT ![t] = "replying"] /\ reply' = [reply EXCEPT ![t] = "turnwait"]
    BY <2>1, <2>3 DEF DrainInv, DrainedUnlessAbortCut, TypeOK, WorkTypes, TurnTypes
  <2>4. QED
    BY <1>2, <2>2, <2>3 DEF Start
<1>3. ASSUME NEW why \in GiveUps, GiveUp(t, why) PROVE DrainInv'
  <2>1. why \in Reason \ {"none"} /\ why # "cancel" /\ stopping' = stopping
    BY <1>3, TaskAssumption DEF GiveUp, Reason
  <2>2. QED
    BY <1>3, <2>1, BeginAbortDrains DEF GiveUp
<1>4. CASE Stop(t)
  <2>1. stopping' = stopping \cup {t} /\ t \notin stopping
    BY <1>4 DEF Stop
  <2>2. ASSUME BeginAbort(t, "cancel") PROVE DrainInv'
    BY <2>1, <2>2, BeginAbortDrains DEF Reason
  <2>3. ASSUME work[t] = "gathering", reason' = [reason EXCEPT ![t] = "cancel"], CancelReply(t),
               UNCHANGED work
        PROVE  DrainInv'
    BY <2>1, <2>3, CancelDrains DEF DrainInv, DrainedUnlessAbortCut, Drains, TypeOK, WorkTypes
  <2>4. ASSUME work[t] \in {"queued", "abortRecovery", "abortRuntime", "delivering"}
                 \/ (work[t] = "replying" /\ reply[t] = "done"),
               Settle(t, "cancelled"), UNCHANGED <<reason, reply>>
        PROVE  DrainInv'
    <3>1. reply[t] \in {"none", "done"} \/ reason[t] \in {"timeout", "stream"}
      BY <2>1, <2>4 DEF StartedOnce, DrainInv, TypeOK, WorkTypes, Reason
    <3>2. QED
      BY <2>1, <2>4, <3>1, SettleDrains
  <2>5. QED
    BY <1>4, <2>2, <2>3, <2>4 DEF Stop
<1>5. CASE AbortReturn(t)
  BY <1>5, CancelDrains
  DEF AbortReturn, DrainInv, DrainedUnlessAbortCut, Drains, TypeOK, WorkTypes
<1>6. CASE Gathered(t) \/ Deliver(t)
  BY <1>6, SettleDrains DEF Gathered, Deliver, DrainInv
<1>7. CASE ReplyDone(t)
  <2>1. reply[t] = "done" /\ UNCHANGED <<stopping, reason, reply>>
    BY <1>7 DEF ReplyDone
  <2>2. CASE work' = [work EXCEPT ![t] = "delivering"]
    BY <2>1, <2>2 DEF DrainInv, DrainedUnlessAbortCut, TypeOK, WorkTypes
  <2>3. ASSUME NEW o, Settle(t, o) PROVE DrainInv'
    BY <2>1, <2>3, SettleDrains
  <2>4. QED
    BY <1>7, <2>2, <2>3 DEF ReplyDone
<1>8. QED
  BY <1>1, <1>2, <1>3, <1>4, <1>5, <1>6, <1>7 DEF WorkStep

(* DrainedUnlessAbortCut: a task settles with its reply still draining only if a stop   *)
(* interrupted an abort that a timeout or a lost stream had begun (application.py).     *)
THEOREM DrainCorrect == Spec => []DrainedUnlessAbortCut
<1>1. Init => DrainInv
  BY DEF Init, DrainInv, DrainedUnlessAbortCut
<1>2. TypeOK /\ TurnInv /\ DrainInv /\ [Next]_vars => DrainInv'
  <2> SUFFICES ASSUME TypeOK, TurnInv, DrainInv, [Next]_vars PROVE DrainInv'
    OBVIOUS
  <2>1. ASSUME NEW t \in Tasks, WorkStep(t) PROVE DrainInv'
    BY <2>1, WorkStepDrains DEF TurnInv
  <2>2. ASSUME UNCHANGED <<work, stopping, reason>>, Drains PROVE DrainInv'
    BY <2>2 DEF DrainInv, DrainedUnlessAbortCut, Drains
  <2>3. ASSUME NEW t \in Tasks, ReplyStep(t) PROVE DrainInv'
    <3>1. UNCHANGED <<work, stopping, reason>>
      BY <2>3 DEF ReplyStep, TurnStart, BeginTurn, RecoveryFails, RecoveryStopped, Resume,
             TurnClosed, workVars
    <3>2. /\ reply[t] \notin {"none", "done"}
          /\ \A u \in Tasks \ {t} : reply'[u] = reply[u]
      BY <2>3 DEF ReplyStep, TurnStart, BeginTurn, RecoveryFails, RecoveryStopped, Resume,
             TurnClosed, EndReply, TypeOK, TurnTypes
    <3>3. QED
      BY <2>2, <3>1, <3>2 DEF Drains
  <2>4. ASSUME UNCHANGED <<workVars, reply>> PROVE DrainInv'
    BY <2>2, <2>4 DEF Drains, workVars
  <2>5. ASSUME NEW t \in Tasks, JobStep(t) PROVE DrainInv'
    BY <2>4, <2>5 DEF JobStep, PickJob, BindJob, RunEnds, BindFails, turnVars
  <2>6. ASSUME NEW c \in Closers, CloserStep(c) PROVE DrainInv'
    BY <2>4, <2>6 DEF CloserStep, CloserSwap, CloserDone, turnVars
  <2>7. CASE CallStep
    BY <2>4, <2>7 DEF CallStep, DispatchBegin, DispatchApprove, DispatchDrop, DispatchRefuse,
           DispatchStopped, DispatchGivesUp, DispatchRaises, turnVars
  <2>8. CASE UNCHANGED vars
    BY <2>4, <2>8 DEF vars, turnVars
  <2>9. QED
    BY <2>1, <2>3, <2>5, <2>6, <2>7, <2>8 DEF Next, Quiescent
<1>3. DrainInv => DrainedUnlessAbortCut
  BY DEF DrainInv
<1>4. QED
  BY <1>1, <1>2, <1>3, TypeCorrect, TurnInvariant, PTL DEF Spec

(***************************************************************************)
(* Whom a dispatch is approved for.                                        *)
(***************************************************************************)
Waits == {"abortRecovery", "abortRuntime", "gathering"}

(* A run that has not ended is that of the turn that waits for it, or its task was aborted. *)
JobServed ==
  \A t \in Tasks :
    /\ job[t] \in {"queued", "picked", "running"} => reply[t] = "executing" \/ reason[t] # "none"
    /\ work[t] \in Waits => reason[t] # "none"

(* A run left by an SDK call that raised is that of the turn that is about to take this, of *)
(* one that closes its runtime, or it is left behind.                                       *)
RaisedServed ==
  \A t \in Tasks : job[t] = "raised" /\ jobHarness[t] = nonce =>
    \/ reason[t] # "none"
    \/ reply[t] \in {"executing", "failing"}
    \/ reply[t] = "done" /\ result[t] = "interrupted"

(* A failing turn closes the runtime of its run before it ends. *)
FailingCloses ==
  \A t \in Tasks : reply[t] = "failing" =>
    job[t] = "raised" /\ (closer[<<"turn", t>>] = "queued" \/ jobHarness[t] < nonce)

(* The run behind a call is that of the call's task, or was left behind. *)
CallServed == call # NoCall /\ call.from # call.task => LeftBehind(call.from)

ServedInv == JobServed /\ RaisedServed /\ FailingCloses /\ CallServed

(* What a step of a task keeps of the others, and of one that it does not abort. *)
Serves ==
  \A u \in Tasks :
    /\ reason[u] # "none" => reason'[u] # "none"
    /\ reply[u] = "done" => reply'[u] = "done" /\ result'[u] = result[u]
    /\ reply[u] \in {"executing", "failing"} => reply'[u] = reply[u] \/ reason'[u] # "none"
    /\ reply'[u] = "failing" => reply[u] = "failing"
    /\ job'[u] = job[u] \/ (job[u] = "queued" /\ job'[u] = "dropped")
    /\ work'[u] \in Waits => reason'[u] # "none"

LEMMA ServesKeeps ==
  ASSUME TypeOK, ServedInv, Serves, UNCHANGED <<nonce, jobHarness, callVars>>,
         \A c \in Closers : closer[c] = "queued" => closer'[c] = "queued"
  PROVE  ServedInv'
<1>1. JobServed'
  BY DEF ServedInv, JobServed, Serves
<1>2. RaisedServed'
  BY DEF ServedInv, RaisedServed, Serves
<1>3. FailingCloses'
  BY DEF ServedInv, FailingCloses, Serves, Closers
<1>4. call # NoCall => call.from \in Tasks
  BY DEF TypeOK, CallTypes
<1>5. CallServed'
  BY <1>4 DEF ServedInv, CallServed, LeftBehind, Serves, callVars
<1>6. QED
  BY <1>1, <1>2, <1>3, <1>5 DEF ServedInv

(* A cancellation of the reply is that of its own task, which has a reason. *)
LEMMA CancelServes ==
  ASSUME TypeOK, JobServed, NEW t \in Tasks, CancelReply(t), reason'[t] # "none",
         \A u \in Tasks : reason[u] # "none" => reason'[u] # "none",
         \A u \in Tasks \ {t} : work'[u] = work[u]
  PROVE  Serves
<1>1. /\ \A u \in Tasks \ {t} : reply'[u] = reply[u] /\ job'[u] = job[u] /\ result'[u] = result[u]
      /\ job'[t] = job[t] \/ (job[t] = "queued" /\ job'[t] = "dropped")
      /\ reply[t] = "done" => reply'[t] = "done" /\ result'[t] = result[t]
      /\ reply'[t] = "failing" => reply[t] = "failing"
  BY DEF CancelReply, EndReply, TypeOK, TurnTypes, JobTypes
<1>2. QED
  BY <1>1 DEF Serves, JobServed

LEMMA BeginAbortServes ==
  ASSUME TypeOK, JobServed, NEW t \in Tasks, NEW why \in Reason \ {"none"}, BeginAbort(t, why)
  PROVE  Serves
<1> DEFINE s == SessionOf[t]
           R == {q \in Tasks : SessionOf[q] = s /\ reply[q] \in Recovering}
<1>1. /\ reason'[t] # "none" /\ \A u \in Tasks \ {t} : reason'[u] = reason[u]
      /\ \A u \in Tasks \ {t} : work'[u] = work[u]
  BY DEF BeginAbort, TypeOK, WorkTypes
<1>2. ASSUME NEW q \in R, UNCHANGED <<job, result>>,
             reply' = [reply EXCEPT ![q] = IF s \in interrupts THEN @ ELSE "recoveryCancelled"]
      PROVE  Serves
  <2>1. /\ reply[q] \in Recovering
        /\ \A u \in Tasks \ {q} : reply'[u] = reply[u]
    BY <1>2 DEF TypeOK, TurnTypes
  <2>2. QED
    BY <1>1, <1>2, <2>1 DEF Serves, JobServed, Recovering
<1>3. ASSUME UNCHANGED <<reply, result, job>> PROVE Serves
  BY <1>1, <1>3 DEF Serves, JobServed
<1>4. ASSUME CancelReply(t) PROVE Serves
  BY <1>1, <1>4, CancelServes
<1>5. QED
  BY <1>2, <1>3, <1>4 DEF BeginAbort

LEMMA WorkStepServes ==
  ASSUME TypeOK, StartedOnce, JobServed, NEW t \in Tasks, WorkStep(t)
  PROVE  Serves
<1>1. ASSUME UNCHANGED <<reason, reply, result, job>>,
             \A u \in Tasks : work'[u] \in Waits => work[u] \in Waits
      PROVE  Serves
  BY <1>1 DEF Serves, JobServed
<1>2. CASE Submit(t) \/ Gathered(t) \/ ReplyDone(t) \/ Deliver(t)
  <2>1. UNCHANGED <<reason, reply, result, job>>
    BY <1>2 DEF Submit, Gathered, ReplyDone, Deliver, turnVars, jobVars
  <2>2. \A u \in Tasks : work'[u] \in Waits => work[u] \in Waits
    BY <1>2 DEF Submit, Gathered, ReplyDone, Deliver, Settle, Waits, TypeOK, WorkTypes
  <2>3. QED
    BY <1>1, <2>1, <2>2
<1>3. CASE Start(t)
  <2>1. reply[t] = "none" /\ UNCHANGED <<reason, result, job>>
    BY <1>3 DEF Start, StartedOnce, jobVars
  <2>2. reply'[t] # "failing" /\ \A u \in Tasks : reply'[u] = reply[u] \/ u = t
    BY <1>3, <2>1 DEF Start, TypeOK, TurnTypes
  <2>3. \A u \in Tasks : work'[u] \in Waits => work[u] \in Waits
    BY <1>3 DEF Start, Settle, Waits, TypeOK, WorkTypes
  <2>4. QED
    BY <2>1, <2>2, <2>3 DEF Serves, JobServed
<1>4. ASSUME NEW why \in GiveUps, GiveUp(t, why) PROVE Serves
  <2>1. why \in Reason \ {"none"}
    BY <1>4 DEF GiveUp, Reason
  <2>2. QED
    BY <1>4, <2>1, BeginAbortServes DEF GiveUp
<1>5. CASE Stop(t)
  <2>1. ASSUME BeginAbort(t, "cancel") PROVE Serves
    BY <2>1, BeginAbortServes DEF Reason
  <2>2. ASSUME reason' = [reason EXCEPT ![t] = "cancel"], CancelReply(t), UNCHANGED work
        PROVE  Serves
    BY <2>2, CancelServes DEF TypeOK, WorkTypes
  <2>3. ASSUME Settle(t, "cancelled"), UNCHANGED <<reason, reply, result, job>> PROVE Serves
    BY <1>1, <2>3 DEF Settle, Waits, TypeOK, WorkTypes
  <2>4. QED
    BY <1>5, <2>1, <2>2, <2>3 DEF Stop
<1>6. CASE AbortReturn(t)
  <2>1. reason[t] # "none" /\ UNCHANGED reason /\ CancelReply(t)
    BY <1>6 DEF AbortReturn, JobServed, Waits
  <2>2. \A u \in Tasks \ {t} : work'[u] = work[u]
    BY <1>6 DEF AbortReturn, TypeOK, WorkTypes
  <2>3. QED
    BY <2>1, <2>2, CancelServes
<1>7. QED
  BY <1>2, <1>3, <1>4, <1>5, <1>6 DEF WorkStep

(* A turn leaves its run only when that has ended, and keeps its runtime only when it was stopped. *)
LEMMA ReplyStepServed ==
  ASSUME TypeOK, RunInv, ServedInv, NEW t \in Tasks, ReplyStep(t)
  PROVE  ServedInv'
<1>1. UNCHANGED <<work, reason, nonce, jobHarness, callVars>>
  BY DEF ReplyStep, TurnStart, BeginTurn, RecoveryFails, RecoveryStopped, Resume, TurnClosed,
         workVars, rtVars, jobVars
<1>2. /\ reply[t] # "done"
      /\ \A u \in Tasks \ {t} : reply'[u] = reply[u] /\ result'[u] = result[u] /\ job'[u] = job[u]
  BY DEF ReplyStep, TurnStart, BeginTurn, RecoveryFails, RecoveryStopped, Resume, TurnClosed,
         EndReply, jobVars, TypeOK, TurnTypes, JobTypes
<1>3. CallServed'
  <2>1. call # NoCall => call.from \in Tasks
    BY DEF TypeOK, CallTypes
  <2>2. QED
    BY <1>1, <1>2, <2>1 DEF ServedInv, CallServed, LeftBehind, callVars
<1>4. JobServed'
  <2>1. \/ reply'[t] = "executing"
        \/ job'[t] = job[t] /\ (reply[t] = "executing" => job[t] \in {"returned", "raised"})
    BY DEF ReplyStep, TurnStart, BeginTurn, RecoveryFails, RecoveryStopped, Resume, TurnClosed,
           jobVars, TypeOK, TurnTypes
  <2>2. QED
    BY <1>1, <1>2, <2>1 DEF ServedInv, JobServed
<1>5. \A c \in Closers : closer[c] = "queued" => closer'[c] = "queued"
  BY DEF ReplyStep, TurnStart, BeginTurn, RecoveryFails, RecoveryStopped, Resume, TurnClosed,
         rtVars, StartCloser, TypeOK, RuntimeTypes
<1>6. CASE TurnStart(t) \/ BeginTurn(t) \/ RecoveryFails(t) \/ RecoveryStopped(t)
  <2>1. job[t] = "none" /\ job'[t] # "raised" /\ reply'[t] # "failing"
    BY <1>6 DEF TurnStart, BeginTurn, RecoveryFails, RecoveryStopped, EndReply, jobVars, RunInv,
           JobOnce, Recovering, TypeOK, TurnTypes, JobTypes
  <2>2. RaisedServed'
    BY <1>1, <1>2, <2>1 DEF ServedInv, RaisedServed
  <2>3. FailingCloses'
    BY <1>1, <1>2, <1>5, <2>1 DEF ServedInv, FailingCloses, Closers
  <2>4. QED
    BY <1>3, <1>4, <2>2, <2>3 DEF ServedInv
<1>7. CASE Resume(t)
  <2>1. /\ job' = job /\ reply[t] = "executing"
        /\ job[t] = "raised" =>
             \/ reply'[t] = "done" /\ result'[t] = "interrupted"
             \/ reply'[t] = "failing"
        /\ reply'[t] = "failing" => job[t] = "raised" /\ closer'[<<"turn", t>>] = "queued"
    BY <1>7 DEF Resume, EndReply, StartCloser, LeaveOperation, jobVars, Closers, TypeOK, TurnTypes,
           JobTypes, RuntimeTypes
  <2>2. RaisedServed'
    BY <1>1, <1>2, <2>1 DEF ServedInv, RaisedServed
  <2>3. FailingCloses'
    BY <1>1, <1>2, <1>5, <2>1 DEF ServedInv, FailingCloses, Closers
  <2>4. QED
    BY <1>3, <1>4, <2>2, <2>3 DEF ServedInv
<1>8. CASE TurnClosed(t)
  <2>1. /\ job' = job /\ closer[<<"turn", t>>] = "done"
        /\ reply[t] \in {"failing", "cancelRotate", "cancelOnly", "teardown"}
        /\ reply'[t] = "done"
    BY <1>8 DEF TurnClosed, EndReply, jobVars, TypeOK, TurnTypes
  <2>2. jobHarness[t] \in Nat /\ nonce \in Nat
    BY DEF TypeOK, JobTypes, RuntimeTypes
  <2>3. RaisedServed'
    BY <1>1, <1>2, <2>1, <2>2 DEF ServedInv, RaisedServed, FailingCloses
  <2>4. FailingCloses'
    BY <1>1, <1>2, <1>5, <2>1 DEF ServedInv, FailingCloses, Closers
  <2>5. QED
    BY <1>3, <1>4, <2>3, <2>4 DEF ServedInv
<1>9. QED
  BY <1>6, <1>7, <1>8 DEF ReplyStep

LEMMA JobStepServed ==
  ASSUME TypeOK, RunInv, ServedInv, NEW t \in Tasks, JobStep(t)
  PROVE  ServedInv'
<1>1. UNCHANGED <<work, reason, reply, result, nonce, closer, callVars>>
  BY DEF JobStep, PickJob, BindJob, RunEnds, BindFails, workVars, turnVars, rtVars
<1>2. /\ job[t] \in {"queued", "picked", "running"}
      /\ \A u \in Tasks \ {t} : job'[u] = job[u] /\ jobHarness'[u] = jobHarness[u]
  BY DEF JobStep, PickJob, BindJob, RunEnds, BindFails, jobVars, TypeOK, JobTypes
<1>3. JobServed'
  BY <1>1, <1>2 DEF ServedInv, JobServed
<1>4. RaisedServed'
  BY <1>1, <1>2 DEF ServedInv, JobServed, RaisedServed
<1>5. FailingCloses'
  BY <1>1, <1>2 DEF ServedInv, FailingCloses
<1>6. CallServed'
  <2>1. ASSUME call # NoCall, LeftBehind(call.from) PROVE LeftBehind(call.from)'
    <3>1. call.from \in Tasks
      BY <2>1 DEF TypeOK, CallTypes
    <3>2. QED
      BY <1>1, <1>2, <2>1, <3>1 DEF LeftBehind, callVars
  <2>2. QED
    BY <1>1, <2>1 DEF ServedInv, CallServed, callVars
<1>7. QED
  BY <1>3, <1>4, <1>5, <1>6 DEF ServedInv

(* A closer outdates every runtime a run was bound to. *)
LEMMA CloserStepServed ==
  ASSUME TypeOK, RunInv, ServedInv, NEW c \in Closers, CloserStep(c)
  PROVE  ServedInv'
<1>1. UNCHANGED <<work, reason, reply, result, job, jobHarness, callVars>>
  BY DEF CloserStep, CloserSwap, CloserDone, workVars, turnVars, jobVars
<1>2. JobServed' /\ CallServed'
  BY <1>1 DEF ServedInv, JobServed, CallServed, LeftBehind, callVars
<1>3. CASE CloserSwap(c)
  <2>1. nonce' = nonce + 1 /\ nonce \in Nat
    BY <1>3 DEF CloserSwap, TypeOK, RuntimeTypes
  <2>2. \A t \in Tasks : jobHarness'[t] \in Nat /\ jobHarness'[t] < nonce'
    BY <1>1, <2>1 DEF RunInv, RuntimesHeld, TypeOK, JobTypes
  <2>3. RaisedServed' /\ FailingCloses'
    BY <1>1, <2>1, <2>2 DEF ServedInv, RaisedServed, FailingCloses
  <2>4. QED
    BY <1>2, <2>3 DEF ServedInv
<1>4. CASE CloserDone(c)
  <2>1. nonce' = nonce /\ \A d \in Closers : closer[d] = "queued" => closer'[d] = "queued"
    BY <1>4 DEF CloserDone, TypeOK, RuntimeTypes
  <2>2. RaisedServed' /\ FailingCloses'
    BY <1>1, <2>1 DEF ServedInv, RaisedServed, FailingCloses, Closers
  <2>3. QED
    BY <1>2, <2>2 DEF ServedInv
<1>5. QED
  BY <1>3, <1>4 DEF CloserStep

(* A call is taken for the active task: of a run that is not its, the turn has ended. *)
LEMMA CallStepServed ==
  ASSUME TypeOK, TurnInv, JobOnce, ServedInv, CallStep
  PROVE  ServedInv'
<1> USE DEF workVars, turnVars, rtVars, jobVars
<1>1. UNCHANGED <<work, reason, reply, result, job, jobHarness, nonce>>
  BY DEF CallStep, DispatchBegin, DispatchApprove, DispatchDrop, DispatchRefuse, DispatchStopped,
         DispatchGivesUp, DispatchRaises
<1>2. \A c \in Closers : closer[c] = "queued" => closer'[c] = "queued"
  BY DEF CallStep, DispatchBegin, DispatchApprove, DispatchDrop, DispatchRefuse, DispatchStopped,
         DispatchGivesUp, DispatchRaises, StartCloser, TypeOK, RuntimeTypes
<1>3. JobServed' /\ RaisedServed'
  BY <1>1 DEF ServedInv, JobServed, RaisedServed
<1>4. FailingCloses'
  BY <1>1, <1>2 DEF ServedInv, FailingCloses, Closers
<1>5. CallServed'
  <2>1. ASSUME NEW t \in Tasks, DispatchBegin(t) PROVE CallServed'
    <3>1. /\ call'.from = t /\ call'.task = activeTask
          /\ job[t] \in {"running", "raised"} /\ jobHarness[t] = nonce /\ activeTask \in Tasks
      BY <2>1 DEF DispatchBegin, TypeOK, TurnTypes
    <3>2. reply[activeTask] \in InOperation
      BY <3>1 DEF TurnInv, ActiveOperates
    <3>3. ASSUME t # activeTask PROVE LeftBehind(t)
      <4>1. reply[t] \notin InTurn
        BY <3>1, <3>2, <3>3 DEF TurnInv, OneTurn, InTurn
      <4>2. reply[t] \notin {"none", "turnwait"}
        BY <3>1 DEF JobOnce
      <4>3. reply[t] \in ReplyState
        BY DEF TypeOK, TurnTypes
      <4>4. reply[t] = "done"
        BY <4>1, <4>2, <4>3 DEF InTurn, InOperation, ReplyState
      <4>5. QED
        BY <3>1, <4>4 DEF ServedInv, JobServed, RaisedServed, LeftBehind
    <3>4. QED
      BY <1>1, <3>1, <3>3 DEF CallServed, LeftBehind
  <2>2. CASE DispatchApprove \/ DispatchDrop \/ DispatchStopped \/ DispatchRaises
    BY <2>2 DEF DispatchApprove, DispatchDrop, DispatchStopped, DispatchRaises, CallServed
  <2>3. CASE DispatchRefuse \/ DispatchGivesUp
    <3>1. /\ call # NoCall
          /\ \E st \in {"stopping", "late"} : call' = [call EXCEPT !.st = st]
      BY <2>3 DEF DispatchRefuse, DispatchGivesUp, NoCall
    <3>2. call'.from = call.from /\ call'.task = call.task
      BY <3>1 DEF TypeOK, CallTypes
    <3>3. QED
      BY <1>1, <3>1, <3>2 DEF ServedInv, CallServed, LeftBehind
  <2>4. QED
    BY <2>1, <2>2, <2>3 DEF CallStep
<1>6. QED
  BY <1>3, <1>4, <1>5 DEF ServedInv

(* In every reachable state, a run that is unfinished, or that a raised SDK call left on the  *)
(* bridge's runtime, is that of the turn that waits for it or fails with it, or its task was   *)
(* aborted or took a stop mark for its own; and so for the call that is pending (_reply_impl). *)
THEOREM ServedCorrect == Spec => []ServedInv
<1>1. Init => ServedInv
  BY DEF Init, ServedInv, JobServed, RaisedServed, FailingCloses, CallServed, Waits
<1>2. TypeOK /\ TurnInv /\ RunInv /\ ServedInv /\ [Next]_vars => ServedInv'
  <2> SUFFICES ASSUME TypeOK, TurnInv, RunInv, ServedInv, [Next]_vars PROVE ServedInv'
    OBVIOUS
  <2>1. ASSUME NEW t \in Tasks, WorkStep(t) PROVE ServedInv'
    <3>1. WorkEffect(t) /\ Serves
      BY <2>1, WorkStepEffect, WorkStepServes DEF TurnInv, ServedInv
    <3>2. \A c \in Closers : closer[c] = "queued" => closer'[c] = "queued"
      BY <3>1 DEF WorkEffect, TypeOK, RuntimeTypes
    <3>3. QED
      BY <3>1, <3>2, ServesKeeps DEF WorkEffect
  <2>2. ASSUME NEW t \in Tasks, ReplyStep(t) \/ JobStep(t) PROVE ServedInv'
    BY <2>2, ReplyStepServed, JobStepServed
  <2>3. ASSUME NEW c \in Closers, CloserStep(c) PROVE ServedInv'
    BY <2>3, CloserStepServed
  <2>4. CASE CallStep
    BY <2>4, CallStepServed DEF RunInv
  <2>5. CASE UNCHANGED vars
    BY <2>5 DEF vars, workVars, turnVars, rtVars, jobVars, callVars, ServedInv, JobServed,
           RaisedServed, FailingCloses, CallServed, LeftBehind
  <2>6. QED
    BY <2>1, <2>2, <2>3, <2>4, <2>5 DEF Next, Quiescent
<1>3. QED
  BY <1>1, <1>2, TypeCorrect, TurnInvariant, RunCorrect, PTL DEF Spec

(* ApprovalReachesItsRun: a decision that was pending while a closer took the runtime is never *)
(* returned as an approval, and one for another task only goes to a run left behind by a turn  *)
(* that has ended: it was aborted, or its SDK call raised and it took a stop mark for its own  *)
(* (_authorize_dispatch).                                                                      *)
THEOREM ApprovalCorrect == Spec => ApprovalReachesItsRun
<1> DEFINE Kept == \A a \in approvals' \ approvals :
                     /\ harness /\ jobHarness[a[1]] = nonce
                     /\ a[1] # a[2] => LeftBehind(a[1])
<1>1. TypeOK /\ RunInv /\ ServedInv /\ [Next]_vars => [Kept]_vars
  <2> SUFFICES ASSUME TypeOK, RunInv, ServedInv, [Next]_vars PROVE Kept
    OBVIOUS
  <2>1. ASSUME NEW t \in Tasks, WorkStep(t) \/ ReplyStep(t) \/ JobStep(t)
        PROVE  approvals' = approvals
    BY <2>1 DEF WorkStep, Submit, Start, Stop, AbortReturn, Gathered, ReplyDone, Deliver, GiveUp,
           ReplyStep, TurnStart, BeginTurn, RecoveryFails, RecoveryStopped, Resume, TurnClosed,
           JobStep, PickJob, BindJob, RunEnds, BindFails, callVars
  <2>2. ASSUME NEW c \in Closers, CloserStep(c) PROVE approvals' = approvals
    BY <2>2 DEF CloserStep, CloserSwap, CloserDone, callVars
  <2>3. CASE DispatchApprove
    <3>1. CASE CallLive
      <4>1. approvals' = approvals \cup {<<call.from, call.task>>}
        BY <2>3, <3>1 DEF DispatchApprove
      <4>2. harness /\ jobHarness[call.from] = nonce
        BY <3>1 DEF CallLive, Sid, NoSid, RunInv, CallBound
      <4>3. call.from # call.task => LeftBehind(call.from)
        BY <2>3 DEF DispatchApprove, ServedInv, CallServed, NoCall
      <4>4. QED
        BY <4>1, <4>2, <4>3
    <3>2. CASE ~CallLive
      BY <2>3, <3>2 DEF DispatchApprove
    <3>3. QED
      BY <3>1, <3>2
  <2>4. CASE CallStep /\ ~DispatchApprove
    BY <2>4 DEF CallStep, DispatchBegin, DispatchDrop, DispatchRefuse, DispatchStopped,
           DispatchGivesUp, DispatchRaises
  <2>5. CASE UNCHANGED vars
    BY <2>5 DEF vars, callVars
  <2>6. QED
    BY <2>1, <2>2, <2>3, <2>4, <2>5 DEF Next, Quiescent
<1>2. QED
  BY <1>1, TypeCorrect, RunCorrect, ServedCorrect, PTL DEF Spec, ApprovalReachesItsRun
=============================================================================
