------------------------- MODULE CommandQueue_proofs -------------------------
(***************************************************************************)
(* Proofs about CommandQueue.tla, for any workers, any finite set of       *)
(* commands, and any leases, windows and number of faults.                 *)
(***************************************************************************)
EXTENDS CommandQueue, FiniteSetTheorems, TLAPS

(***************************************************************************)
(* Types.                                                                  *)
(***************************************************************************)
LEMMA InitType == Init => TypeOK
BY DEF Init, TypeOK, RowTypes, WorkerTypes

(* The steps of the Local Supervisor, and what they leave alone. *)
Supervises(c) == Serves(c) \/ SupervisorLeaves(c)

LEMMA SupervisesFrame ==
  ASSUME NEW c \in Commands, Supervises(c)
  PROVE  /\ UNCHANGED <<rowVars, workerVars, stale>>
         /\ carried' = carried \/ carried' = [carried EXCEPT ![c] = More(@)]
BY DEF Supervises, Serves, SupervisorClaims, SupervisorActs, SupervisorAnswers, SupervisorRemoves,
       SupervisorRecovers, SupervisorLeaves

(* What a step of the store or of the Supervisor's files leaves of the types. *)
LEMMA EnqueueType ==
  ASSUME TypeOK, NEW c \in Commands, Enqueue(c)
  PROVE  TypeOK'
<1>1. Cardinality({d \in Commands : status[d] # "none"}) \in Nat
  BY QueueAssumption, FS_Subset, FS_CardinalityType
<1>2. RowTypes'
  BY <1>1 DEF TypeOK, RowTypes, Enqueue, fileVars
<1>3. WorkerTypes'
  BY DEF TypeOK, WorkerTypes, Enqueue, workerVars
<1>4. QED
  BY <1>2, <1>3 DEF TypeOK

LEMMA BeginType ==
  ASSUME WorkerTypes, NEW w \in Workers, NEW T \in SUBSET Commands, Begin(w, T)
  PROVE  /\ phase' \in [Workers -> Running \cup {"off", "closing", "closed", "dead"}]
         /\ current' \in [Workers -> Commands \cup {NoCommand}]
         /\ batch' \in [Workers -> SUBSET Commands] /\ spent' \in [Workers -> Nat]
<1>1. CASE T = {} /\ Proceed(w, "idle", NoCommand, {})
  BY <1>1 DEF Proceed, WorkerTypes, Running
<1>2. ASSUME NEW c \in T, Proceed(w, "executing", c, T \ {c})
      PROVE  /\ phase' \in [Workers -> Running \cup {"off", "closing", "closed", "dead"}]
             /\ current' \in [Workers -> Commands \cup {NoCommand}]
             /\ batch' \in [Workers -> SUBSET Commands] /\ spent' \in [Workers -> Nat]
  BY <1>2 DEF Proceed, WorkerTypes, Running
<1>3. QED
  BY <1>1, <1>2 DEF Begin

LEMMA CommitClaimType ==
  ASSUME TypeOK, NEW w \in Workers, CommitClaim(w)
  PROVE  TypeOK'
<1>1. PICK T \in SUBSET Claimable(w) :
        /\ status' = [c \in Commands |-> IF c \in T THEN "RUNNING"
                                         ELSE IF c \in Expired(w) THEN Returned
                                         ELSE status[c]]
        /\ owner' = [c \in Commands |-> IF c \in T THEN w
                                        ELSE IF c \in Expired(w) THEN NoWorker
                                        ELSE owner[c]]
        /\ age' = [c \in Commands |-> IF c \in T \cup Expired(w) THEN 0 ELSE age[c]]
        /\ IF phase[w] = "claiming" THEN Begin(w, T)
                                    ELSE UNCHANGED <<phase, current, batch, spent>>
  BY DEF CommitClaim
<1>2. T \in SUBSET Commands /\ Expired(w) \subseteq Commands
  BY QueueAssumption DEF Claimable, Kind, Expired
<1>3. RowTypes'
  BY <1>1, <1>2 DEF CommitClaim, TypeOK, RowTypes, Returned, fileVars
<1>4. WorkerTypes'
  <2>1. /\ phase' \in [Workers -> Running \cup {"off", "closing", "closed", "dead"}]
        /\ current' \in [Workers -> Commands \cup {NoCommand}]
        /\ batch' \in [Workers -> SUBSET Commands] /\ spent' \in [Workers -> Nat]
    BY <1>1, <1>2, BeginType DEF TypeOK, WorkerTypes
  <2>2. stale' \in [Workers -> SUBSET Commands]
    BY <1>2 DEF CommitClaim, TypeOK, WorkerTypes
  <2>3. QED
    BY <2>1, <2>2 DEF CommitClaim, TypeOK, WorkerTypes
<1>5. QED
  BY <1>3, <1>4 DEF TypeOK

LEMMA CommitCompleteType ==
  ASSUME TypeOK, NEW w \in Workers, CommitComplete(w)
  PROVE  TypeOK'
<1> USE DEF CommitComplete, TypeOK
<1>1. RowTypes'
  <2>1. status' \in [Commands -> {"none", "PENDING", "RUNNING"} \cup Final]
    BY DEF RowTypes, Final
  <2>2. response' \in [Commands -> {"none", "ok", "bad"}]
    BY DEF RowTypes
  <2>3. UNCHANGED <<created, age, owner, request, processing, carried, raced, cut>>
    OBVIOUS
  <2>4. QED
    BY <2>1, <2>2, <2>3 DEF RowTypes
<1>2. WorkerTypes'
  <2>1. /\ phase' \in [Workers -> Running \cup {"off", "closing", "closed", "dead"}]
        /\ current' \in [Workers -> Commands \cup {NoCommand}]
        /\ batch' \in [Workers -> SUBSET Commands] /\ spent' \in [Workers -> Nat]
    <3>1. CASE phase[w] = "completing"
      <4>1. batch[w] \in SUBSET Commands /\ Begin(w, batch[w])
        BY <3>1 DEF WorkerTypes
      <4>2. QED
        BY <4>1, BeginType
    <3>2. CASE phase[w] # "completing"
      BY <3>2 DEF WorkerTypes
    <3>3. QED
      BY <3>1, <3>2
  <2>2. QED
    BY <2>1 DEF WorkerTypes
<1>3. QED
  BY <1>1, <1>2

(* Steps of one worker that touch neither the rows nor the faults. *)
LEMMA WorkerLoopType ==
  ASSUME TypeOK, NEW w \in Workers,
         Start(w) \/ AskClaim(w) \/ BridgeExecutes(w) \/ LookForResponse(w)
           \/ Dispatch(w) \/ Await(w)
  PROVE  TypeOK'
<1> USE DEF TypeOK, rowVars, fileVars, Report, Answered
<1>1. ASSUME NEW c \in Commands \cup {NoCommand}
      PROVE  [carried EXCEPT ![c] = More(@)] \in [Commands -> {"no", "once", "again"}]
  BY QueueAssumption DEF RowTypes, More
<1>2. RowTypes'
  <2>1. CASE BridgeExecutes(w)
    <3>1. current[w] \in Commands \cup {NoCommand}
      BY DEF WorkerTypes
    <3>2. QED
      BY <1>1, <2>1, <3>1 DEF BridgeExecutes, RowTypes
  <2>2. CASE Dispatch(w)
    BY <2>2 DEF Dispatch, RowTypes
  <2>3. CASE Start(w) \/ AskClaim(w) \/ LookForResponse(w) \/ Await(w)
    BY <2>3 DEF Start, AskClaim, LookForResponse, Await, RowTypes
  <2>4. QED
    BY <2>1, <2>2, <2>3
<1>3. WorkerTypes'
  <2> USE DEF WorkerTypes, Running, Saving
  <2>1. CASE Start(w) \/ AskClaim(w)
    BY <2>1 DEF Start, AskClaim
  <2>2. CASE BridgeExecutes(w) \/ LookForResponse(w)
    BY <2>2 DEF BridgeExecutes, LookForResponse
  <2>3. CASE Dispatch(w) \/ Await(w)
    BY <2>3 DEF Dispatch, Await
  <2>4. QED
    BY <2>1, <2>2, <2>3
<1>4. QED
  BY <1>2, <1>3

LEMMA SupervisesType ==
  ASSUME TypeOK, NEW c \in Commands, Supervises(c)
  PROVE  TypeOK'
<1>1. RowTypes'
  <2> USE SupervisesFrame DEF TypeOK, RowTypes, rowVars, Serving, Done
  <2>1. CASE SupervisorClaims(c) \/ SupervisorRemoves(c) \/ SupervisorRecovers(c)
    BY <2>1 DEF SupervisorClaims, SupervisorRemoves, SupervisorRecovers
  <2>2. CASE SupervisorActs(c)
    BY <2>2 DEF SupervisorActs, More
  <2>3. CASE SupervisorAnswers(c) \/ SupervisorLeaves(c)
    BY <2>3 DEF SupervisorAnswers, SupervisorLeaves
  <2>4. QED
    BY <2>1, <2>2, <2>3 DEF Supervises, Serves
<1>2. faults' \in Nat
  BY DEF TypeOK, WorkerTypes, Supervises, Serves, SupervisorClaims, SupervisorActs,
     SupervisorAnswers, SupervisorRemoves, SupervisorRecovers, SupervisorLeaves, Fault
<1>3. QED
  BY <1>1, <1>2, SupervisesFrame DEF TypeOK, WorkerTypes, workerVars

LEMMA ReleaseType ==
  ASSUME TypeOK, NEW w \in Workers, Release(w)
  PROVE  TypeOK'
<1>1. Mine(w) \subseteq Commands
  BY QueueAssumption DEF Mine
<1>2. RowTypes'
  BY <1>1 DEF TypeOK, RowTypes, Release, fileVars, Returned
<1>3. WorkerTypes'
  BY DEF TypeOK, WorkerTypes, Release, Running
<1>4. QED
  BY <1>2, <1>3 DEF TypeOK

LEMMA FaultStepType ==
  ASSUME TypeOK, NEW w \in Workers, FaultStep(w)
  PROVE  TypeOK'
<1> USE DEF TypeOK, Fault, rowVars, fileVars
<1>1. current[w] \in Commands \cup {NoCommand}
  BY DEF WorkerTypes
<1>2. [carried EXCEPT ![current[w]] = More(@)] \in [Commands -> {"no", "once", "again"}]
  BY <1>1, QueueAssumption DEF RowTypes, More
<1>3. faults' \in Nat
  BY DEF FaultStep, StoreFails, Close, Crash, WorkerTypes
<1>4. CASE StoreFails(w)
  BY <1>3, <1>4 DEF StoreFails, RowTypes, WorkerTypes, Running
<1>5. CASE Close(w)
  BY <1>2, <1>3, <1>5 DEF Close, RowTypes, WorkerTypes, Running
<1>6. CASE Crash(w)
  BY <1>2, <1>3, <1>6 DEF Crash, RowTypes, WorkerTypes, Running
<1>7. QED
  BY <1>4, <1>5, <1>6 DEF FaultStep

LEMMA TickType ==
  ASSUME TypeOK, Tick
  PROVE  TypeOK'
BY DEF TypeOK, RowTypes, WorkerTypes, Tick, fileVars

LEMMA NextType == TypeOK /\ [Next]_vars => TypeOK'
<1> SUFFICES ASSUME TypeOK, [Next]_vars PROVE TypeOK'
  OBVIOUS
<1>1. ASSUME NEW c \in Commands, Enqueue(c) \/ Supervises(c) PROVE TypeOK'
  BY <1>1, EnqueueType, SupervisesType
<1>2. ASSUME NEW w \in Workers, WorkerStep(w) PROVE TypeOK'
  BY <1>2, WorkerLoopType, CommitClaimType, CommitCompleteType, ReleaseType
     DEF WorkerStep
<1>3. ASSUME NEW w \in Workers, FaultStep(w) PROVE TypeOK'
  BY <1>3, FaultStepType
<1>4. CASE UNCHANGED vars
  BY <1>4 DEF vars, rowVars, fileVars, workerVars, TypeOK, RowTypes, WorkerTypes
<1>5. QED
  BY <1>1, <1>2, <1>3, <1>4, TickType DEF Next, Supervises

(* Every variable keeps its type, whatever the tables and the processes do. *)
THEOREM TypeCorrect == Spec => []TypeOK
<1>1. QED
  BY InitType, NextType, PTL DEF Spec

(***************************************************************************)
(* The inductive invariant: where each worker stands, what it has in its   *)
(* hands, and what the table says of it.                                   *)
(***************************************************************************)
LEMMA InitQueue == Init => QueueInv
<1> SUFFICES ASSUME Init PROVE QueueInv
  OBVIOUS
<1>1. HandMatchesPhase /\ HeldUnlessStale
  BY DEF Init, HandMatchesPhase, HandMatches, HeldUnlessStale, InHand, Saving, Busy
<1>2. LeasesOfKind
  BY DEF Init, LeasesOfKind, Holds
<1>3. QED
  BY <1>1, <1>2 DEF QueueInv

LEMMA EnqueueQueue ==
  ASSUME TypeOK, QueueInv, NEW c \in Commands, Enqueue(c)
  PROVE  QueueInv'
<1>1. \A w \in Workers, d \in Commands : Holds(w, d)' <=> Holds(w, d)
  BY DEF Enqueue, Holds, TypeOK, RowTypes
<1>2. HandMatchesPhase'
  BY DEF QueueInv, HandMatchesPhase, HandMatches, Enqueue, workerVars, InHand
<1>3. HeldUnlessStale'
  BY <1>1 DEF QueueInv, HeldUnlessStale, Enqueue, workerVars, InHand, TypeOK, WorkerTypes
<1>4. LeasesOfKind'
  BY <1>1 DEF QueueInv, LeasesOfKind, Enqueue, workerVars
<1>5. QED
  BY <1>2, <1>3, <1>4 DEF QueueInv

(* A claim: what it takes back from others becomes stale in their hands, and *)
(* what it takes was pending or taken back, so nobody held it.               *)
LEMMA CommitClaimQueue ==
  ASSUME TypeOK, QueueInv, NEW w \in Workers, CommitClaim(w)
  PROVE  QueueInv'
<1>1. PICK T \in SUBSET Claimable(w) :
        /\ status' = [c \in Commands |-> IF c \in T THEN "RUNNING"
                                         ELSE IF c \in Expired(w) THEN Returned
                                         ELSE status[c]]
        /\ owner' = [c \in Commands |-> IF c \in T THEN w
                                        ELSE IF c \in Expired(w) THEN NoWorker
                                        ELSE owner[c]]
        /\ IF phase[w] = "claiming" THEN Begin(w, T)
                                    ELSE UNCHANGED <<phase, current, batch, spent>>
  BY DEF CommitClaim
<1>2. /\ T \subseteq Kind(w) /\ Kind(w) \subseteq Commands
      /\ \A c \in T : status[c] = "PENDING" \/ c \in Expired(w)
      /\ Expired(w) \subseteq Commands
  BY QueueAssumption DEF Claimable, Kind, Expired
<1>3. /\ thread[w] = "claim" /\ thread' = [thread EXCEPT ![w] = "none"]
      /\ stale' = [v \in Workers |-> stale[v] \cup (InHand(v) \cap Expired(w))]
  BY DEF CommitClaim
<1>4. /\ phase[w] \notin Busy /\ phase[w] \notin {"off", "idle"}
      /\ ~(phase[w] = "closed" /\ w \in Supervising)
      /\ InHand(w) = {} /\ stale[w] = {} /\ stale'[w] = {}
  <2>1. phase[w] \notin Busy /\ phase[w] \notin {"off", "idle"}
        /\ ~(phase[w] = "closed" /\ w \in Supervising)
    BY <1>3 DEF QueueInv, HandMatchesPhase, HandMatches, Saving, Busy
  <2>2. current[w] = NoCommand /\ batch[w] = {}
    BY <1>3, <2>1 DEF QueueInv, HandMatchesPhase, HandMatches, Saving
  <2>3. QED
    BY <1>3, <2>1, <2>2 DEF QueueInv, HandMatchesPhase, HandMatches, InHand
<1>5. /\ current' \in [Workers -> Commands \cup {NoCommand}]
      /\ batch' \in [Workers -> SUBSET Commands]
      /\ \A v \in Workers : v # w => /\ phase'[v] = phase[v] /\ current'[v] = current[v]
                                    /\ batch'[v] = batch[v] /\ thread'[v] = thread[v]
  <2>1. CASE phase[w] = "claiming"
    BY <1>1, <1>2, <1>3, <2>1, BeginType DEF TypeOK, WorkerTypes, Begin, Proceed
  <2>2. CASE phase[w] # "claiming"
    BY <1>1, <1>3, <2>2 DEF TypeOK, WorkerTypes
  <2>3. QED
    BY <2>1, <2>2
<1>6. /\ InHand(w)' \subseteq T /\ thread'[w] = "none" /\ phase'[w] # "completing"
      /\ phase'[w] # "claiming" /\ ~(phase'[w] = "closed" /\ w \in Supervising)
      /\ phase'[w] \in Busy => current'[w] \in Commands \ batch'[w]
      /\ phase'[w] \notin Busy => current'[w] = NoCommand /\ batch'[w] = {}
  <2>1. CASE phase[w] = "claiming" /\ T = {} /\ Proceed(w, "idle", NoCommand, {})
    BY <1>3, <2>1 DEF Proceed, InHand, Busy, TypeOK, WorkerTypes
  <2>2. ASSUME NEW c \in T, Proceed(w, "executing", c, T \ {c})
        PROVE  /\ InHand(w)' \subseteq T /\ thread'[w] = "none" /\ phase'[w] # "completing"
               /\ phase'[w] # "claiming" /\ ~(phase'[w] = "closed" /\ w \in Supervising)
               /\ phase'[w] \in Busy => current'[w] \in Commands \ batch'[w]
               /\ phase'[w] \notin Busy => current'[w] = NoCommand /\ batch'[w] = {}
    BY <1>2, <1>3, <2>2 DEF Proceed, InHand, Busy, TypeOK, WorkerTypes
  <2>3. CASE phase[w] # "claiming"
    BY <1>1, <1>3, <1>4, <2>3 DEF InHand, TypeOK, WorkerTypes, Busy, QueueInv,
       HandMatchesPhase, HandMatches, Saving
  <2>4. QED
    BY <1>1, <2>1, <2>2, <2>3 DEF Begin
<1>7. HandMatchesPhase'
  <2> SUFFICES ASSUME NEW v \in Workers
               PROVE  HandMatches(v)'
    BY DEF HandMatchesPhase
  <2>1. CASE v = w
    BY <1>4, <1>6, <2>1 DEF HandMatches, Saving, Busy
  <2>2. CASE v # w
    BY <1>3, <1>5, <2>2 DEF QueueInv, HandMatchesPhase, HandMatches, InHand
  <2>3. QED
    BY <2>1, <2>2
<1>8. HeldUnlessStale'
  <2> SUFFICES ASSUME NEW v \in Workers, NEW c \in InHand(v)'
               PROVE  Holds(v, c)' <=> c \notin stale'[v]
    BY DEF HeldUnlessStale
  <2>1. c \in Commands
    BY <1>5 DEF InHand
  <2>2. CASE v = w
    BY <1>1, <1>4, <1>6, <2>1, <2>2 DEF Holds
  <2>3. CASE v # w
    <3>1. c \in InHand(v) /\ (Holds(v, c) <=> c \notin stale[v])
      BY <1>5, <2>3 DEF InHand, QueueInv, HeldUnlessStale
    <3>2. CASE c \in Expired(w)
      BY <1>1, <1>3, <2>1, <2>3, <3>1, <3>2, QueueAssumption DEF Holds
    <3>3. CASE c \notin Expired(w)
      BY <1>1, <1>2, <1>3, <2>1, <2>3, <3>1, <3>3 DEF Holds
    <3>4. QED
      BY <3>2, <3>3
  <2>4. QED
    BY <2>2, <2>3
<1>9. LeasesOfKind'
  <2> SUFFICES ASSUME NEW v \in Workers, NEW c \in Commands, Holds(v, c)'
               PROVE  c \in Kind(v) /\ ~(phase'[v] = "closed" /\ v \in Supervising)
    BY DEF LeasesOfKind, Kind
  <2>1. CASE c \in T
    BY <1>1, <1>2, <1>6, <2>1 DEF Holds
  <2>2. CASE c \notin T
    <3>1. Holds(v, c)
      BY <1>1, <2>2, QueueAssumption DEF Holds
    <3>2. QED
      BY <1>5, <1>6, <3>1 DEF QueueInv, LeasesOfKind
  <2>3. QED
    BY <2>1, <2>2
<1>10. QED
  BY <1>7, <1>8, <1>9 DEF QueueInv

(* A completion: only the holder ends the row, and it lets go of the command. *)
LEMMA CommitCompleteQueue ==
  ASSUME TypeOK, QueueInv, NEW w \in Workers, CommitComplete(w)
  PROVE  QueueInv'
<1> DEFINE c == current[w]
<1>1. /\ thread[w] \in Saving /\ thread' = [thread EXCEPT ![w] = "none"]
      /\ stale' = [stale EXCEPT ![w] = @ \ {c}]
      /\ owner' = owner
      /\ status' = [status EXCEPT ![c] =
                      IF ~Holds(w, c) THEN @
                      ELSE IF thread[w] = "success" THEN "SUCCEEDED" ELSE "FAILED"]
      /\ IF phase[w] = "completing" THEN Begin(w, batch[w])
         ELSE current' = [current EXCEPT ![w] = NoCommand] /\ UNCHANGED <<phase, batch>>
  BY DEF CommitComplete
<1>2. /\ c \in Commands \ batch[w] /\ batch[w] \in SUBSET Commands
      /\ phase[w] \notin {"off", "idle", "claiming", "executing", "asking", "waiting"}
      /\ ~(phase[w] = "closed" /\ w \in Supervising)
  BY <1>1 DEF QueueInv, HandMatchesPhase, HandMatches, Saving, TypeOK, WorkerTypes
<1>3. /\ InHand(w)' = batch[w] /\ thread'[w] = "none" /\ phase'[w] # "completing"
      /\ phase'[w] # "claiming" /\ ~(phase'[w] = "closed" /\ w \in Supervising)
      /\ phase'[w] \in Busy => current'[w] \in Commands \ batch'[w]
      /\ phase'[w] \notin Busy => current'[w] = NoCommand /\ batch'[w] = {}
      /\ \A v \in Workers : v # w => /\ phase'[v] = phase[v] /\ current'[v] = current[v]
                                    /\ batch'[v] = batch[v] /\ thread'[v] = thread[v]
  <2>1. CASE phase[w] = "completing" /\ batch[w] = {} /\ Proceed(w, "idle", NoCommand, {})
    BY <1>1, <2>1 DEF Proceed, InHand, Busy, TypeOK, WorkerTypes
  <2>2. ASSUME phase[w] = "completing", NEW d \in batch[w],
               Proceed(w, "executing", d, batch[w] \ {d})
        PROVE  /\ InHand(w)' = batch[w] /\ thread'[w] = "none" /\ phase'[w] = "executing"
               /\ current'[w] \in Commands \ batch'[w]
               /\ \A v \in Workers : v # w =>
                    /\ phase'[v] = phase[v] /\ current'[v] = current[v]
                    /\ batch'[v] = batch[v] /\ thread'[v] = thread[v]
    <3>1. d \in Commands /\ d # NoCommand
      BY <1>2, <2>2, QueueAssumption
    <3>2. QED
      BY <1>1, <2>2, <3>1 DEF Proceed, InHand, TypeOK, WorkerTypes
  <2>3. CASE phase[w] # "completing"
    <3>1. phase[w] \notin Busy /\ batch[w] = {}
      BY <1>2, <2>3 DEF Busy, QueueInv, HandMatchesPhase, HandMatches
    <3>2. QED
      BY <1>1, <1>2, <2>3, <3>1 DEF InHand, TypeOK, WorkerTypes
  <2>4. QED
    BY <1>1, <2>1, <2>2, <2>3 DEF Begin, Busy
<1>4. HandMatchesPhase'
  <2> SUFFICES ASSUME NEW v \in Workers PROVE HandMatches(v)'
    BY DEF HandMatchesPhase
  <2>1. CASE v = w
    <3>1. stale'[w] \subseteq InHand(w)'
      BY <1>1, <1>3 DEF QueueInv, HandMatchesPhase, HandMatches, InHand, TypeOK, WorkerTypes
    <3>2. QED
      BY <1>3, <2>1, <3>1 DEF HandMatches, Saving, Busy
  <2>2. CASE v # w
    BY <1>1, <1>3, <2>2 DEF QueueInv, HandMatchesPhase, HandMatches, InHand, TypeOK,
       WorkerTypes
  <2>3. QED
    BY <2>1, <2>2
<1>5. HeldUnlessStale'
  <2> SUFFICES ASSUME NEW v \in Workers, NEW d \in InHand(v)'
               PROVE  Holds(v, d)' <=> d \notin stale'[v]
    BY DEF HeldUnlessStale
  <2>1. d \in InHand(v)
    BY <1>3 DEF InHand
  <2>2. d \in Commands /\ (Holds(v, d) <=> d \notin stale[v])
    BY <2>1 DEF QueueInv, HeldUnlessStale, InHand, TypeOK, WorkerTypes
  <2>3. CASE v = w
    BY <1>1, <1>2, <1>3, <2>2, <2>3 DEF Holds, TypeOK, RowTypes, WorkerTypes
  <2>4. CASE v # w
    BY <1>1, <1>2, <2>2, <2>4 DEF Holds, TypeOK, RowTypes, WorkerTypes
  <2>5. QED
    BY <2>3, <2>4
<1>6. LeasesOfKind'
  <2> SUFFICES ASSUME NEW v \in Workers, NEW d \in Commands, Holds(v, d)'
               PROVE  d \in Kind(v) /\ ~(phase'[v] = "closed" /\ v \in Supervising)
    BY DEF LeasesOfKind, Kind
  <2>1. Holds(v, d)
    BY <1>1, <1>2 DEF Holds, TypeOK, RowTypes
  <2>2. QED
    BY <1>3, <2>1 DEF QueueInv, LeasesOfKind
<1>7. QED
  BY <1>4, <1>5, <1>6 DEF QueueInv

(* A step of one worker that moves no lease and keeps its hands as they are. *)
LEMMA WorkerLoopQueue ==
  ASSUME TypeOK, QueueInv, NEW w \in Workers,
         Start(w) \/ AskClaim(w) \/ BridgeExecutes(w) \/ LookForResponse(w)
           \/ Dispatch(w) \/ Await(w)
  PROVE  QueueInv'
<1>1. UNCHANGED <<status, owner, current, batch, stale>>
  BY DEF Start, AskClaim, BridgeExecutes, LookForResponse, Dispatch, Await, Answered, Report,
         rowVars
<1>2. HandMatchesPhase'
  <2> SUFFICES ASSUME NEW v \in Workers PROVE HandMatches(v)'
    BY DEF HandMatchesPhase
  <2>1. HandMatches(v) /\ HandMatches(w) /\ InHand(v)' = InHand(v)
    BY <1>1 DEF QueueInv, HandMatchesPhase, InHand
  <2> USE <1>1, <2>1 DEF HandMatches, Busy, Saving, TypeOK, WorkerTypes
  <2>2. CASE Start(w) \/ AskClaim(w)
    BY <2>2 DEF Start, AskClaim
  <2>3. CASE BridgeExecutes(w)
    BY <2>3 DEF BridgeExecutes, Report
  <2>4. CASE LookForResponse(w)
    BY <2>4 DEF LookForResponse, Answered, Report
  <2>5. CASE Dispatch(w)
    BY <2>5 DEF Dispatch, Report
  <2>6. CASE Await(w)
    BY <2>6 DEF Await, Answered, Report
  <2>7. QED
    BY <2>2, <2>3, <2>4, <2>5, <2>6
<1>3. HeldUnlessStale'
  BY <1>1 DEF QueueInv, HeldUnlessStale, Holds, InHand
<1>4. LeasesOfKind'
  <2>1. \A v \in Workers : phase'[v] = "closed" => phase[v] = "closed"
    BY DEF Start, AskClaim, BridgeExecutes, LookForResponse, Dispatch, Await, Answered,
           Report, TypeOK, WorkerTypes
  <2>2. QED
    BY <1>1, <2>1 DEF QueueInv, LeasesOfKind, Holds, Kind
<1>5. QED
  BY <1>2, <1>3, <1>4 DEF QueueInv

(* A release takes rows from a worker that has nothing in its hands any more. *)
LEMMA ReleaseQueue ==
  ASSUME TypeOK, QueueInv, NEW w \in Workers, Release(w)
  PROVE  QueueInv'
<1>1. /\ phase[w] = "closing" /\ thread[w] = "none" /\ InHand(w) = {}
      /\ phase' = [phase EXCEPT ![w] = "closed"]
      /\ UNCHANGED <<current, batch, thread, stale>>
  BY DEF Release, Drained, QueueInv, HandMatchesPhase, HandMatches, InHand, Busy, Saving
<1>2. \A v \in Workers, c \in Commands : Holds(v, c)' <=> Holds(v, c) /\ c \notin Mine(w)
  BY QueueAssumption DEF Release, Holds, Returned
<1>3. \A v \in Workers, c \in Mine(w) : Holds(v, c) => v = w
  BY DEF Mine, Holds
<1>4. HandMatchesPhase'
  BY <1>1 DEF QueueInv, HandMatchesPhase, HandMatches, InHand, Busy, Saving, TypeOK,
     WorkerTypes
<1>5. HeldUnlessStale'
  <2> SUFFICES ASSUME NEW v \in Workers, NEW c \in InHand(v)'
               PROVE  Holds(v, c)' <=> c \notin stale'[v]
    BY DEF HeldUnlessStale
  <2>1. c \in InHand(v) /\ c \in Commands /\ v # w
    BY <1>1 DEF InHand, TypeOK, WorkerTypes
  <2>2. Holds(v, c)' <=> Holds(v, c)
    BY <1>2, <1>3, <2>1
  <2>3. QED
    BY <1>1, <2>1, <2>2 DEF QueueInv, HeldUnlessStale
<1>6. LeasesOfKind'
  <2> SUFFICES ASSUME NEW v \in Workers, NEW c \in Commands, Holds(v, c)'
               PROVE  c \in Kind(v) /\ ~(phase'[v] = "closed" /\ v \in Supervising)
    BY DEF LeasesOfKind, Kind
  <2>1. Holds(v, c) /\ c \notin Mine(w)
    BY <1>2
  <2>2. c \in Kind(v) /\ ~(phase[v] = "closed" /\ v \in Supervising)
    BY <2>1 DEF QueueInv, LeasesOfKind
  <2>3. CASE v = w /\ w \in Supervising
    BY <2>1, <2>2, <2>3 DEF Kind, Mine
  <2>4. CASE ~(v = w /\ w \in Supervising)
    BY <1>1, <2>2, <2>4 DEF TypeOK, WorkerTypes
  <2>5. QED
    BY <2>3, <2>4
<1>7. QED
  BY <1>4, <1>5, <1>6 DEF QueueInv

(* A fault empties the hands of its worker, except for a completion in flight. *)
LEMMA FaultStepQueue ==
  ASSUME TypeOK, QueueInv, NEW w \in Workers, FaultStep(w)
  PROVE  QueueInv'
<1>1. /\ UNCHANGED <<status, owner>>
      /\ InHand(w)' \subseteq InHand(w) /\ stale'[w] = stale[w] \cap InHand(w)'
      /\ \A v \in Workers : v # w =>
           /\ phase'[v] = phase[v] /\ current'[v] = current[v] /\ batch'[v] = batch[v]
           /\ thread'[v] = thread[v] /\ stale'[v] = stale[v]
      /\ HandMatches(w)'
      /\ phase'[w] = "closed" /\ w \in Supervising => phase[w] = "closed"
  <2>1. HandMatches(w)
    BY DEF QueueInv, HandMatchesPhase
  <2> USE <2>1 DEF HandMatches, InHand, Busy, Saving, Running, TypeOK, WorkerTypes, rowVars
  <2>2. CASE StoreFails(w)
    BY <2>2 DEF StoreFails
  <2>3. CASE Close(w) /\ thread[w] \in Saving
    BY <2>3 DEF Close
  <2>4. CASE Close(w) /\ thread[w] \notin Saving
    BY <2>4 DEF Close
  <2>5. CASE Crash(w)
    BY <2>5 DEF Crash
  <2>6. QED
    BY <2>2, <2>3, <2>4, <2>5 DEF FaultStep
<1>2. HandMatchesPhase'
  BY <1>1 DEF QueueInv, HandMatchesPhase, HandMatches, InHand
<1>3. HeldUnlessStale'
  BY <1>1 DEF QueueInv, HeldUnlessStale, Holds, InHand
<1>4. LeasesOfKind'
  BY <1>1 DEF QueueInv, LeasesOfKind, Holds, Kind
<1>5. QED
  BY <1>2, <1>3, <1>4 DEF QueueInv

LEMMA NextQueue == TypeOK /\ QueueInv /\ [Next]_vars => QueueInv'
<1> SUFFICES ASSUME TypeOK, QueueInv, [Next]_vars PROVE QueueInv'
  OBVIOUS
<1>1. ASSUME NEW c \in Commands, Enqueue(c) PROVE QueueInv'
  BY <1>1, EnqueueQueue
<1>2. ASSUME NEW w \in Workers, WorkerStep(w) PROVE QueueInv'
  BY <1>2, CommitClaimQueue, CommitCompleteQueue, WorkerLoopQueue, ReleaseQueue
     DEF WorkerStep
<1>3. ASSUME NEW w \in Workers, FaultStep(w) PROVE QueueInv'
  BY <1>3, FaultStepQueue
<1>4. ASSUME UNCHANGED <<status, owner, phase, current, batch, thread, stale>>
      PROVE  QueueInv'
  BY <1>4 DEF QueueInv, HandMatchesPhase, HandMatches, HeldUnlessStale, LeasesOfKind,
     Holds, InHand
<1>5. ASSUME NEW c \in Commands, Supervises(c) PROVE QueueInv'
  BY <1>4, <1>5, SupervisesFrame DEF rowVars, workerVars
<1>6. CASE Tick
  BY <1>4, <1>6 DEF Tick
<1>7. CASE UNCHANGED vars
  BY <1>4, <1>7 DEF vars, rowVars, workerVars
<1>8. QED
  BY <1>1, <1>2, <1>3, <1>5, <1>6, <1>7 DEF Next, Supervises

(* The inductive invariant of the command table and its workers. *)
THEOREM QueueInvariant == Spec => []QueueInv
<1>1. QED
  BY InitType, InitQueue, NextType, NextQueue, PTL DEF Spec

(* A worker loses a command only by the expiry of its lease, and never has a   *)
(* lost one given back to it (claim, complete and release of control commands).*)
THEOREM HeldCorrect == Spec => []HeldUnlessStale
<1>1. QueueInv => HeldUnlessStale
  BY DEF QueueInv
<1>2. QED
  BY <1>1, QueueInvariant, PTL

(* close() of the Supervisor's worker leaves no lease and no store call. *)
THEOREM CloseCorrect == Spec => []NothingLeasedAfterClose
<1>1. QueueInv => NothingLeasedAfterClose
  <2> SUFFICES ASSUME QueueInv, NEW w \in Supervising, phase[w] = "closed"
               PROVE  thread[w] = "none" /\ \A c \in Commands : ~Holds(w, c)
    BY DEF NothingLeasedAfterClose
  <2>1. w \in Workers
    BY QueueAssumption
  <2>2. QED
    BY <2>1 DEF QueueInv, HandMatchesPhase, HandMatches, LeasesOfKind
<1>2. QED
  BY <1>1, QueueInvariant, PTL

(* A row is ended only by the worker that executed it under its present lease. *)
THEOREM CompletionCorrect == Spec => NoStaleCompletion
<1> DEFINE Ends(c) == status[c] \notin Final /\ status'[c] \in Final
           Mine1(c) == \E w \in Workers : owner[c] = w /\ current[w] = c /\ c \notin stale[w]
<1>1. TypeOK /\ QueueInv /\ [Next]_vars => [\A c \in Commands : Ends(c) => Mine1(c)]_vars
  <2> SUFFICES ASSUME TypeOK, QueueInv, [Next]_vars, NEW c \in Commands, Ends(c)
               PROVE  Mine1(c)
    BY Zenon
  <2>1. ASSUME NEW w \in Workers, CommitComplete(w) PROVE Mine1(c)
    <3>1. c = current[w] /\ Holds(w, c)
      BY <2>1 DEF CommitComplete, TypeOK, RowTypes, Final
    <3>2. c \in InHand(w)
      BY <3>1, QueueAssumption DEF InHand
    <3>3. QED
      BY <3>1, <3>2 DEF QueueInv, HeldUnlessStale, Holds
  <2>2. ASSUME NEW w \in Workers, CommitClaim(w) PROVE FALSE
    BY <2>2 DEF CommitClaim, Returned, Final
  <2>3. ASSUME NEW w \in Workers, Release(w) PROVE FALSE
    BY <2>3 DEF Release, Returned, Final
  <2>4. ASSUME NEW d \in Commands, Enqueue(d) PROVE FALSE
    BY <2>4 DEF Enqueue, TypeOK, RowTypes, Final
  <2>5. ASSUME UNCHANGED status PROVE FALSE
    BY <2>5
  <2>6. ASSUME NEW w \in Workers, WorkerStep(w) PROVE Mine1(c)
    <3>1. CASE Start(w) \/ AskClaim(w) \/ BridgeExecutes(w) \/ LookForResponse(w)
                 \/ Dispatch(w) \/ Await(w)
      BY <2>5, <3>1 DEF Start, AskClaim, BridgeExecutes, LookForResponse, Dispatch, Await,
         rowVars
    <3>2. QED
      BY <2>1, <2>2, <2>3, <2>6, <3>1 DEF WorkerStep
  <2>7. ASSUME NEW w \in Workers, FaultStep(w) PROVE FALSE
    BY <2>5, <2>7 DEF FaultStep, StoreFails, Close, Crash, rowVars
  <2>8. ASSUME NEW d \in Commands, Supervises(d) PROVE FALSE
    BY <2>5, <2>8, SupervisesFrame DEF rowVars
  <2>9. CASE Tick \/ UNCHANGED vars
    BY <2>5, <2>9 DEF Tick, vars, rowVars
  <2>10. QED
    BY <2>4, <2>6, <2>7, <2>8, <2>9 DEF Next, Supervises
<1>2. QED
  BY <1>1, TypeCorrect, QueueInvariant, PTL DEF Spec, NoStaleCompletion

(***************************************************************************)
(* The table implements CommandLedger.                                     *)
(***************************************************************************)
LEMMA InitLedger == Init => LedgerInv
BY DEF Init, LedgerInv, InHand

(* Rows do not vanish and executions are not undone. *)
LEMMA Monotone ==
  ASSUME TypeOK, QueueInv, [Next]_vars, NEW c \in Commands
  PROVE  /\ status[c] # "none" => status'[c] # "none"
         /\ carried[c] # "no" => carried'[c] # "no"
<1> USE DEF TypeOK, RowTypes
<1>1. ASSUME NEW d \in Commands, Enqueue(d) \/ Supervises(d)
      PROVE  /\ status[c] # "none" => status'[c] # "none"
             /\ carried[c] # "no" => carried'[c] # "no"
  BY <1>1, SupervisesFrame DEF Enqueue, fileVars, rowVars, More
<1>2. ASSUME NEW w \in Workers, WorkerStep(w)
      PROVE  /\ status[c] # "none" => status'[c] # "none"
             /\ carried[c] # "no" => carried'[c] # "no"
  <2>1. CASE CommitClaim(w)
    BY <2>1 DEF CommitClaim, Returned, fileVars
  <2>2. CASE CommitComplete(w)
    BY <2>2 DEF CommitComplete
  <2>3. CASE Release(w)
    BY <2>3 DEF Release, Returned, fileVars
  <2>4. CASE Start(w) \/ AskClaim(w) \/ LookForResponse(w) \/ Dispatch(w) \/ Await(w)
    BY <2>4 DEF Start, AskClaim, LookForResponse, Dispatch, Await, rowVars, fileVars
  <2>5. CASE BridgeExecutes(w)
    BY <2>5 DEF BridgeExecutes, rowVars, More
  <2>6. QED
    BY <1>2, <2>1, <2>2, <2>3, <2>4, <2>5 DEF WorkerStep
<1>3. ASSUME NEW w \in Workers, FaultStep(w)
      PROVE  /\ status[c] # "none" => status'[c] # "none"
             /\ carried[c] # "no" => carried'[c] # "no"
  BY <1>3 DEF FaultStep, StoreFails, Close, Crash, rowVars, fileVars, More
<1>4. CASE Tick \/ UNCHANGED vars
  BY <1>4 DEF Tick, vars, rowVars, fileVars
<1>5. QED
  BY <1>1, <1>2, <1>3, <1>4 DEF Next, Supervises

LEMMA NextLedger == TypeOK /\ QueueInv /\ LedgerInv /\ [Next]_vars => LedgerInv'
<1> SUFFICES ASSUME TypeOK, QueueInv, LedgerInv, [Next]_vars PROVE LedgerInv'
  OBVIOUS
<1>0. TypeOK'
  BY NextType
<1>1. ASSUME NEW c \in Commands
      PROVE  /\ ("ok" \in {response[c], processing[c]} => carried[c] # "no")'
             /\ (request[c] \/ processing[c] # "none" => status[c] # "none")'
  <2> DEFINE Kept == /\ ("ok" \in {response[c], processing[c]} => carried[c] # "no")'
                     /\ (request[c] \/ processing[c] # "none" => status[c] # "none")'
  <2>1. ASSUME response'[c] \in {response[c], "none"}, request'[c] = request[c],
               processing'[c] = processing[c]
        PROVE  Kept
    BY <2>1, Monotone DEF LedgerInv
  <2>2. ASSUME NEW d \in Commands, Supervises(d) PROVE Kept
    <3>1. status' = status
      BY <2>2, SupervisesFrame DEF rowVars
    <3>2. CASE c # d
      <4>1. UNCHANGED <<response[c], request[c], processing[c]>>
        BY <2>2, <3>2 DEF Supervises, Serves, SupervisorClaims, SupervisorActs, SupervisorAnswers,
               SupervisorRemoves, SupervisorRecovers, SupervisorLeaves, TypeOK, RowTypes
      <4>2. QED
        BY <2>1, <4>1
    <3>3. CASE c = d
      <4>1. status[c] # "none"
        BY <2>2, <3>3 DEF Supervises, Serves, SupervisorClaims, SupervisorActs, SupervisorAnswers,
               SupervisorRemoves, SupervisorRecovers, SupervisorLeaves, Serving, Done, LedgerInv
      <4>2. /\ carried[c] # "no" => carried'[c] # "no"
            /\ "ok" \in {response'[c], processing'[c]} =>
                 "ok" \in {response[c], processing[c]} \/ carried'[c] # "no"
        BY <2>2, <3>3, Monotone
           DEF Supervises, Serves, SupervisorClaims, SupervisorActs, SupervisorAnswers,
               SupervisorRemoves, SupervisorRecovers, SupervisorLeaves, Done, More, TypeOK, RowTypes
      <4>3. QED
        BY <3>1, <4>1, <4>2 DEF LedgerInv
    <3>4. QED
      BY <3>2, <3>3
  <2>3. ASSUME NEW w \in Workers, CommitComplete(w) PROVE Kept
    <3>1. response'[c] \in {response[c], "none"} /\ UNCHANGED <<request, processing>>
      BY <2>3 DEF CommitComplete, TypeOK, RowTypes
    <3>2. QED
      BY <2>1, <3>1
  <2>4. ASSUME NEW w \in Workers, Dispatch(w) PROVE Kept
    <3>1. /\ UNCHANGED <<response, processing>>
          /\ request'[c] => request[c] \/ c = current[w]
      BY <2>4 DEF Dispatch, TypeOK, RowTypes
    <3>2. c = current[w] => status[c] # "none"
      BY QueueAssumption DEF LedgerInv, InHand
    <3>3. request[c] \/ processing[c] # "none" \/ c = current[w] => status'[c] # "none"
      BY <3>2, Monotone DEF LedgerInv
    <3>4. "ok" \in {response[c], processing[c]} => carried'[c] # "no"
      BY Monotone DEF LedgerInv
    <3>5. QED
      BY <3>1, <3>3, <3>4
  <2>5. CASE UNCHANGED <<response, request, processing>>
    BY <2>1, <2>5
  <2>6. ASSUME NEW w \in Workers, WorkerStep(w) PROVE Kept
    BY <2>3, <2>4, <2>5, <2>6 DEF WorkerStep, Start, AskClaim, CommitClaim, BridgeExecutes,
       LookForResponse, Await, Release, fileVars
  <2>7. ASSUME NEW w \in Workers, FaultStep(w) PROVE UNCHANGED <<response, request, processing>>
    BY <2>7 DEF FaultStep, StoreFails, Close, Crash, fileVars
  <2>8. ASSUME NEW d \in Commands, Enqueue(d) PROVE UNCHANGED <<response, request, processing>>
    BY <2>8 DEF Enqueue, fileVars
  <2>9. CASE Tick \/ UNCHANGED vars
    BY <2>5, <2>9 DEF Tick, vars, fileVars
  <2>10. QED
    BY <2>2, <2>5, <2>6, <2>7, <2>8, <2>9 DEF Next, Supervises
<1>2. ASSUME NEW w \in Workers
      PROVE  (thread[w] = "success" => carried[current[w]] # "no")'
             /\ (\A c \in InHand(w) : status[c] # "none")'
  <2> DEFINE Good == /\ (thread[w] = "success" => carried[current[w]] # "no")'
                     /\ (\A c \in InHand(w) : status[c] # "none")'
  <2>1. ASSUME thread'[w] = "success" => thread[w] = "success" /\ current'[w] = current[w],
               \A c \in InHand(w)' : c \in InHand(w) \/ status'[c] # "none"
        PROVE  Good
    <3>1. \A c \in InHand(w)' : c \in Commands
      BY <1>0 DEF TypeOK, WorkerTypes, InHand
    <3>2. \A c \in InHand(w)' : status'[c] # "none"
      BY <2>1, <3>1, Monotone DEF LedgerInv
    <3>3. thread[w] = "success" => current[w] \in Commands
      BY DEF QueueInv, HandMatchesPhase, HandMatches, Saving
    <3>4. QED
      BY <2>1, <3>2, <3>3, Monotone DEF LedgerInv
  <2>2. ASSUME UNCHANGED <<thread, current, batch>> PROVE Good
    BY <2>1, <2>2 DEF InHand
  <2>3. ASSUME NEW v \in Workers, v # w, WorkerStep(v) \/ FaultStep(v)
        PROVE  thread'[w] = thread[w] /\ current'[w] = current[w] /\ batch'[w] = batch[w]
    <3>1. CASE CommitClaim(v) \/ CommitComplete(v)
      BY <2>3, <3>1 DEF CommitClaim, CommitComplete, Begin, Proceed, TypeOK, WorkerTypes
    <3>2. CASE FaultStep(v)
      BY <2>3, <3>2 DEF FaultStep, StoreFails, Close, Crash, TypeOK, WorkerTypes
    <3>3. CASE Start(v) \/ AskClaim(v) \/ BridgeExecutes(v) \/ LookForResponse(v)
                 \/ Dispatch(v) \/ Await(v) \/ Release(v)
      BY <2>3, <3>3 DEF Start, AskClaim, BridgeExecutes, LookForResponse, Dispatch, Await,
         Release, Answered, Report, TypeOK, WorkerTypes
    <3>4. QED
      BY <2>3, <3>1, <3>2, <3>3 DEF WorkerStep
  <2>4. CASE WorkerStep(w)
    <3>1. CASE CommitClaim(w)
      <4>1. PICK T \in SUBSET Claimable(w) :
              /\ status' = [c \in Commands |-> IF c \in T THEN "RUNNING"
                                               ELSE IF c \in Expired(w) THEN Returned
                                               ELSE status[c]]
              /\ IF phase[w] = "claiming" THEN Begin(w, T)
                                          ELSE UNCHANGED <<phase, current, batch, spent>>
        BY <3>1 DEF CommitClaim
      <4>2. T \subseteq Commands /\ thread'[w] = "none"
        BY <3>1, QueueAssumption DEF CommitClaim, Claimable, Kind, TypeOK, WorkerTypes
      <4>3. InHand(w)' \subseteq T \cup InHand(w)
        BY <4>1, <4>2 DEF Begin, Proceed, InHand, TypeOK, WorkerTypes
      <4>4. \A c \in T : status'[c] # "none"
        BY <4>1, <4>2
      <4>5. QED
        BY <2>1, <4>2, <4>3, <4>4
    <3>2. CASE CommitComplete(w)
      <4>1. thread'[w] = "none" /\ InHand(w)' \subseteq InHand(w)
        BY <3>2 DEF CommitComplete, Begin, Proceed, InHand, TypeOK, WorkerTypes
      <4>2. QED
        BY <2>1, <4>1
    <3>3. CASE Start(w) \/ AskClaim(w) \/ Release(w)
      BY <2>1, <3>3 DEF Start, AskClaim, Release, InHand, TypeOK, WorkerTypes
    <3>4. CASE BridgeExecutes(w)
      <4>1. current[w] \in Commands /\ InHand(w)' = InHand(w) /\ current' = current
            /\ status' = status
        BY <3>4 DEF BridgeExecutes, Report, QueueInv, HandMatchesPhase, HandMatches, Busy,
           InHand, rowVars
      <4>2. thread'[w] = "success" => carried'[current[w]] # "no"
        BY <3>4, <4>1 DEF BridgeExecutes, Report, More, TypeOK, RowTypes, WorkerTypes
      <4>3. QED
        BY <4>1, <4>2 DEF LedgerInv
    <3>5. CASE LookForResponse(w) \/ Dispatch(w) \/ Await(w)
      <4>1. current[w] \in Commands /\ InHand(w)' = InHand(w) /\ current' = current
            /\ status' = status /\ carried' = carried
        BY <3>5 DEF LookForResponse, Dispatch, Await, Answered, Report, QueueInv,
           HandMatchesPhase, HandMatches, Busy, InHand, rowVars, fileVars
      <4>2. thread'[w] = "success" => thread[w] = "success" \/ response[current[w]] = "ok"
        BY <3>5 DEF LookForResponse, Dispatch, Await, Answered, Report, TypeOK, WorkerTypes
      <4>3. QED
        BY <4>1, <4>2 DEF LedgerInv
    <3>6. QED
      BY <2>4, <3>1, <3>2, <3>3, <3>4, <3>5 DEF WorkerStep
  <2>5. CASE FaultStep(w)
    <3>1. CASE StoreFails(w) \/ Crash(w)
      BY <2>1, <3>1 DEF StoreFails, Crash, InHand, TypeOK, WorkerTypes
    <3>2. CASE Close(w)
      BY <2>1, <3>2 DEF Close, InHand, Saving, TypeOK, WorkerTypes
    <3>3. QED
      BY <2>5, <3>1, <3>2 DEF FaultStep
  <2>6. ASSUME NEW v \in Workers, WorkerStep(v) \/ FaultStep(v) PROVE Good
    <3>1. CASE v = w
      BY <2>4, <2>5, <2>6, <3>1
    <3>2. CASE v # w
      BY <2>1, <2>3, <2>6, <3>2 DEF InHand
    <3>3. QED
      BY <3>1, <3>2
  <2>7. ASSUME NEW c \in Commands, Enqueue(c) \/ Supervises(c) PROVE Good
    BY <2>2, <2>7, SupervisesFrame DEF Enqueue, workerVars
  <2>8. CASE Tick \/ UNCHANGED vars
    BY <2>2, <2>8 DEF Tick, vars, workerVars
  <2>9. QED
    BY <2>6, <2>7, <2>8 DEF Next, Supervises
<1>3. QED
  BY <1>1, <1>2 DEF LedgerInv

LEMMA StateOfCases ==
  /\ StateOf("none") = "absent"
  /\ \A st \in {"PENDING", "RUNNING"} : StateOf(st) = "open"
  /\ StateOf("SUCCEEDED") = "succeeded" /\ StateOf("FAILED") = "failed"
BY DEF StateOf

(* A step that leaves the state of every row, and carries out one of them. *)
LEMMA CarryOutRefines ==
  ASSUME TypeOK, NEW c \in Commands, status[c] # "none",
         carried' = [carried EXCEPT ![c] = More(@)], status' = status
  PROVE  Ledger!Next
<1>1. StateOf(status[c]) # "absent"
  BY StateOfCases DEF TypeOK, RowTypes, Final
<1>2. Ledger!CarryOut(c)
  BY <1>1 DEF Ledger!CarryOut, More, TypeOK, RowTypes
<1>3. QED
  BY <1>2 DEF Ledger!Next

LEMMA WorkerStepRefines ==
  ASSUME TypeOK, QueueInv, LedgerInv, NEW w \in Workers, WorkerStep(w)
  PROVE  Ledger!Next \/ UNCHANGED Ledger!vars
<1>1. CASE CommitClaim(w)
  <2>1. PICK T \in SUBSET Claimable(w) :
          status' = [c \in Commands |-> IF c \in T THEN "RUNNING"
                                       ELSE IF c \in Expired(w) THEN Returned
                                       ELSE status[c]]
    BY <1>1 DEF CommitClaim
  <2>2. \A c \in Commands : StateOf(status'[c]) = StateOf(status[c])
    BY <2>1, StateOfCases DEF Claimable, Expired, Returned
  <2>3. QED
    BY <1>1, <2>2 DEF CommitClaim, fileVars, Ledger!vars
<1>2. CASE CommitComplete(w)
  <2> DEFINE c == current[w]
  <2>1. /\ c \in Commands /\ thread[w] \in Saving /\ carried' = carried
        /\ status' = [status EXCEPT ![c] =
                        IF ~Holds(w, c) THEN @
                        ELSE IF thread[w] = "success" THEN "SUCCEEDED" ELSE "FAILED"]
    BY <1>2 DEF CommitComplete, QueueInv, HandMatchesPhase, HandMatches
  <2>2. CASE ~Holds(w, c)
    BY <2>1, <2>2 DEF Ledger!vars, TypeOK, RowTypes
  <2>3. CASE Holds(w, c) /\ thread[w] = "success"
    <3>1. status[c] = "RUNNING" /\ status' = [status EXCEPT ![c] = "SUCCEEDED"]
          /\ carried[c] # "no"
      BY <2>1, <2>3 DEF Holds, LedgerInv
    <3>2. Ledger!Succeed(c)
      BY <2>1, <3>1, StateOfCases DEF Ledger!Succeed, TypeOK, RowTypes
    <3>3. QED
      BY <2>1, <3>2 DEF Ledger!Next
  <2>4. CASE Holds(w, c) /\ thread[w] = "failure"
    <3>1. status[c] = "RUNNING" /\ status' = [status EXCEPT ![c] = "FAILED"]
      BY <2>1, <2>4 DEF Holds
    <3>2. Ledger!Fail(c)
      BY <2>1, <3>1, StateOfCases DEF Ledger!Fail, TypeOK, RowTypes
    <3>3. QED
      BY <2>1, <3>2 DEF Ledger!Next
  <2>5. QED
    BY <2>1, <2>2, <2>3, <2>4 DEF Saving
<1>3. CASE Release(w)
  <2>1. \A c \in Commands : StateOf(status'[c]) = StateOf(status[c])
    BY <1>3, StateOfCases DEF Release, Mine, Holds, Returned
  <2>2. QED
    BY <1>3, <2>1 DEF Release, fileVars, Ledger!vars
<1>4. CASE BridgeExecutes(w)
  <2>1. current[w] \in Commands /\ status[current[w]] # "none" /\ status' = status
    BY <1>4, QueueAssumption DEF BridgeExecutes, QueueInv, HandMatchesPhase, HandMatches,
       Busy, LedgerInv, InHand, rowVars
  <2>2. CASE carried' = [carried EXCEPT ![current[w]] = More(@)]
    BY <2>1, <2>2, CarryOutRefines
  <2>3. CASE UNCHANGED carried
    BY <2>1, <2>3 DEF Ledger!vars
  <2>4. QED
    BY <1>4, <2>2, <2>3 DEF BridgeExecutes
<1>5. CASE Start(w) \/ AskClaim(w) \/ LookForResponse(w) \/ Dispatch(w) \/ Await(w)
  BY <1>5 DEF Start, AskClaim, LookForResponse, Dispatch, Await, rowVars, fileVars,
     Ledger!vars
<1>6. QED
  BY <1>1, <1>2, <1>3, <1>4, <1>5 DEF WorkerStep

(* CommandQueue implements CommandLedger: a command ends once, and one that is *)
(* reported as succeeded has been carried out.                                 *)
THEOREM Refinement == Spec => ImplementsCommandLedger
<1>1. Init => Ledger!Init
  BY StateOfCases DEF Init, Ledger!Init
<1>2. TypeOK /\ QueueInv /\ LedgerInv /\ [Next]_vars => [Ledger!Next]_(Ledger!vars)
  <2> SUFFICES ASSUME TypeOK, QueueInv, LedgerInv, [Next]_vars
               PROVE  Ledger!Next \/ UNCHANGED Ledger!vars
    OBVIOUS
  <2>1. ASSUME NEW c \in Commands, Enqueue(c) PROVE Ledger!Next
    <3>1. Ledger!Submit(c)
      BY <2>1, StateOfCases DEF Enqueue, fileVars, Ledger!Submit, TypeOK, RowTypes
    <3>2. QED
      BY <3>1 DEF Ledger!Next
  <2>2. ASSUME NEW c \in Commands, Supervises(c)
        PROVE  Ledger!Next \/ UNCHANGED Ledger!vars
    <3>1. status[c] # "none"
      BY <2>2 DEF Supervises, Serves, SupervisorClaims, SupervisorActs, SupervisorAnswers,
             SupervisorRemoves, SupervisorRecovers, SupervisorLeaves, Serving, Done, LedgerInv
    <3>2. status' = status
      BY <2>2, SupervisesFrame DEF rowVars
    <3>3. CASE carried' = [carried EXCEPT ![c] = More(@)]
      BY <3>1, <3>2, <3>3, CarryOutRefines
    <3>4. CASE carried' = carried
      BY <3>2, <3>4 DEF Ledger!vars
    <3>5. QED
      BY <2>2, <3>3, <3>4, SupervisesFrame
  <2>3. ASSUME NEW w \in Workers, WorkerStep(w)
        PROVE  Ledger!Next \/ UNCHANGED Ledger!vars
    BY <2>3, WorkerStepRefines
  <2>4. ASSUME NEW w \in Workers, FaultStep(w)
        PROVE  Ledger!Next \/ UNCHANGED Ledger!vars
    <3>1. status' = status
      BY <2>4 DEF FaultStep, StoreFails, Close, Crash, rowVars
    <3>2. CASE carried' = carried
      BY <3>1, <3>2 DEF Ledger!vars
    <3>3. CASE phase[w] = "executing" /\ carried' = [carried EXCEPT ![current[w]] = More(@)]
      <4>1. current[w] \in Commands /\ status[current[w]] # "none"
        BY <3>3, QueueAssumption DEF QueueInv, HandMatchesPhase, HandMatches, Busy,
           LedgerInv, InHand
      <4>2. QED
        BY <3>1, <3>3, <4>1, CarryOutRefines
    <3>4. QED
      BY <2>4, <3>2, <3>3 DEF FaultStep, StoreFails, Close, Crash, fileVars
  <2>5. CASE Tick \/ UNCHANGED vars
    BY <2>5 DEF Tick, vars, rowVars, fileVars, Ledger!vars
  <2>6. QED
    BY <2>1, <2>2, <2>3, <2>4, <2>5 DEF Next, Supervises
<1>3. Spec => []LedgerInv
  BY InitLedger, NextLedger, TypeCorrect, QueueInvariant, PTL DEF Spec
<1>4. QED
  BY <1>1, <1>2, <1>3, TypeCorrect, QueueInvariant, PTL DEF Spec, ImplementsCommandLedger,
     Ledger!Spec

(***************************************************************************)
(* Service commands are carried out once, unless the Supervisor answers    *)
(* one while a worker is about to ask for it, or leaves its file behind.   *)
(***************************************************************************)
\* One process of the admin at a time.
Up(w) == phase[w] \in Running \cup {"closing"}
Alone == \A v, w \in Supervising : Up(v) /\ Up(w) => v = w

\* A worker has commands of its own kind, also those whose lease it lost.
HandKind ==
  \A w \in Workers :
    /\ InHand(w) \subseteq Kind(w)
    /\ phase[w] \in {"asking", "waiting"} => w \in Supervising

\* Nobody is about to look for the response of the command.
Unsought(c) == \A w \in Workers : c \notin batch[w] /\ ~(current[w] = c /\ phase[w] = "executing")

\* A command is asked for while no file of it is in process.
OneFile == \A c \in Commands : request[c] => processing[c] = "none"

\* A command that was carried out is about to be answered, or has its response until its row has
\* ended; it is not asked for again.
AnsweredOnce(c) ==
  /\ carried[c] = "once" /\ ~request[c] /\ processing[c] \notin {"claimed", "left"}
  /\ processing[c] = "none" => ~AboutToAsk(c)
  /\ processing[c] \in Done \/ response[c] # "none" \/ (status[c] \in Final /\ Unsought(c))
AnswersOf(c) == c \notin raced \cup cut /\ carried[c] # "no" => AnsweredOnce(c)
Answers == \A c \in Runtime : AnswersOf(c)

OnceInv == Alone /\ HandKind /\ OneFile /\ Answers

\* What a worker has in its hands when it takes the next command.
LEMMA BeginEffect ==
  ASSUME TypeOK, NEW w \in Workers, NEW T \in SUBSET Commands, Begin(w, T)
  PROVE  /\ \A v \in Workers : v # w => /\ phase'[v] = phase[v] /\ current'[v] = current[v]
                                       /\ batch'[v] = batch[v]
         /\ \/ phase'[w] = "idle" /\ current'[w] = NoCommand /\ batch'[w] = {}
            \/ /\ phase'[w] = "executing" /\ current'[w] \in T /\ batch'[w] \subseteq T
<1>1. CASE T = {} /\ Proceed(w, "idle", NoCommand, {})
  BY <1>1 DEF Proceed, TypeOK, WorkerTypes
<1>2. ASSUME NEW c \in T, Proceed(w, "executing", c, T \ {c})
      PROVE  /\ \A v \in Workers : v # w => /\ phase'[v] = phase[v] /\ current'[v] = current[v]
                                           /\ batch'[v] = batch[v]
             /\ phase'[w] = "executing" /\ current'[w] \in T /\ batch'[w] \subseteq T
  BY <1>2 DEF Proceed, TypeOK, WorkerTypes
<1>3. QED
  BY <1>1, <1>2 DEF Begin

\* A claim takes rows that have not ended.
LEMMA ClaimEffect ==
  ASSUME TypeOK, NEW w \in Workers, CommitClaim(w)
  PROVE  /\ thread[w] = "claim" /\ UNCHANGED <<request, processing, response, carried, raced, cut>>
         /\ \A v \in Workers : v # w => /\ phase'[v] = phase[v] /\ current'[v] = current[v]
                                       /\ batch'[v] = batch[v]
         /\ \/ UNCHANGED <<phase, current, batch>>
            \/ /\ phase[w] = "claiming" /\ phase'[w] \in {"idle", "executing"}
               /\ InHand(w)' \subseteq {c \in Kind(w) : status[c] \notin Final}
         /\ \A c \in Commands : status[c] \in Final => status'[c] = status[c]
<1>1. PICK T \in SUBSET Claimable(w) :
        /\ status' = [c \in Commands |-> IF c \in T THEN "RUNNING"
                                         ELSE IF c \in Expired(w) THEN Returned
                                         ELSE status[c]]
        /\ IF phase[w] = "claiming" THEN Begin(w, T)
                                    ELSE UNCHANGED <<phase, current, batch, spent>>
  BY DEF CommitClaim
<1>2. /\ T \subseteq {c \in Kind(w) : status[c] \notin Final} /\ Kind(w) \subseteq Commands
      /\ \A c \in Expired(w) : status[c] \notin Final
  BY QueueAssumption DEF Claimable, Kind, Expired, Final
<1>3. T \in SUBSET Commands
  BY <1>2
<1>4. \A c \in Commands : status[c] \in Final => status'[c] = status[c]
  BY <1>1, <1>2
<1>5. thread[w] = "claim" /\ UNCHANGED <<request, processing, response, carried, raced, cut>>
  BY DEF CommitClaim, fileVars
<1>6. CASE phase[w] = "claiming"
  <2>1. Begin(w, T)
    BY <1>1, <1>6
  <2>2. InHand(w)' \subseteq T
    BY <1>3, <2>1, BeginEffect DEF InHand
  <2>3. QED
    BY <1>2, <1>3, <1>4, <1>5, <1>6, <2>1, <2>2, BeginEffect
<1>7. CASE phase[w] # "claiming"
  BY <1>1, <1>4, <1>5, <1>7
<1>8. QED
  BY <1>6, <1>7

\* A completion lets go of its command, and of its response only when the row has ended.
LEMMA CompleteEffect ==
  ASSUME TypeOK, QueueInv, NEW w \in Workers, CommitComplete(w)
  PROVE  /\ thread[w] \in Saving /\ UNCHANGED <<request, processing, carried, raced, cut>>
         /\ \A v \in Workers : v # w => /\ phase'[v] = phase[v] /\ current'[v] = current[v]
                                       /\ batch'[v] = batch[v]
         /\ \/ phase[w] = "completing" /\ phase'[w] \in {"idle", "executing"}
            \/ phase[w] # "completing" /\ phase'[w] = phase[w]
         /\ InHand(w)' \subseteq batch[w] /\ current[w] \in Commands \ batch[w]
         /\ \A c \in Commands : status[c] \in Final => status'[c] = status[c]
         /\ \/ UNCHANGED response
            \/ /\ w \in Supervising /\ phase[w] = "completing"
               /\ status'[current[w]] \in Final
               /\ \A c \in Commands : c # current[w] => response'[c] = response[c]
<1> DEFINE c == current[w]
<1>1. /\ thread[w] \in Saving /\ c \in Commands \ batch[w] /\ batch[w] \in SUBSET Commands
      /\ UNCHANGED <<request, processing, carried, raced, cut>>
  BY DEF CommitComplete, QueueInv, HandMatchesPhase, HandMatches, TypeOK, WorkerTypes
<1> DEFINE new == IF ~Holds(w, c) THEN status[c]
                  ELSE IF thread[w] = "success" THEN "SUCCEEDED" ELSE "FAILED"
<1>2. status' = [status EXCEPT ![c] = new]
  BY DEF CommitComplete
<1>3. status'[c] = new /\ \A b \in Commands : b # c => status'[b] = status[b]
  BY <1>1, <1>2 DEF TypeOK, RowTypes
<1>4. /\ \A b \in Commands : status[b] \in Final => status'[b] = status[b]
      /\ Holds(w, c) => status'[c] \in Final
  BY <1>3 DEF Holds, Final
<1>5. \/ UNCHANGED response
      \/ /\ w \in Supervising /\ phase[w] = "completing" /\ Holds(w, c)
         /\ \A b \in Commands : b # c => response'[b] = response[b]
  BY <1>1 DEF CommitComplete, Forgets, TypeOK, RowTypes
<1>6. CASE phase[w] = "completing"
  <2>1. Begin(w, batch[w])
    BY <1>6 DEF CommitComplete
  <2>2. /\ \A v \in Workers : v # w => /\ phase'[v] = phase[v] /\ current'[v] = current[v]
                                      /\ batch'[v] = batch[v]
        /\ phase'[w] \in {"idle", "executing"} /\ InHand(w)' \subseteq batch[w]
    BY <1>1, <2>1, BeginEffect DEF InHand
  <2>3. QED
    BY <1>1, <1>4, <1>5, <1>6, <2>2
<1>7. CASE phase[w] # "completing"
  <2>1. /\ current' = [current EXCEPT ![w] = NoCommand] /\ UNCHANGED <<phase, batch>>
    BY <1>7 DEF CommitComplete
  <2>2. InHand(w)' \subseteq batch[w] /\ \A v \in Workers : v # w => current'[v] = current[v]
    BY <2>1 DEF InHand, TypeOK, WorkerTypes
  <2>3. QED
    BY <1>1, <1>4, <1>5, <1>7, <2>1, <2>2
<1>8. QED
  BY <1>6, <1>7

LEMMA Sorts ==
  Supervising \subseteq Workers /\ Runtime \subseteq Commands /\ NoCommand \notin Commands
BY QueueAssumption

\* The command that a worker executes is of its kind.
LEMMA InHands ==
  ASSUME TypeOK, QueueInv, HandKind, NEW w \in Workers, phase[w] \in Busy
  PROVE  current[w] \in Kind(w) /\ current[w] \in Commands
BY QueueAssumption DEF QueueInv, HandMatchesPhase, HandMatches, HandKind, InHand

\* A process starts when the one before it is gone.
LEMMA NextAlone ==
  ASSUME TypeOK, QueueInv, Alone, [Next]_vars
  PROVE  Alone'
<1>1. ASSUME NEW c \in Commands, Enqueue(c) PROVE Alone'
  BY <1>1, Sorts
     DEF Enqueue, rowVars, fileVars, workerVars, Alone, Up, Running, TypeOK, WorkerTypes
<1>2. ASSUME NEW c \in Commands, Supervises(c) PROVE Alone'
  BY <1>2, SupervisesFrame, Sorts
     DEF rowVars, workerVars, Alone, Up, Running, TypeOK, WorkerTypes
<1>3. ASSUME NEW w \in Workers, Start(w) PROVE Alone'
  BY <1>3, Sorts DEF Start, rowVars, fileVars, Alone, Up, Running, TypeOK, WorkerTypes
<1>4. ASSUME NEW w \in Workers, AskClaim(w) PROVE Alone'
  BY <1>4, Sorts DEF AskClaim, rowVars, fileVars, Alone, Up, Running, TypeOK, WorkerTypes
<1>5. ASSUME NEW w \in Workers, CommitClaim(w) PROVE Alone'
  BY <1>5, ClaimEffect, Sorts DEF Alone, Up, Running, TypeOK, WorkerTypes
<1>6. ASSUME NEW w \in Workers, CommitComplete(w) PROVE Alone'
  BY <1>6, CompleteEffect, Sorts DEF Alone, Up, Running, TypeOK, WorkerTypes
<1>7. ASSUME NEW w \in Workers, BridgeExecutes(w) PROVE Alone'
  BY <1>7, InHands, Sorts
     DEF BridgeExecutes, Report, rowVars, Alone, Up, Running, TypeOK, WorkerTypes
<1>8. ASSUME NEW w \in Workers, LookForResponse(w) PROVE Alone'
  BY <1>8, InHands, Sorts
     DEF LookForResponse, Answered, Report, rowVars, fileVars, Alone, Up, Running, TypeOK,
         WorkerTypes
<1>9. ASSUME NEW w \in Workers, Dispatch(w) PROVE Alone'
  BY <1>9, InHands, Sorts
     DEF Dispatch, Report, rowVars, Alone, Up, Running, TypeOK, WorkerTypes
<1>10. ASSUME NEW w \in Workers, Await(w) PROVE Alone'
  BY <1>10, Sorts
     DEF Await, Answered, Report, rowVars, fileVars, Alone, Up, Running, TypeOK,
         WorkerTypes
<1>11. ASSUME NEW w \in Workers, Release(w) PROVE Alone'
  BY <1>11, Sorts
     DEF Release, Mine, Holds, fileVars, Alone, Up, Running, TypeOK, WorkerTypes
<1>12. ASSUME NEW w \in Workers, StoreFails(w) PROVE Alone'
  BY <1>12, Sorts
     DEF StoreFails, rowVars, fileVars, Alone, Up, Running, TypeOK, WorkerTypes
<1>13. ASSUME NEW w \in Workers, Close(w) PROVE Alone'
  BY <1>13, InHands, Sorts DEF Close, rowVars, Alone, Up, Running, TypeOK, WorkerTypes
<1>14. ASSUME NEW w \in Workers, Crash(w) PROVE Alone'
  BY <1>14, InHands, Sorts DEF Crash, rowVars, Alone, Up, Running, TypeOK, WorkerTypes
<1>15. ASSUME Tick PROVE Alone'
  BY <1>15, Sorts DEF Tick, fileVars, Alone, Up, Running, TypeOK, WorkerTypes
<1>16. ASSUME UNCHANGED vars PROVE Alone'
  BY <1>16 DEF vars, rowVars, fileVars, workerVars, Alone, Up, Running, TypeOK, WorkerTypes
<1>17. QED
  BY <1>1, <1>2, <1>3, <1>4, <1>5, <1>6, <1>7, <1>8, <1>9, <1>10, <1>11, <1>12, <1>13, <1>14,
      <1>15, <1>16
     DEF Next, Supervises, WorkerStep, FaultStep

\* Only a claim fills a worker's hands.
LEMMA NextHandKind ==
  ASSUME TypeOK, QueueInv, HandKind, [Next]_vars
  PROVE  HandKind'
<1>1. ASSUME NEW c \in Commands, Enqueue(c) PROVE HandKind'
  BY <1>1, Sorts
     DEF Enqueue, rowVars, fileVars, workerVars, HandKind, InHand, Kind, Busy, TypeOK,
         WorkerTypes
<1>2. ASSUME NEW c \in Commands, Supervises(c) PROVE HandKind'
  BY <1>2, SupervisesFrame, Sorts
     DEF rowVars, workerVars, HandKind, InHand, Kind, Busy, TypeOK,
         WorkerTypes
<1>3. ASSUME NEW w \in Workers, Start(w) PROVE HandKind'
  BY <1>3, Sorts DEF Start, rowVars, fileVars, HandKind, InHand, Kind, Busy, TypeOK, WorkerTypes
<1>4. ASSUME NEW w \in Workers, AskClaim(w) PROVE HandKind'
  BY <1>4, Sorts
     DEF AskClaim, rowVars, fileVars, HandKind, InHand, Kind, Busy, TypeOK, WorkerTypes
<1>5. ASSUME NEW w \in Workers, CommitClaim(w) PROVE HandKind'
  BY <1>5, ClaimEffect, Sorts DEF HandKind, InHand, Kind, Busy, TypeOK, WorkerTypes
<1>6. ASSUME NEW w \in Workers, CommitComplete(w) PROVE HandKind'
  BY <1>6, CompleteEffect, Sorts DEF HandKind, InHand, Kind, Busy, TypeOK, WorkerTypes
<1>7. ASSUME NEW w \in Workers, BridgeExecutes(w) PROVE HandKind'
  BY <1>7, InHands, Sorts
     DEF BridgeExecutes, Report, rowVars, HandKind, InHand, Kind, Busy, TypeOK, WorkerTypes
<1>8. ASSUME NEW w \in Workers, LookForResponse(w) PROVE HandKind'
  BY <1>8, InHands, Sorts
     DEF LookForResponse, Answered, Report, rowVars, fileVars, HandKind, InHand, Kind, Busy,
         TypeOK, WorkerTypes
<1>9. ASSUME NEW w \in Workers, Dispatch(w) PROVE HandKind'
  BY <1>9, InHands, Sorts
     DEF Dispatch, Report, rowVars, HandKind, InHand, Kind, Busy, TypeOK, WorkerTypes
<1>10. ASSUME NEW w \in Workers, Await(w) PROVE HandKind'
  BY <1>10, Sorts
     DEF Await, Answered, Report, rowVars, fileVars, HandKind, InHand, Kind, Busy, TypeOK,
         WorkerTypes
<1>11. ASSUME NEW w \in Workers, Release(w) PROVE HandKind'
  BY <1>11, Sorts
     DEF Release, Mine, Holds, fileVars, HandKind, InHand, Kind, Busy, TypeOK, WorkerTypes
<1>12. ASSUME NEW w \in Workers, StoreFails(w) PROVE HandKind'
  BY <1>12, Sorts
     DEF StoreFails, rowVars, fileVars, HandKind, InHand, Kind, Busy, TypeOK, WorkerTypes
<1>13. ASSUME NEW w \in Workers, Close(w) PROVE HandKind'
  BY <1>13, InHands, Sorts DEF Close, rowVars, HandKind, InHand, Kind, Busy, TypeOK, WorkerTypes
<1>14. ASSUME NEW w \in Workers, Crash(w) PROVE HandKind'
  BY <1>14, InHands, Sorts DEF Crash, rowVars, HandKind, InHand, Kind, Busy, TypeOK, WorkerTypes
<1>15. ASSUME Tick PROVE HandKind'
  BY <1>15, Sorts DEF Tick, fileVars, HandKind, InHand, Kind, Busy, TypeOK, WorkerTypes
<1>16. ASSUME UNCHANGED vars PROVE HandKind'
  BY <1>16
     DEF vars, rowVars, fileVars, workerVars, HandKind, InHand, Kind, Busy, TypeOK, WorkerTypes
<1>17. QED
  BY <1>1, <1>2, <1>3, <1>4, <1>5, <1>6, <1>7, <1>8, <1>9, <1>10, <1>11, <1>12, <1>13, <1>14,
      <1>15, <1>16
     DEF Next, Supervises, WorkerStep, FaultStep

\* A request is written, or asked for again, when no file of the command is in process.
LEMMA NextOneFile == TypeOK /\ OneFile /\ [Next]_vars => OneFile'
<1> SUFFICES ASSUME TypeOK, OneFile, [Next]_vars, NEW c \in Commands
             PROVE  request'[c] => processing'[c] = "none"
  BY DEF OneFile
<1> DEFINE Goal == request'[c] => processing'[c] = "none"
<1>1. ASSUME UNCHANGED <<request, processing>> PROVE Goal
  BY <1>1 DEF OneFile
<1>2. ASSUME NEW d \in Commands, Supervises(d) PROVE Goal
  BY <1>2 DEF Supervises, Serves, SupervisorClaims, SupervisorActs, SupervisorAnswers,
     SupervisorRemoves, SupervisorRecovers, SupervisorLeaves, Serving, Done, OneFile, TypeOK,
     RowTypes
<1>3. ASSUME NEW w \in Workers, Dispatch(w) PROVE Goal
  BY <1>3 DEF Dispatch, OneFile, TypeOK, RowTypes
<1>4. ASSUME NEW w \in Workers, WorkerStep(w) PROVE Goal
  <2>1. CASE Dispatch(w)
    BY <1>3, <2>1
  <2>2. CASE ~Dispatch(w)
    BY <1>1, <1>4, <2>2 DEF WorkerStep, Start, AskClaim, CommitClaim, CommitComplete,
       BridgeExecutes, LookForResponse, Await, Release, fileVars
  <2>3. QED
    BY <2>1, <2>2
<1>5. ASSUME NEW w \in Workers, FaultStep(w) PROVE Goal
  BY <1>1, <1>5 DEF FaultStep, StoreFails, Close, Crash, fileVars
<1>6. ASSUME NEW d \in Commands, Enqueue(d) PROVE Goal
  BY <1>1, <1>6 DEF Enqueue, fileVars
<1>7. CASE Tick \/ UNCHANGED vars
  BY <1>1, <1>7 DEF Tick, vars, fileVars
<1>8. QED
  BY <1>2, <1>4, <1>5, <1>6, <1>7 DEF Next, Supervises

\* What a step may do to the other commands, and to one whose row has ended.
LEMMA AnswersKept ==
  ASSUME NEW c \in Runtime, AnswersOf(c),
         request'[c] = request[c], processing'[c] = processing[c], carried'[c] = carried[c],
         raced \cup cut \subseteq raced' \cup cut',
         AboutToAsk(c)' => AboutToAsk(c),
         response'[c] = response[c] \/ (status'[c] \in Final /\ Unsought(c)'),
         status[c] \in Final /\ Unsought(c) => status'[c] \in Final /\ Unsought(c)'
  PROVE  AnswersOf(c)'
BY DEF AnswersOf, AnsweredOnce

\* The steps of the Supervisor on a command's file.
LEMMA SupervisesAnswers ==
  ASSUME TypeOK, OneFile, NEW c \in Runtime, AnswersOf(c), NEW d \in Commands, Supervises(d)
  PROVE  AnswersOf(c)'
<1> USE Sorts
<1>1. /\ UNCHANGED <<status, phase, current, batch>>
      /\ Unsought(c)' <=> Unsought(c)
      /\ AboutToAsk(c)' <=> AboutToAsk(c)
  BY SupervisesFrame DEF rowVars, workerVars, Unsought, AboutToAsk
<1>2. CASE c # d
  <2>1. /\ request'[c] = request[c] /\ processing'[c] = processing[c]
        /\ carried'[c] = carried[c] /\ response'[c] = response[c]
        /\ raced \cup cut \subseteq raced' \cup cut'
    BY <1>2 DEF Supervises, Serves, SupervisorClaims, SupervisorActs, SupervisorAnswers,
       SupervisorRemoves, SupervisorRecovers, SupervisorLeaves, TypeOK, RowTypes
  <2>2. QED
    BY <1>1, <2>1, AnswersKept
<1>3. CASE c = d
  <2> USE <1>3 DEF AnswersOf, AnsweredOnce, Serving, Done, TypeOK, RowTypes
  <2>1. CASE SupervisorClaims(c)
    BY <2>1, <1>1 DEF SupervisorClaims
  <2>2. CASE SupervisorActs(c)
    BY <2>2, <1>1 DEF SupervisorActs, OneFile, More
  <2>3. CASE SupervisorAnswers(c)
    BY <2>3, <1>1 DEF SupervisorAnswers
  <2>4. CASE SupervisorRemoves(c)
    BY <2>4, <1>1 DEF SupervisorRemoves
  <2>5. CASE SupervisorLeaves(c)
    BY <2>5, <1>1 DEF SupervisorLeaves
  <2>6. CASE SupervisorRecovers(c)
    BY <2>6, <1>1 DEF SupervisorRecovers
  <2>7. QED
    BY <2>1, <2>2, <2>3, <2>4, <2>5, <2>6 DEF Supervises, Serves
<1>4. QED
  BY <1>2, <1>3

\* A claim takes rows that have not ended.
LEMMA ClaimAnswers ==
  ASSUME TypeOK, QueueInv, HandKind, NEW c \in Runtime, AnswersOf(c),
         NEW w \in Workers, CommitClaim(w)
  PROVE  AnswersOf(c)'
<1>1. ASSUME status[c] \in Final, Unsought(c)
      PROVE  status'[c] \in Final /\ Unsought(c)'
  <2>1. c \in Commands /\ status'[c] \in Final
    BY <1>1, ClaimEffect, Sorts
  <2>2. ASSUME NEW v \in Workers
        PROVE  c \notin batch'[v] /\ ~(current'[v] = c /\ phase'[v] = "executing")
    <3>1. CASE UNCHANGED <<phase, current, batch>> \/ v # w
      BY <1>1, <3>1, ClaimEffect DEF Unsought
    <3>2. CASE v = w /\ InHand(w)' \subseteq {b \in Kind(w) : status[b] \notin Final}
      <4>1. c \notin InHand(w)' /\ c # NoCommand
        BY <1>1, <2>1, <3>2, Sorts
      <4>2. QED
        BY <3>2, <4>1 DEF InHand
    <3>3. QED
      BY <3>1, <3>2, ClaimEffect
  <2>3. QED
    BY <2>1, <2>2 DEF Unsought
<1>2. AboutToAsk(c)' => AboutToAsk(c)
  BY ClaimEffect, Sorts DEF AboutToAsk
<1>3. QED
  BY <1>1, <1>2, ClaimEffect, AnswersKept

\* A response is removed only when the row has ended.
LEMMA CompleteAnswers ==
  ASSUME TypeOK, QueueInv, Alone, HandKind, NEW c \in Runtime, AnswersOf(c),
         NEW w \in Workers, CommitComplete(w)
  PROVE  AnswersOf(c)'
<1>1. AboutToAsk(c)' => AboutToAsk(c)
  <2>1. c \in Commands
    BY Sorts
  <2>2. current'[w] \in Commands => phase'[w] # "asking" \/ phase'[w] = phase[w]
    BY CompleteEffect
  <2>3. phase[w] # "asking"
    BY CompleteEffect DEF QueueInv, HandMatchesPhase, HandMatches, Saving
  <2>4. QED
    BY <2>1, <2>2, <2>3, CompleteEffect DEF AboutToAsk
<1>2. ASSUME status[c] \in Final, Unsought(c)
      PROVE  status'[c] \in Final /\ Unsought(c)'
  <2>1. c \in Commands /\ c # NoCommand /\ status'[c] \in Final
    BY <1>2, CompleteEffect, Sorts
  <2>2. c \notin InHand(w)'
    BY <1>2, CompleteEffect DEF Unsought
  <2>3. c \notin batch'[w] /\ current'[w] # c
    BY <2>1, <2>2 DEF InHand
  <2>4. QED
    BY <1>2, <2>1, <2>3, CompleteEffect DEF Unsought
<1>3. ASSUME response'[c] # response[c]
      PROVE  status'[c] \in Final /\ Unsought(c)'
  <2>1. /\ c = current[w] /\ w \in Supervising /\ phase[w] = "completing"
        /\ status'[c] \in Final /\ c \in Commands /\ c # NoCommand /\ c \notin batch[w]
    BY <1>3, CompleteEffect, Sorts
  <2>2. c \notin batch'[w] /\ current'[w] # c
    BY <2>1, CompleteEffect DEF InHand
  <2>3. ASSUME NEW v \in Workers, v # w,
               c \in batch[v] \/ (current[v] = c /\ phase[v] = "executing")
        PROVE  FALSE
    <3>1. c \in InHand(v)
      BY <2>1, <2>3 DEF InHand
    <3>2. v \in Supervising
      BY <3>1 DEF HandKind, Kind
    <3>3. phase[v] \in Busy
      BY <2>3 DEF QueueInv, HandMatchesPhase, HandMatches, Busy
    <3>4. Up(v) /\ Up(w)
      BY <2>1, <3>3 DEF Up, Running, Busy
    <3>5. QED
      BY <2>1, <2>3, <3>2, <3>4 DEF Alone
  <2>4. QED
    BY <2>1, <2>2, <2>3, CompleteEffect DEF Unsought
<1>4. QED
  BY <1>1, <1>2, <1>3, CompleteEffect, AnswersKept

\* The other steps of the workers.  One that looks for an answer and finds none leaves a
\* command whose answer is being written; one that asks finds no command that was answered.
LEMMA WorkerAnswers ==
  ASSUME TypeOK, QueueInv, Alone, HandKind, NEW c \in Runtime, AnswersOf(c),
         NEW w \in Workers, WorkerStep(w) \/ FaultStep(w)
  PROVE  AnswersOf(c)'
<1> USE Sorts
<1> DEFINE Quiet == /\ request'[c] = request[c] /\ processing'[c] = processing[c]
                    /\ carried'[c] = carried[c] /\ response'[c] = response[c]
                    /\ raced' = raced /\ cut' = cut
                    /\ AboutToAsk(c)' => AboutToAsk(c)
                    /\ status[c] \in Final /\ Unsought(c) => status'[c] \in Final /\ Unsought(c)'
<1>1. ASSUME Quiet PROVE AnswersOf(c)'
  BY <1>1, AnswersKept
<1>2. CASE Start(w) \/ AskClaim(w) \/ Await(w)
  <2>1. Quiet
    BY <1>2 DEF Start, AskClaim, Await, Answered, Report, rowVars, fileVars, AboutToAsk,
       Unsought, TypeOK, WorkerTypes
  <2>2. QED
    BY <1>1, <2>1
<1>3. CASE BridgeExecutes(w) \/ Close(w) \/ Crash(w)
  <2>1. phase[w] = "executing" /\ w \notin Supervising => current[w] # c
    BY InHands DEF Busy, Kind
  <2>2. carried'[c] = carried[c]
    BY <1>3, <2>1 DEF BridgeExecutes, Close, Crash, TypeOK, RowTypes
  <2>3. Quiet
    BY <1>3, <2>2 DEF BridgeExecutes, Close, Crash, Report, rowVars, AboutToAsk, Unsought,
       TypeOK, WorkerTypes
  <2>4. QED
    BY <1>1, <2>3
<1>4. CASE Release(w) \/ StoreFails(w)
  <2>1. status[c] \in Final => status'[c] = status[c]
    BY <1>4 DEF Release, StoreFails, Mine, Holds, Final, rowVars, TypeOK, RowTypes
  <2>2. Quiet
    BY <1>4, <2>1 DEF Release, StoreFails, fileVars, AboutToAsk, Unsought, TypeOK, WorkerTypes
  <2>3. QED
    BY <1>1, <2>2
<1>5. CASE LookForResponse(w)
  <2>1. /\ UNCHANGED <<rowVars, fileVars, current, batch>>
        /\ phase[w] = "executing" /\ \A v \in Workers : v # w => phase'[v] = phase[v]
        /\ phase'[w] = "completing" \/ (phase'[w] = "asking" /\ response[current[w]] = "none")
    BY <1>5 DEF LookForResponse, Answered, Report, TypeOK, WorkerTypes
  <2>2. Unsought(c) => Unsought(c)'
    BY <2>1 DEF Unsought
  <2>3. CASE AboutToAsk(c)' => AboutToAsk(c)
    BY <1>1, <2>1, <2>2, <2>3 DEF rowVars, fileVars
  <2>4. CASE AboutToAsk(c)' /\ ~AboutToAsk(c)
    <3>1. current[w] = c /\ response[c] = "none" /\ ~Unsought(c)
      BY <2>1, <2>4 DEF AboutToAsk, Unsought
    <3>2. QED
      BY <2>1, <3>1 DEF AnswersOf, AnsweredOnce, rowVars, fileVars, Done
  <2>5. QED
    BY <2>3, <2>4
<1>6. CASE Dispatch(w)
  <2>1. /\ UNCHANGED <<status, processing, response, carried, raced, cut, current, batch>>
        /\ phase[w] = "asking" /\ phase'[w] \in {"completing", "waiting"}
        /\ \A v \in Workers : v # w => phase'[v] = phase[v]
        /\ request'[c] = request[c] \/ (current[w] = c /\ processing[c] = "none")
    BY <1>6 DEF Dispatch, Report, rowVars, TypeOK, WorkerTypes, RowTypes
  <2>2. /\ AboutToAsk(c)' => AboutToAsk(c)
        /\ Unsought(c) => Unsought(c)'
        /\ current[w] = c => AboutToAsk(c)
    BY <2>1 DEF AboutToAsk, Unsought
  <2>3. CASE request'[c] = request[c]
    BY <1>1, <2>1, <2>2, <2>3
  <2>4. CASE request'[c] # request[c]
    BY <2>1, <2>2, <2>4 DEF AnswersOf, AnsweredOnce
  <2>5. QED
    BY <2>3, <2>4
<1>7. QED
  BY <1>2, <1>3, <1>4, <1>5, <1>6, ClaimAnswers, CompleteAnswers DEF WorkerStep, FaultStep

LEMMA NextAnswers ==
  ASSUME TypeOK, QueueInv, Alone, HandKind, OneFile, Answers, [Next]_vars
  PROVE  Answers'
<1> SUFFICES ASSUME NEW c \in Runtime PROVE AnswersOf(c)'
  BY DEF Answers
<1>1. AnswersOf(c)
  BY DEF Answers
<1>2. ASSUME NEW d \in Commands, Supervises(d) PROVE AnswersOf(c)'
  BY <1>1, <1>2, SupervisesAnswers
<1>3. ASSUME NEW w \in Workers, WorkerStep(w) \/ FaultStep(w) PROVE AnswersOf(c)'
  BY <1>1, <1>3, WorkerAnswers
<1>4. ASSUME NEW d \in Commands, Enqueue(d) PROVE AnswersOf(c)'
  <2>1. /\ UNCHANGED <<fileVars, phase, current, batch>>
        /\ status[c] \in Final => status'[c] = status[c]
    BY <1>4, Sorts DEF Enqueue, workerVars, Final, TypeOK, RowTypes
  <2>2. (Unsought(c)' <=> Unsought(c)) /\ (AboutToAsk(c)' <=> AboutToAsk(c))
    BY <2>1 DEF Unsought, AboutToAsk
  <2>3. QED
    BY <1>1, <2>1, <2>2, AnswersKept DEF fileVars
<1>5. CASE Tick \/ UNCHANGED vars
  <2>1. UNCHANGED <<fileVars, phase, current, batch, status>>
    BY <1>5 DEF Tick, vars, rowVars, fileVars, workerVars
  <2>2. (Unsought(c)' <=> Unsought(c)) /\ (AboutToAsk(c)' <=> AboutToAsk(c))
    BY <2>1 DEF Unsought, AboutToAsk
  <2>3. QED
    BY <1>1, <2>1, <2>2, AnswersKept DEF fileVars
<1>6. QED
  BY <1>2, <1>3, <1>4, <1>5 DEF Next, Supervises

LEMMA NextOnce == TypeOK /\ QueueInv /\ OnceInv /\ [Next]_vars => OnceInv'
BY NextAlone, NextHandKind, NextOneFile, NextAnswers DEF OnceInv

\* Across restarts, lost leases and failed acknowledgements a service command is carried out
\* again in two cases only: the Supervisor answered it while a worker was between looking for
\* that answer and writing the request, or it left the file behind after executing the command.
THEOREM OnceCorrect == Spec => []OnceUnlessRacedOrCut
<1>1. Init => OnceInv
  <2>1. SUFFICES ASSUME Init PROVE OnceInv
    OBVIOUS
  <2>2. Alone /\ HandKind
    BY <2>1, Sorts DEF Init, Alone, Up, Running, HandKind, InHand
  <2>3. OneFile /\ Answers
    BY <2>1, Sorts DEF Init, OneFile, Answers, AnswersOf
  <2>4. QED
    BY <2>2, <2>3 DEF OnceInv
<1>2. TypeOK /\ QueueInv /\ OnceInv /\ [Next]_vars => OnceInv'
  BY NextOnce
<1>3. OnceInv => OnceUnlessRacedOrCut
  BY DEF OnceInv, Answers, AnswersOf, AnsweredOnce, OnceUnlessRacedOrCut
<1>4. QED
  BY <1>1, <1>2, <1>3, TypeCorrect, QueueInvariant, PTL DEF Spec
=============================================================================
