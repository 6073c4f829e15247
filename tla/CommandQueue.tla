----------------------------- MODULE CommandQueue -----------------------------
(***************************************************************************)
(* The durable table of control commands (admin/store.py) and the workers  *)
(* that lease its rows: AdminControlWorker in the Bridge process           *)
(* (control_worker.py), which takes a batch and executes it in order, and  *)
(* SupervisorRuntimeCommandWorker in the admin process                     *)
(* (admin/runtime_worker.py), which takes one service command and has the  *)
(* Local Supervisor carry it out through request and response files.       *)
(*                                                                         *)
(* A worker stands for one process lifetime.  A call to the store is a     *)
(* thread (asyncio.to_thread): it outlives the cancellation of the         *)
(* coroutine that waits for it, and its transaction is one step.  Time     *)
(* passes in ticks; a lease is known by its age.                           *)
(***************************************************************************)
EXTENDS Naturals, FiniteSets

CONSTANTS
  Commands,     \* ids of rows
  Workers,      \* process lifetimes
  Runtime,      \* the service commands (START_, STOP_, RESTART_SERVICE)
  Supervising,  \* the workers of the admin process; the others are Bridges
  NoWorker,     \* claimed_by IS NULL
  NoCommand,    \* a worker that is between two commands
  BridgeBatch,  \* limit=10 of the Bridge's claim (the Supervisor's is 1)
  BridgeLease, SupervisorLease,   \* lease_seconds of each, in ticks
  BridgeRun,    \* how long the Bridge may take for one command
  Window,       \* command_timeout_seconds of the Supervisor's client
  Faults        \* bound: crashes, shutdowns and store errors of a behaviour

ASSUME QueueAssumption ==
  /\ IsFiniteSet(Commands)
  /\ Runtime \subseteq Commands /\ Supervising \subseteq Workers
  /\ NoWorker \notin Workers /\ NoCommand \notin Commands
  /\ {BridgeBatch, BridgeLease, SupervisorLease, BridgeRun, Window} \subseteq Nat \ {0}
  /\ Faults \in Nat

VARIABLES
  status,   \* control_commands.status; "none" before the row exists
  created,  \* created_at, as a rank
  owner,    \* claimed_by
  age,      \* now - claimed_at
  request,  \* whether a request file of the command waits for the Supervisor
  processing, \* its file in processing/: "none", or how far the Supervisor got with it
  response, \* its answer
  carried,  \* history: how often the command was carried out
  raced,    \* history: commands answered while a worker was about to ask
  cut,      \* history: commands executed, whose file the Supervisor left behind
  phase,    \* what the coroutine of each worker is doing
  current,  \* the command it executes
  batch,    \* the commands it has claimed and not begun
  spent,    \* how long it has been executing the current one
  thread,   \* its store call in flight
  stale,    \* history: commands in its hands whose lease it lost
  faults    \* how many faults have happened

rowVars    == <<status, created, owner, age>>
workerVars == <<phase, current, batch, spent, thread>>
fileVars   == <<request, processing, response, carried, raced, cut>>
vars == <<rowVars, fileVars, workerVars, stale, faults>>

Final     == {"SUCCEEDED", "FAILED"}
Kind(w)   == IF w \in Supervising THEN Runtime ELSE Commands \ Runtime
LeaseOf(w) == IF w \in Supervising THEN SupervisorLease ELSE BridgeLease
LimitOf(w) == IF w \in Supervising THEN 1 ELSE BridgeBatch
RunOf(w)  == IF w \in Supervising THEN Window ELSE BridgeRun
MaxLease  == IF BridgeLease > SupervisorLease THEN BridgeLease ELSE SupervisorLease
Running   == {"idle", "claiming", "executing", "asking", "waiting", "completing"}
Done      == {"ok", "bad"}                \* executed, and the answer to give
Serving   == {"claimed", "answered"} \cup Done
Saving    == {"success", "failure"}       \* calls of complete_control_command
More(n)   == IF n = "no" THEN "once" ELSE "again"
InHand(w) == batch[w] \cup ({current[w]} \ {NoCommand})

Init ==
  /\ status = [c \in Commands |-> "none"]
  /\ created = [c \in Commands |-> 0]
  /\ owner = [c \in Commands |-> NoWorker]
  /\ age = [c \in Commands |-> 0]
  /\ request = [c \in Commands |-> FALSE]
  /\ processing = [c \in Commands |-> "none"]
  /\ response = [c \in Commands |-> "none"]
  /\ carried = [c \in Commands |-> "no"]
  /\ raced = {} /\ cut = {}
  /\ phase = [w \in Workers |-> "off"]
  /\ current = [w \in Workers |-> NoCommand]
  /\ batch = [w \in Workers |-> {}]
  /\ spent = [w \in Workers |-> 0]
  /\ thread = [w \in Workers |-> "none"]
  /\ stale = [w \in Workers |-> {}]
  /\ faults = 0

-----------------------------------------------------------------------------
(* The store. *)

(* A new idempotency key: the row is inserted. *)
Enqueue(c) ==
  /\ status[c] = "none"
  /\ status' = [status EXCEPT ![c] = "PENDING"]
  /\ created' = [created EXCEPT ![c] = Cardinality({d \in Commands : status[d] # "none"})]
  /\ UNCHANGED <<owner, age, fileVars, workerVars, stale, faults>>

(* fault: a lease never expires *)
ExpiredNever(w) == {}

(* "status='RUNNING' AND claimed_at<?": by the lease of the claiming worker,  *)
(* for every type of command.                                                 *)
Expired(w) == {c \in Commands : status[c] = "RUNNING" /\ age[c] > LeaseOf(w)}

(* The status of a row whose lease was taken back. *)
Returned == "PENDING"

(* The oldest pending rows of the worker's types, up to its limit. *)
Claimable(w) == {c \in Kind(w) : status[c] = "PENDING" \/ c \in Expired(w)}
Oldest(w, T) == /\ T \subseteq Claimable(w) /\ Cardinality(T) <= LimitOf(w)
                /\ Cardinality(T) < LimitOf(w) => T = Claimable(w)
                /\ \A c \in T, d \in Claimable(w) \ T : created[c] < created[d]
First(c, T) == \A d \in T : created[c] <= created[d]

(* The worker goes on with command c, or without one, and keeps T for later. *)
Proceed(w, p, c, T) == /\ phase' = [phase EXCEPT ![w] = p]
                       /\ current' = [current EXCEPT ![w] = c]
                       /\ batch' = [batch EXCEPT ![w] = T]
                       /\ spent' = [spent EXCEPT ![w] = 0]

(* The next of the commands in T, by created_at; with none, the worker waits  *)
(* for its next poll.                                                         *)
Begin(w, T) ==
  \/ T = {} /\ Proceed(w, "idle", NoCommand, {})
  \/ \E c \in T : First(c, T) /\ Proceed(w, "executing", c, T \ {c})

CommitClaim(w) ==
  /\ thread[w] = "claim"
  /\ \E T \in SUBSET Claimable(w) :
       /\ Oldest(w, T)
       /\ status' = [c \in Commands |-> IF c \in T THEN "RUNNING"
                                        ELSE IF c \in Expired(w) THEN Returned
                                        ELSE status[c]]
       /\ owner' = [c \in Commands |-> IF c \in T THEN w
                                       ELSE IF c \in Expired(w) THEN NoWorker
                                       ELSE owner[c]]
       /\ age' = [c \in Commands |-> IF c \in T \cup Expired(w) THEN 0 ELSE age[c]]
       /\ IF phase[w] = "claiming" THEN Begin(w, T)
                                   ELSE UNCHANGED <<phase, current, batch, spent>>
  /\ thread' = [thread EXCEPT ![w] = "none"]
  /\ stale' = [v \in Workers |-> stale[v] \cup (InHand(v) \cap Expired(w))]
  /\ UNCHANGED <<created, fileVars, faults>>

(* fault: any row that has not ended is completed *)
HoldsUnended(w, c) == status[c] \notin Final

(* "id=? AND status='RUNNING' AND claimed_by=?" *)
Holds(w, c) == status[c] = "RUNNING" /\ owner[c] = w

(* fault: the response file is removed whether or not the row was completed *)
ForgetsAlways(w) == phase[w] = "completing" /\ w \in Supervising /\ thread[w] = "success"

(* remove_response: after a completion that found its lease. *)
Forgets(w) == /\ phase[w] = "completing" /\ w \in Supervising
              /\ thread[w] = "success" /\ Holds(w, current[w])

(* complete_control_command, and what the worker does on its return. *)
CommitComplete(w) ==
  LET c == current[w]
  IN
  /\ thread[w] \in Saving
  /\ status' = [status EXCEPT ![c] =
                  IF ~Holds(w, c) THEN @
                  ELSE IF thread[w] = "success" THEN "SUCCEEDED" ELSE "FAILED"]
  /\ \/ response' = [response EXCEPT ![c] = IF Forgets(w) THEN "none" ELSE @]
     \/ UNCHANGED response           \* the file could not be removed
  /\ thread' = [thread EXCEPT ![w] = "none"]
  /\ stale' = [stale EXCEPT ![w] = @ \ {c}]
  /\ IF phase[w] = "completing" THEN Begin(w, batch[w])
     ELSE /\ current' = [current EXCEPT ![w] = NoCommand]
          /\ UNCHANGED <<phase, batch, spent>>
  /\ UNCHANGED <<created, owner, age, request, processing, carried, raced, cut, faults>>

-----------------------------------------------------------------------------
(* The workers. *)

(* The previous process of the same kind is gone. *)
Start(w) ==
  /\ phase[w] = "off"
  /\ \A v \in Workers : (v \in Supervising <=> w \in Supervising) =>
        phase[v] \notin Running \cup {"closing"} /\ thread[v] = "none"
  /\ phase' = [phase EXCEPT ![w] = "idle"]
  /\ UNCHANGED <<rowVars, fileVars, current, batch, spent, thread, stale,
                 faults>>

AskClaim(w) ==
  /\ phase[w] = "idle"
  /\ phase' = [phase EXCEPT ![w] = "claiming"]
  /\ thread' = [thread EXCEPT ![w] = "claim"]
  /\ UNCHANGED <<rowVars, fileVars, current, batch, spent, stale, faults>>

(* The execution ended; its result goes to the store. *)
Report(w, how) == /\ phase' = [phase EXCEPT ![w] = "completing"]
                  /\ thread' = [thread EXCEPT ![w] = how]
                  /\ UNCHANGED <<current, batch, spent>>

(* The Bridge cancels the task, ends the session or sends the file.  It may *)
(* fail before or after the effect.                                         *)
BridgeExecutes(w) ==
  /\ phase[w] = "executing" /\ w \notin Supervising
  /\ \/ /\ Report(w, "success")
        /\ carried' = [carried EXCEPT ![current[w]] = More(@)]
     \/ /\ Report(w, "failure")
        /\ \/ UNCHANGED carried
           \/ carried' = [carried EXCEPT ![current[w]] = More(@)]
  /\ UNCHANGED <<rowVars, request, processing, response, raced, cut, stale, faults>>

(* A response is validated. *)
Answered(w) == \/ response[current[w]] = "ok" /\ Report(w, "success")
               \/ response[current[w]] = "bad" /\ Report(w, "failure")

(* dispatch(): a response that an earlier process did not get to record.     *)
LookForResponse(w) ==
  /\ phase[w] = "executing" /\ w \in Supervising
  /\ \/ Answered(w)
     \/ /\ response[current[w]] = "none"
        /\ phase' = [phase EXCEPT ![w] = "asking"]
        /\ UNCHANGED <<current, batch, spent, thread>>
  /\ UNCHANGED <<rowVars, fileVars, stale, faults>>

(* A fresh status; then the request, unless its file is there, waiting or in *)
(* process.  The Supervisor is another process and may have answered since.  *)
Dispatch(w) ==
  /\ phase[w] = "asking"
  /\ \/ Report(w, "failure") /\ UNCHANGED request
     \/ /\ request' = [request EXCEPT ![current[w]] = @ \/ processing[current[w]] = "none"]
        /\ phase' = [phase EXCEPT ![w] = "waiting"]
        /\ UNCHANGED <<current, batch, spent, thread>>
  /\ UNCHANGED <<rowVars, processing, response, carried, raced, cut, stale, faults>>

(* fault: a time-out is reported as a success *)
AwaitOptimistic(w) ==
  /\ phase[w] = "waiting"
  /\ Answered(w) \/ (spent[w] >= Window /\ Report(w, "success"))
  /\ UNCHANGED <<rowVars, fileVars, stale, faults>>

(* The response or the deadline, whichever the loop meets first. *)
Await(w) ==
  /\ phase[w] = "waiting"
  /\ \/ Answered(w)
     \/ response[current[w]] = "none" /\ spent[w] >= Window /\ Report(w, "failure")
  /\ UNCHANGED <<rowVars, fileVars, stale, faults>>

-----------------------------------------------------------------------------
(* The Local Supervisor: a loop over the request files, and what it does with *)
(* the files of processing/ when it starts.                                   *)

Fault == faults < Faults /\ faults' = faults + 1

Idle == \A c \in Commands : processing[c] \notin Serving

SupervisorClaims(c) ==
  /\ Idle /\ request[c] /\ processing[c] = "none"
  /\ request' = [request EXCEPT ![c] = FALSE]
  /\ processing' = [processing EXCEPT ![c] = "claimed"]
  /\ UNCHANGED <<rowVars, response, carried, raced, cut, workerVars, stale, faults>>

(* It does not look whether it has answered that command before. *)
SupervisorActs(c) ==
  /\ processing[c] = "claimed"
  /\ \E how \in Done :
       /\ processing' = [processing EXCEPT ![c] = how]
       /\ \/ carried' = [carried EXCEPT ![c] = More(@)]
          \/ how = "bad" /\ UNCHANGED carried
  /\ UNCHANGED <<rowVars, request, response, raced, cut, workerVars, stale, faults>>

SupervisorAnswers(c) ==
  /\ processing[c] \in Done
  /\ response' = [response EXCEPT ![c] = processing[c]]
  /\ processing' = [processing EXCEPT ![c] = "answered"]
  /\ UNCHANGED <<rowVars, request, carried, raced, cut, workerVars, stale, faults>>

AboutToAsk(c) == \E w \in Workers : phase[w] = "asking" /\ current[w] = c

SupervisorRemoves(c) ==
  /\ processing[c] = "answered"
  /\ processing' = [processing EXCEPT ![c] = "none"]
  /\ raced' = IF AboutToAsk(c) THEN raced \cup {c} ELSE raced
  /\ UNCHANGED <<rowVars, request, response, carried, cut, workerVars, stale, faults>>

(* It dies, or cannot remove the file it has answered. *)
SupervisorLeaves(c) ==
  /\ Fault
  /\ processing[c] \in Serving
  /\ processing' = [processing EXCEPT ![c] = "left"]
  /\ cut' = IF processing[c] = "claimed" THEN cut ELSE cut \cup {c}
  /\ UNCHANGED <<rowVars, request, response, carried, raced, workerVars, stale>>

(* Recover-InterruptedCommands: what has no answer is asked for once more. *)
SupervisorRecovers(c) ==
  /\ Idle /\ processing[c] = "left"
  /\ processing' = [processing EXCEPT ![c] = "none"]
  /\ request' = [request EXCEPT ![c] = @ \/ response[c] = "none"]
  /\ UNCHANGED <<rowVars, response, carried, raced, cut, workerVars, stale, faults>>

-----------------------------------------------------------------------------
(* Faults of the workers: errors of the store, shutdown, crash. *)

(* The store raises.  The Bridge's batch is given up with the exception; the *)
(* Supervisor's worker keeps its lease and polls again.                      *)
StoreFails(w) ==
  /\ Fault
  /\ thread[w] # "none"
  /\ thread' = [thread EXCEPT ![w] = "none"]
  /\ phase' = [phase EXCEPT ![w] = IF @ \in Running THEN "idle" ELSE @]
  /\ current' = [current EXCEPT ![w] = NoCommand]
  /\ batch' = [batch EXCEPT ![w] = {}]
  /\ spent' = [spent EXCEPT ![w] = 0]
  /\ stale' = [stale EXCEPT ![w] = {}]
  /\ UNCHANGED <<rowVars, fileVars>>

(* close(): the coroutine is cancelled; a store call goes on in its thread.  *)
(* A command that was executing may or may not have had its effect.          *)
Close(w) ==
  /\ Fault
  /\ phase[w] \in Running
  /\ phase' = [phase EXCEPT ![w] = IF w \in Supervising THEN "closing" ELSE "closed"]
  /\ current' = [current EXCEPT ![w] = IF thread[w] \in Saving THEN @ ELSE NoCommand]
  /\ batch' = [batch EXCEPT ![w] = {}]
  /\ stale' = [stale EXCEPT ![w] = IF thread[w] \in Saving THEN @ \cap {current[w]}
                                                         ELSE {}]
  /\ \/ UNCHANGED carried
     \/ /\ phase[w] = "executing" /\ w \notin Supervising
        /\ carried' = [carried EXCEPT ![current[w]] = More(@)]
  /\ UNCHANGED <<rowVars, request, processing, response, raced, cut, spent, thread>>

(* fault: the leases are released while a store call is still in flight *)
DrainedNever(w) == TRUE

Drained(w) == thread[w] = "none"

(* fault: the WHERE clause names neither the worker nor the types *)
MineAll(w) == {c \in Commands : status[c] = "RUNNING"}

Mine(w) == {c \in Runtime : Holds(w, c)}

(* The Supervisor's worker waits for its store calls, then returns its rows. *)
Release(w) ==
  /\ phase[w] = "closing" /\ Drained(w)
  /\ status' = [c \in Commands |-> IF c \in Mine(w) THEN Returned ELSE status[c]]
  /\ owner' = [c \in Commands |-> IF c \in Mine(w) THEN NoWorker ELSE owner[c]]
  /\ age' = [c \in Commands |-> IF c \in Mine(w) THEN 0 ELSE age[c]]
  /\ phase' = [phase EXCEPT ![w] = "closed"]
  /\ UNCHANGED <<created, fileVars, current, batch, spent, thread, stale, faults>>

(* The process dies, or its release fails. *)
Crash(w) ==
  /\ Fault
  /\ phase[w] \in Running \cup {"closing"}
  /\ phase' = [phase EXCEPT ![w] = "dead"]
  /\ current' = [current EXCEPT ![w] = NoCommand]
  /\ batch' = [batch EXCEPT ![w] = {}]
  /\ thread' = [thread EXCEPT ![w] = "none"]
  /\ stale' = [stale EXCEPT ![w] = {}]
  /\ \/ UNCHANGED carried
     \/ /\ phase[w] = "executing" /\ w \notin Supervising
        /\ carried' = [carried EXCEPT ![current[w]] = More(@)]
  /\ UNCHANGED <<rowVars, request, processing, response, raced, cut, spent>>

(* A store call that records a result, and a step between two awaits, take no *)
(* time to speak of; what a worker awaits takes at most RunOf.                *)
Awaiting(w) == phase[w] = "waiting" \/ (phase[w] = "executing" /\ w \notin Supervising)
Prompt(w)   == thread[w] \in Saving \/ phase[w] = "asking"
               \/ (phase[w] = "executing" /\ w \in Supervising)
Tick ==
  /\ \A w \in Workers : ~Prompt(w) /\ (Awaiting(w) => spent[w] < RunOf(w))
  /\ \E c \in Commands : status[c] = "RUNNING"
  /\ age' = [c \in Commands |-> IF status[c] = "RUNNING" /\ age[c] <= MaxLease
                                THEN age[c] + 1 ELSE age[c]]
  /\ spent' = [w \in Workers |-> IF Awaiting(w) THEN spent[w] + 1 ELSE spent[w]]
  /\ UNCHANGED <<status, created, owner, fileVars, phase, current, batch,
                 thread, stale, faults>>

-----------------------------------------------------------------------------
WorkerStep(w) == \/ Start(w) \/ AskClaim(w) \/ CommitClaim(w) \/ CommitComplete(w)
                 \/ BridgeExecutes(w) \/ LookForResponse(w) \/ Dispatch(w) \/ Await(w)
                 \/ Release(w)
FaultStep(w)  == StoreFails(w) \/ Close(w) \/ Crash(w)
Serves(c)     == \/ SupervisorClaims(c) \/ SupervisorActs(c) \/ SupervisorAnswers(c)
                 \/ SupervisorRemoves(c) \/ SupervisorRecovers(c)

Next == \/ \E c \in Commands : Enqueue(c) \/ Serves(c) \/ SupervisorLeaves(c)
        \/ \E w \in Workers : WorkerStep(w) \/ FaultStep(w)
        \/ Tick

Spec == Init /\ [][Next]_vars

(* The processes are restarted and run; the Supervisor serves its queue; time *)
(* passes.                                                                    *)
Fairness == /\ \A w \in Workers : WF_vars(WorkerStep(w))
            /\ \A c \in Commands : WF_vars(Serves(c))
            /\ WF_vars(Tick)

FairSpec == Spec /\ Fairness

-----------------------------------------------------------------------------
(* Properties. *)

RowTypes ==
  /\ status \in [Commands -> {"none", "PENDING", "RUNNING"} \cup Final]
  /\ created \in [Commands -> Nat] /\ age \in [Commands -> Nat]
  /\ owner \in [Commands -> Workers \cup {NoWorker}]
  /\ processing \in [Commands -> {"none", "left"} \cup Serving]
  /\ request \in [Commands -> BOOLEAN] /\ response \in [Commands -> {"none", "ok", "bad"}]
  /\ carried \in [Commands -> {"no", "once", "again"}]
  /\ raced \subseteq Commands /\ cut \subseteq Commands
WorkerTypes ==
  /\ phase \in [Workers -> Running \cup {"off", "closing", "closed", "dead"}]
  /\ current \in [Workers -> Commands \cup {NoCommand}]
  /\ batch \in [Workers -> SUBSET Commands] /\ stale \in [Workers -> SUBSET Commands]
  /\ spent \in [Workers -> Nat] /\ faults \in Nat
  /\ thread \in [Workers -> {"none", "claim"} \cup Saving]

(* Type invariant of every variable above. *)
TypeOK == RowTypes /\ WorkerTypes

(* A command in the hands of a worker is leased to that worker until its lease *)
(* expires under it: no release, claim or completion of another worker, and no *)
(* store call that outlives its coroutine, takes it away or brings it back.    *)
HeldUnlessStale ==
  \A w \in Workers : \A c \in InHand(w) : Holds(w, c) <=> c \notin stale[w]

(* Where a worker and its store call stand, and what it has in its hands then. *)
Busy == {"executing", "asking", "waiting", "completing"}
HandMatches(w) ==
  /\ phase[w] \in {"off", "idle", "executing", "asking", "waiting"} => thread[w] = "none"
  /\ phase[w] = "claiming" => thread[w] = "claim"
  /\ phase[w] = "completing" => thread[w] \in Saving
  /\ phase[w] = "closed" /\ w \in Supervising => thread[w] = "none"
  /\ phase[w] \in Busy \/ thread[w] \in Saving => current[w] \in Commands \ batch[w]
  /\ phase[w] \notin Busy => batch[w] = {}
  /\ phase[w] \notin Busy /\ thread[w] \notin Saving => current[w] = NoCommand
  /\ stale[w] \subseteq InHand(w)
HandMatchesPhase == \A w \in Workers : HandMatches(w)

(* A worker leases the commands of its own kind, and a Supervisor's worker that *)
(* is closed leases none.                                                       *)
LeasesOfKind ==
  \A w \in Workers, c \in Commands : Holds(w, c) =>
     /\ c \in Kind(w)
     /\ ~(phase[w] = "closed" /\ w \in Supervising)

(* The inductive invariant. *)
QueueInv == HandMatchesPhase /\ HeldUnlessStale /\ LeasesOfKind

(* A row ends only by the worker that executed it under its present lease: the *)
(* result of an execution whose lease was lost is never recorded, although the *)
(* row is matched by worker and not by lease.                                  *)
NoStaleCompletion ==
  [][\A c \in Commands : status[c] \notin Final /\ status'[c] \in Final =>
       \E w \in Workers : owner[c] = w /\ current[w] = c /\ c \notin stale[w]]_vars

(* "Return this worker's unfinished leases to the queue during shutdown"       *)
(* (release_control_commands): when close() of the Supervisor's worker is over *)
(* it leases nothing, and nothing it left in a thread leases anything later.   *)
NothingLeasedAfterClose ==
  \A w \in Supervising : phase[w] = "closed" =>
     thread[w] = "none" /\ \A c \in Commands : ~Holds(w, c)

(* Across restarts of the admin process, lost leases and failed acknowledgements *)
(* a service command is carried out again in two cases only: the Supervisor      *)
(* answered it while a worker was between looking for that answer and writing    *)
(* the request, or the Supervisor left its file in processing/ after executing   *)
(* it, when it died or could not remove it.  Elsewhere the files make dispatch() *)
(* safe to repeat.                                                               *)
OnceUnlessRacedOrCut == \A c \in Runtime : carried[c] = "again" => c \in raced \cup cut

(* The table implements CommandLedger.tla. *)
StateOf(s) == CASE s = "none" -> "absent"
                [] s = "SUCCEEDED" -> "succeeded"
                [] s = "FAILED" -> "failed"
                [] OTHER -> "open"
Ledger == INSTANCE CommandLedger WITH
  state <- [c \in Commands |-> StateOf(status[c])],
  carried <- carried
ImplementsCommandLedger == Ledger!Spec

(* What the refinement rests on: only rows are executed, and a result that is *)
(* reported, or an answer that is kept, is that of an execution.              *)
LedgerInv ==
  /\ \A c \in Commands : /\ "ok" \in {response[c], processing[c]} => carried[c] # "no"
                         /\ request[c] \/ processing[c] # "none" => status[c] # "none"
  /\ \A w \in Workers : /\ thread[w] = "success" => carried[current[w]] # "no"
                        /\ \A c \in InHand(w) : status[c] # "none"

(* Every command that was accepted ends, as long as the faults do.             *)
EveryCommandEnds == \A c \in Commands : status[c] = "PENDING" ~> status[c] \in Final
=============================================================================
