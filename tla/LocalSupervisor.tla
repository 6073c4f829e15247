--------------------------- MODULE LocalSupervisor ---------------------------
(***************************************************************************)
(* The Local Supervisor (scripts/LocalSupervisor.ps1): it takes the        *)
(* requests that clients file, starts and stops the bridge, records which  *)
(* process it started, and recovers what a crash of its own interrupted.   *)
(* The bridge watches the file that asks it to stop (__main__.py).         *)
(* CommandQueue has the client that files the requests of the console.     *)
(***************************************************************************)
EXTENDS Integers, FiniteSets

CONSTANTS
  Requests,   \* 1..n, in the order of the file names
  Pids,
  MaxBirths,  \* no other process starts after so many have
  MaxFaults   \* crashes of the Supervisor, failed starts, records and kills

ASSUME SupervisorAssumption ==
  /\ Requests \subseteq Nat /\ IsFiniteSet(Requests)
  /\ MaxBirths \in Nat /\ MaxFaults \in Nat

VARIABLES
  file,      \* of a request: the directory it is in
  wants,     \* its action
  response,  \* its response file: none, the answer, or read (and removed) by the client
  at,        \* the step of the Supervisor
  request,   \* the request it executes; 0 for none
  batch,     \* the other requests of this round of Invoke-PendingCommands
  verdict,   \* of that request
  exiting,   \* shouldExit
  child,     \* the process being started
  owned,     \* the state file of the service
  stop,      \* BRIDGE_SHUTDOWN_FILE: when it was written, counted in births; 0: no file
  proc,      \* the process with each id
  births,
  faults,
  orphans    \* history: bridges that were started and never recorded: their Supervisor died before
             \* it could, or failed to write the record, or to kill what it could not record

requests == <<file, wants, response>>
progress == <<request, batch, verdict, exiting>>
vars == <<requests, at, progress, child, owned, stop, proc, births, faults, orphans>>

Actions == {"start", "stop", "emergency-stop", "restart", "shutdown"}
Free == [is |-> "free", born |-> 0, at |-> "none"]
None == [pid |-> 0, born |-> 0]
Verdicts == {"none", "ok", "bad"}

TypeOK ==
  /\ file \in [Requests -> {"none", "commands", "processing", "done"}]
  /\ wants \in [Requests -> Actions \cup {"none"}]
  /\ response \in [Requests -> Verdicts \cup {"read"}]
  /\ at \in {"off", "loop", "start", "spawn", "save", "stop", "wait", "force", "gone", "answer", "clean"}
  /\ request \in Requests \cup {0} /\ batch \subseteq Requests
  /\ verdict \in Verdicts /\ exiting \in BOOLEAN
  /\ child \in [pid : Pids \cup {0}, born : Nat] /\ owned \in [pid : Pids \cup {0}, born : Nat]
  /\ stop \in Nat
  /\ proc \in [Pids -> [is : {"free", "started", "byHand", "other"}, born : Nat,
                        at : {"none", "boot", "run", "leaving", "closing"}]]
  /\ births \in Nat /\ faults \in Nat /\ orphans \subseteq Nat

Init ==
  /\ file = [r \in Requests |-> "none"]
  /\ wants = [r \in Requests |-> "none"]
  /\ response = [r \in Requests |-> "none"]
  /\ at = "off" /\ request = 0 /\ batch = {} /\ verdict = "none" /\ exiting = FALSE
  /\ child = None /\ owned = None /\ stop = 0
  /\ proc = [p \in Pids |-> Free]
  /\ births = 0 /\ faults = 0 /\ orphans = {}

Fault == faults < MaxFaults /\ faults' = faults + 1
Bridges == {p \in Pids : proc[p].is \in {"started", "byHand"}}
Alive(id) == id.pid \in Pids /\ proc[id.pid].is # "free"

\* FAULT: the recorded start time is not compared with that of the process.
SamePid(id) == Alive(id)

\* Test-RecordedProcess, of a recorded process: it is still the one that was started.
Valid(id) == Alive(id) /\ proc[id.pid].is \in {"started", "byHand"} /\ proc[id.pid].born = id.born
-----------------------------------------------------------------------------
\* Send-SupervisorCommand, or dispatch() of the console's worker.
Send(r) ==
  /\ file[r] = "none" /\ \A q \in Requests : q < r => file[q] # "none"
  /\ file' = [file EXCEPT ![r] = "commands"]
  /\ \E a \in Actions : wants' = [wants EXCEPT ![r] = a]
  /\ UNCHANGED <<response, at, progress, child, owned, stop, proc, births, faults, orphans>>

\* The client reads the answer and removes it.
Read(r) ==
  /\ response[r] \in {"ok", "bad"}
  /\ response' = [response EXCEPT ![r] = "read"]
  /\ UNCHANGED <<file, wants, at, progress, child, owned, stop, proc, births, faults, orphans>>

\* FAULT: what was interrupted is left where it is.
NotRecovered(r) == file[r]

\* Recover-InterruptedCommands.
Recovered(r) ==
  CASE file[r] # "processing"         -> file[r]
    [] response[r] \in {"ok", "bad"} -> "done"
    [] OTHER                          -> "commands"

\* Run-Supervisor; the lock file lets one in.
StartSupervisor ==
  /\ at = "off"
  /\ at' = "loop" /\ exiting' = FALSE
  /\ file' = [r \in Requests |-> Recovered(r)]
  /\ UNCHANGED <<wants, response, request, batch, verdict, child, owned, stop, proc, births, faults, orphans>>

First(S, r) == r \in S /\ \A q \in S : r <= q

\* Invoke-PendingCommands: a list of the requests, then one after the other.
Round ==
  /\ at = "loop" /\ batch = {} /\ ~exiting
  /\ batch' = {r \in Requests : file[r] = "commands"} /\ batch' # {}
  /\ UNCHANGED <<requests, at, request, verdict, exiting, child, owned, stop, proc, births, faults, orphans>>

Take(r) ==
  /\ at = "loop" /\ First(batch, r)
  /\ file' = [file EXCEPT ![r] = "processing"]
  /\ batch' = batch \ {r} /\ request' = r
  /\ at' = IF wants[r] = "start" THEN "start" ELSE "stop"
  /\ UNCHANGED <<wants, response, verdict, exiting, child, owned, stop, proc, births, faults, orphans>>

Exit ==
  /\ at = "loop" /\ batch = {} /\ exiting
  /\ at' = "off"
  /\ UNCHANGED <<requests, progress, child, owned, stop, proc, births, faults, orphans>>

Becomes(v) == at' = "answer" /\ verdict' = v /\ UNCHANGED <<request, batch, exiting>>

\* The response, then the removal of the claimed file.
Respond ==
  /\ at = "answer" /\ at' = "clean"
  /\ response' = [response EXCEPT ![request] = verdict]
  /\ exiting' = (exiting \/ wants[request] = "shutdown")
  /\ UNCHANGED <<file, wants, request, batch, verdict, child, owned, stop, proc, births, faults, orphans>>

Clean ==
  /\ at = "clean" /\ at' = "loop"
  /\ file' = [file EXCEPT ![request] = "done"]
  /\ request' = 0 /\ verdict' = "none"
  /\ UNCHANGED <<wants, response, batch, exiting, child, owned, stop, proc, births, faults, orphans>>
-----------------------------------------------------------------------------
\* Start-OwnedService.
StartService ==
  /\ at = "start"
  /\ \/ Valid(owned) /\ Becomes("ok") /\ UNCHANGED owned
     \/ Alive(owned) /\ ~Valid(owned) /\ Becomes("bad") /\ UNCHANGED owned
     \/ ~Alive(owned) /\ owned' = None /\ at' = "spawn" /\ UNCHANGED progress
  /\ UNCHANGED <<requests, child, stop, proc, births, faults, orphans>>

Born(p, is) ==
  /\ proc[p].is = "free"
  /\ births' = births + 1
  /\ proc' = [proc EXCEPT ![p] =
       [is |-> is, born |-> births + 1, at |-> IF is = "other" THEN "none" ELSE "boot"]]

\* FAULT: a bridge that the Supervisor has not recorded does not matter.
ConflictIgnored == FALSE

Unmanaged == Bridges # {}

Spawn ==
  /\ at = "spawn"
  /\ \/ /\ ~Unmanaged /\ stop' = 0 /\ at' = "save"
        /\ \E p \in Pids : Born(p, "started") /\ child' = [pid |-> p, born |-> births + 1]
        /\ UNCHANGED <<progress, faults>>
     \/ Unmanaged /\ Becomes("bad") /\ UNCHANGED <<child, stop, proc, births, faults>>
     \/ Fault /\ Becomes("bad") /\ stop' \in {0, stop} /\ UNCHANGED <<child, proc, births>>
  /\ UNCHANGED <<requests, owned, orphans>>

\* The process has exited, its identity is recorded, or it cannot be read and the process is
\* killed.  When the record cannot be written, or that kill fails, the bridge stays: the start
\* is answered as failed.
Save ==
  /\ at = "save"
  /\ \/ ~Valid(child) /\ Becomes("bad") /\ UNCHANGED <<owned, proc, faults, orphans>>
     \/ Valid(child) /\ owned' = child /\ Becomes("ok") /\ UNCHANGED <<proc, faults, orphans>>
     \/ /\ Valid(child) /\ Fault /\ Becomes("bad") /\ UNCHANGED owned
        /\ \/ proc' = [proc EXCEPT ![child.pid] = Free] /\ UNCHANGED orphans
           \/ orphans' = orphans \cup {child.born} /\ UNCHANGED proc
  /\ child' = None
  /\ UNCHANGED <<requests, stop, births>>
-----------------------------------------------------------------------------
\* The service is stopped: the answer, or the start of a restart.
Stopped == IF wants[request] = "restart" THEN at' = "start" /\ UNCHANGED progress ELSE Becomes("ok")

\* Stop-OwnedService, up to the request to stop (which may fail to be written).
StopService ==
  /\ at = "stop"
  /\ \/ ~Alive(owned) /\ owned' = None /\ Stopped /\ UNCHANGED <<stop, faults>>
     \/ Alive(owned) /\ ~Valid(owned) /\ Becomes("bad") /\ UNCHANGED <<owned, stop, faults>>
     \/ /\ Valid(owned) /\ UNCHANGED <<owned, progress>>
        /\ IF wants[request] = "emergency-stop"
             THEN at' = "force" /\ UNCHANGED <<stop, faults>>
             ELSE /\ at' = "wait"
                  /\ \/ stop' = births /\ UNCHANGED faults
                     \/ Fault /\ UNCHANGED stop
  /\ UNCHANGED <<requests, child, proc, births, orphans>>

\* Wait-ForProcessExit: the process is gone, or the time is up.
Wait ==
  /\ at = "wait"
  /\ at' = IF Alive(owned) THEN "force" ELSE "gone"
  /\ UNCHANGED <<requests, progress, child, owned, stop, proc, births, faults, orphans>>

\* Invoke-ForceProcessTreeStop validates again; a kill may fail, or not take effect in time.
Kill ==
  /\ at = "force"
  /\ \/ ~Alive(owned) /\ at' = "gone" /\ UNCHANGED <<progress, proc, faults>>
     \/ Alive(owned) /\ ~Valid(owned) /\ Becomes("bad") /\ UNCHANGED <<proc, faults>>
     \/ /\ Valid(owned) /\ at' = "gone" /\ UNCHANGED progress
        /\ \/ proc' = [proc EXCEPT ![owned.pid] = Free] /\ UNCHANGED faults
           \/ Fault /\ UNCHANGED proc
     \/ Valid(owned) /\ Fault /\ Becomes("bad") /\ UNCHANGED proc
  /\ UNCHANGED <<requests, child, owned, stop, births, orphans>>

\* The last wait for the process to be gone.
Gone ==
  /\ at = "gone"
  /\ \/ ~Alive(owned) /\ owned' = None /\ stop' = 0 /\ Stopped
     \/ Alive(owned) /\ Becomes("bad") /\ UNCHANGED <<owned, stop>>
  /\ UNCHANGED <<requests, child, proc, births, faults, orphans>>
-----------------------------------------------------------------------------
Crash ==
  /\ at # "off" /\ Fault
  /\ at' = "off" /\ request' = 0 /\ batch' = {} /\ verdict' = "none" /\ exiting' = FALSE /\ child' = None
  /\ orphans' = orphans \cup IF child = None THEN {} ELSE {child.born}
  /\ UNCHANGED <<requests, owned, stop, proc, births>>
-----------------------------------------------------------------------------
\* The processes.
Others == <<requests, at, progress, child, owned, faults, orphans>>
Goes(p, step) == proc' = [proc EXCEPT ![p].at = step]

\* The user starts a bridge, or any program gets the id of a bridge that is gone.
StartsByHand(p) == births < MaxBirths /\ Born(p, "byHand") /\ UNCHANGED <<Others, stop>>
OtherProgram(p) ==
  /\ births < MaxBirths /\ p \in {owned.pid, child.pid}
  /\ Born(p, "other") /\ UNCHANGED <<Others, stop>>

\* _run_channel_until_shutdown.
Boots(p) == proc[p].at = "boot" /\ Goes(p, "run") /\ stop' = 0 /\ UNCHANGED <<Others, births>>
SeesRequest(p) == proc[p].at = "run" /\ stop # 0 /\ Goes(p, "leaving") /\ UNCHANGED <<Others, stop, births>>
Closes(p) ==
  /\ proc[p].at \in {"run", "leaving"}     \* the channel ended, or was asked to
  /\ Goes(p, "closing") /\ stop' = 0
  /\ UNCHANGED <<Others, births>>
Dies(p) == proc[p].is # "free" /\ proc' = [proc EXCEPT ![p] = Free] /\ UNCHANGED <<Others, stop, births>>
-----------------------------------------------------------------------------
Step == \/ Round \/ (\E r \in Requests : Take(r)) \/ Exit \/ Respond \/ Clean
        \/ StartService \/ Spawn \/ Save \/ StopService \/ Wait \/ Kill \/ Gone

Processes == \E p \in Pids : \/ StartsByHand(p) \/ OtherProgram(p) \/ Boots(p)
                             \/ SeesRequest(p) \/ Closes(p) \/ Dies(p)

Next == (\E r \in Requests : Send(r) \/ Read(r)) \/ StartSupervisor \/ Step \/ Crash \/ Processes

Spec == Init /\ [][Next]_vars

\* A Supervisor that runs goes on; nobody has to start one.
FairSpec == Spec /\ WF_vars(Step)
-----------------------------------------------------------------------------
Started == {p \in Pids : proc[p].is = "started"}
Identity(p) == [pid |-> p, born |-> proc[p].born]

\* There is never more than one bridge that a Supervisor started, and each is the one in
\* the state file, or being recorded, unless its Supervisor died before it could record it,
\* or failed to record it and, if it tried, to kill it: a start or a stop that was answered as
\* done has not lost track of a running bridge.
Accounted ==
  /\ Cardinality(Started) <= 1
  /\ \A p \in Started : Identity(p) \in {owned, child} \/ proc[p].born \in orphans

\* "Never apply this fallback to an unverified PID" and "never let a newly started Bridge
\* interpret that stale file as a fresh shutdown": what the Supervisor kills is a bridge
\* that a Supervisor started, and a bridge obeys no request older than itself.
StopsMeant ==
  [][\A p \in Pids :
       /\ at \in {"force", "save"} /\ at' # at /\ at' # "off" /\ proc'[p] # proc[p] => proc[p].is = "started"
       /\ proc[p].at = "run" /\ proc'[p].at = "leaving" => proc[p].born <= stop]_vars

\* A request that is filed is answered as long as a Supervisor runs, also one that an
\* earlier Supervisor left half done.
EveryRequestAnswered ==
  \A r \in Requests : file[r] \in {"commands", "processing"} ~> response[r] # "none" \/ at = "off"
=============================================================================
