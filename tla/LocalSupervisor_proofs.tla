------------------------ MODULE LocalSupervisor_proofs ------------------------
(***************************************************************************)
(* Proofs about LocalSupervisor.tla, for any requests, process ids, births *)
(* and faults.                                                             *)
(***************************************************************************)
EXTENDS LocalSupervisor, FiniteSetTheorems, TLAPS

(***************************************************************************)
(* The inductive invariant.                                                *)
(***************************************************************************)
\* Every process has a birth of its own, and the recorded ids are of bridges that were
\* started, or of nothing.
Births ==
  /\ \A p \in Pids : proc[p].is # "free" => proc[p].born \in 1..births
  /\ \A id \in {owned, child} :
       /\ id.born <= births
       /\ \A p \in Pids : proc[p].is \in {"byHand", "other"} => proc[p].born # id.born

\* A process is being recorded in one step only, and the state file is empty by then.
Recording ==
  /\ at \in {"spawn", "save"} => owned = None
  /\ at # "save" => child = None

\* One started bridge, known to the state file, to the step that records it, or orphaned.
Known ==
  /\ \A p, q \in Started : p = q
  /\ \A p \in Started : Identity(p) \in {owned, child} \/ proc[p].born \in orphans

\* A bridge that watches the stop request has removed the older ones.
FreshRequest ==
  \A p \in Pids :
    proc[p].at # "none" =>
      proc[p].is # "free" /\ (proc[p].at = "run" => stop = 0 \/ proc[p].born <= stop)

SupervisorInv == Births /\ Recording /\ Known /\ FreshRequest

(***************************************************************************)
(* Types.                                                                  *)
(***************************************************************************)
\* Initial types.
LEMMA InitType == Init => TypeOK
<1>1. SUFFICES ASSUME Init PROVE TypeOK
  OBVIOUS
<1>2. Free \in [is : {"free", "started", "byHand", "other"}, born : Nat,
                at : {"none", "boot", "run", "leaving", "closing"}]
  BY DEF Free
<1>3. None \in [pid : Pids \cup {0}, born : Nat]
  BY DEF None
<1>4. QED
  BY <1>1, <1>2, <1>3 DEF Init, TypeOK, Verdicts

\* What Kill may do to the processes: nothing, or the end of the one that is recorded.
LEMMA KillEffect ==
  ASSUME TypeOK, Kill
  PROVE  /\ at = "force" /\ at' \in {"gone", "answer"} /\ UNCHANGED <<child, owned, stop, births, orphans>>
         /\ UNCHANGED <<requests, request, batch, exiting>> /\ verdict' \in {verdict, "bad"}
         /\ faults' \in {faults, faults + 1}
         /\ \/ UNCHANGED proc
            \/ /\ Valid(owned) /\ owned.pid \in Pids
               /\ proc' = [proc EXCEPT ![owned.pid] = Free]
<1>1. CASE ~Alive(owned) /\ at' = "gone" /\ UNCHANGED <<progress, proc, faults>>
  BY <1>1 DEF Kill, progress
<1>2. CASE Alive(owned) /\ ~Valid(owned) /\ Becomes("bad") /\ UNCHANGED <<proc, faults>>
  BY <1>2 DEF Kill, Becomes
<1>3. CASE /\ Valid(owned) /\ at' = "gone" /\ UNCHANGED progress
           /\ \/ proc' = [proc EXCEPT ![owned.pid] = Free] /\ UNCHANGED faults
              \/ Fault /\ UNCHANGED proc
  BY <1>3 DEF Kill, Fault, progress, Valid, Alive
<1>4. CASE Valid(owned) /\ Fault /\ Becomes("bad") /\ UNCHANGED proc
  BY <1>4 DEF Kill, Fault, Becomes
<1>5. QED
  BY <1>1, <1>2, <1>3, <1>4 DEF Kill

\* Every step keeps the types.
LEMMA NextType ==
  ASSUME TypeOK, [Next]_vars
  PROVE  TypeOK'
<1>1. ASSUME NEW r \in Requests, Send(r) PROVE TypeOK'
  BY <1>1 DEF Send, Actions, TypeOK, Verdicts, requests, progress, None
<1>2. ASSUME NEW r \in Requests, Read(r) PROVE TypeOK'
  BY <1>2 DEF Read, TypeOK, Verdicts, requests, progress, None
<1>3. ASSUME StartSupervisor PROVE TypeOK'
  BY <1>3 DEF StartSupervisor, Recovered, TypeOK, Verdicts, requests, progress, None
<1>4. ASSUME Round PROVE TypeOK'
  BY <1>4 DEF Round, TypeOK, Verdicts, requests, progress, None
<1>5. ASSUME NEW r \in Requests, Take(r) PROVE TypeOK'
  BY <1>5 DEF Take, First, TypeOK, Verdicts, requests, progress, None
<1>6. ASSUME Exit PROVE TypeOK'
  BY <1>6 DEF Exit, TypeOK, Verdicts, requests, progress, None
<1>7. ASSUME Respond PROVE TypeOK'
  BY <1>7 DEF Respond, TypeOK, Verdicts, requests, progress, None
<1>8. ASSUME Clean PROVE TypeOK'
  BY <1>8 DEF Clean, TypeOK, Verdicts, requests, progress, None
<1>9. ASSUME StartService PROVE TypeOK'
  BY <1>9 DEF StartService, Becomes, Valid, Alive, TypeOK, Verdicts, requests, progress, None
<1>10. ASSUME Spawn PROVE TypeOK'
  BY <1>10
  DEF Spawn, Becomes, Born, Fault, Unmanaged, Bridges, TypeOK, Verdicts, requests, progress,
      None
<1>11. ASSUME Save PROVE TypeOK'
  <2>1. child.born \in Nat /\ child \in [pid : Pids \cup {0}, born : Nat]
    BY DEF TypeOK
  <2>2. (births \in Nat /\ faults \in Nat /\ orphans \subseteq Nat)'
    <3>1. births \in Nat /\ faults \in Nat /\ orphans \subseteq Nat /\ births' = births
      BY <1>11 DEF Save, TypeOK
    <3>2. faults' = faults \/ faults' = faults + 1
      BY <1>11, Zenon DEF Save, Fault
    <3>3. orphans' = orphans \/ orphans' = orphans \cup {child.born}
      BY <1>11 DEF Save
    <3>4. orphans' \subseteq Nat
      BY <2>1, <3>1, <3>3, Zenon
    <3>5. faults' \in Nat
      BY <3>1, <3>2
    <3>6. QED
      BY <3>1, <3>4, <3>5
  <2>3. proc' \in [Pids -> [is : {"free", "started", "byHand", "other"}, born : Nat,
                        at : {"none", "boot", "run", "leaving", "closing"}]]
    BY <1>11, <2>1 DEF Save, Free, TypeOK
  <2>4. owned' \in [pid : Pids \cup {0}, born : Nat] /\ child' \in [pid : Pids \cup {0}, born : Nat]
    BY <1>11, <2>1 DEF Save, None, TypeOK
  <2>5. UNCHANGED <<requests, stop, request, batch, exiting>> /\ at' = "answer" /\ verdict' \in {"ok", "bad"}
    BY <1>11 DEF Save, Becomes
  <2>6. QED
    BY <2>2, <2>3, <2>4, <2>5 DEF TypeOK, Verdicts, requests
<1>12. ASSUME StopService PROVE TypeOK'
  BY <1>12
  DEF StopService, Stopped, Becomes, Fault, Valid, Alive, TypeOK, Verdicts, requests,
      progress, None
<1>13. ASSUME Wait PROVE TypeOK'
  BY <1>13 DEF Wait, Alive, TypeOK, Verdicts, requests, progress, None
<1>14. ASSUME Kill PROVE TypeOK'
  <2>1. proc' \in [Pids -> [is : {"free", "started", "byHand", "other"}, born : Nat,
                          at : {"none", "boot", "run", "leaving", "closing"}]]
    BY <1>14, KillEffect DEF TypeOK, Free
  <2>2. /\ UNCHANGED <<file, wants, response, request, batch, exiting, child, owned, stop, births, orphans>>
        /\ at' \in {"gone", "answer"} /\ verdict' \in Verdicts /\ faults' \in Nat
    BY <1>14, KillEffect DEF TypeOK, Verdicts, requests
  <2>3. QED
    BY <2>1, <2>2 DEF TypeOK
<1>15. ASSUME Gone PROVE TypeOK'
  BY <1>15 DEF Gone, Stopped, Becomes, Alive, TypeOK, Verdicts, requests, progress, None
<1>16. ASSUME Crash PROVE TypeOK'
  <2>1. orphans' \subseteq Nat
    BY <1>16 DEF Crash, TypeOK
  <2>2. child' \in [pid : Pids \cup {0}, born : Nat]
    BY <1>16 DEF Crash, None
  <2>3. /\ UNCHANGED <<file, wants, response, owned, stop, proc, births>>
        /\ at' = "off" /\ request' = 0 /\ batch' = {} /\ verdict' \in Verdicts
        /\ exiting' = FALSE /\ faults' \in Nat
    BY <1>16 DEF Crash, Fault, TypeOK, Verdicts, requests
  <2>4. QED
    BY <2>1, <2>2, <2>3 DEF TypeOK
<1>17. ASSUME NEW p \in Pids, StartsByHand(p) PROVE TypeOK'
  BY <1>17 DEF StartsByHand, Born, Others, TypeOK, Verdicts, requests, progress, None
<1>18. ASSUME NEW p \in Pids, OtherProgram(p) PROVE TypeOK'
  BY <1>18 DEF OtherProgram, Born, Others, TypeOK, Verdicts, requests, progress, None
<1>19. ASSUME NEW p \in Pids, Boots(p) PROVE TypeOK'
  BY <1>19 DEF Boots, Goes, Others, TypeOK, Verdicts, requests, progress, None
<1>20. ASSUME NEW p \in Pids, SeesRequest(p) PROVE TypeOK'
  BY <1>20 DEF SeesRequest, Goes, Others, TypeOK, Verdicts, requests, progress, None
<1>21. ASSUME NEW p \in Pids, Closes(p) PROVE TypeOK'
  BY <1>21 DEF Closes, Goes, Others, TypeOK, Verdicts, requests, progress, None
<1>22. ASSUME NEW p \in Pids, Dies(p) PROVE TypeOK'
  BY <1>22 DEF Dies, Free, Others, TypeOK, Verdicts, requests, progress, None
<1>23. CASE UNCHANGED vars
  BY <1>23 DEF vars, TypeOK, Verdicts, requests, progress, None
<1>24. QED
  BY <1>1, <1>2, <1>3, <1>4, <1>5, <1>6, <1>7, <1>8, <1>9, <1>10, <1>11, <1>12, <1>13, <1>14,
     <1>15, <1>16, <1>17, <1>18, <1>19, <1>20, <1>21, <1>22, <1>23
  DEF Next, Step, Processes

\* Births stay distinct.
LEMMA NextBirths ==
  ASSUME TypeOK, SupervisorInv, [Next]_vars
  PROVE  Births'
<1>1. ASSUME NEW r \in Requests, Send(r) PROVE Births'
  BY <1>1 DEF Send, Actions, TypeOK, SupervisorInv, Births, Recording, requests, progress, None
<1>2. ASSUME NEW r \in Requests, Read(r) PROVE Births'
  BY <1>2 DEF Read, TypeOK, SupervisorInv, Births, Recording, requests, progress, None
<1>3. ASSUME StartSupervisor PROVE Births'
  BY <1>3
  DEF StartSupervisor, Recovered, TypeOK, SupervisorInv, Births, Recording, requests,
      progress, None
<1>4. ASSUME Round PROVE Births'
  BY <1>4 DEF Round, TypeOK, SupervisorInv, Births, Recording, requests, progress, None
<1>5. ASSUME NEW r \in Requests, Take(r) PROVE Births'
  BY <1>5 DEF Take, First, TypeOK, SupervisorInv, Births, Recording, requests, progress, None
<1>6. ASSUME Exit PROVE Births'
  BY <1>6 DEF Exit, TypeOK, SupervisorInv, Births, Recording, requests, progress, None
<1>7. ASSUME Respond PROVE Births'
  BY <1>7 DEF Respond, TypeOK, SupervisorInv, Births, Recording, requests, progress, None
<1>8. ASSUME Clean PROVE Births'
  BY <1>8 DEF Clean, TypeOK, SupervisorInv, Births, Recording, requests, progress, None
<1>9. ASSUME StartService PROVE Births'
  BY <1>9
  DEF StartService, Becomes, Valid, Alive, TypeOK, SupervisorInv, Births, Recording, requests,
      progress, None
<1>10. ASSUME Spawn PROVE Births'
  <2>1. owned' = owned /\ births \in Nat /\ owned = [pid |-> 0, born |-> 0]
    BY <1>10 DEF Spawn, TypeOK, SupervisorInv, Recording, None
  <2>2. CASE UNCHANGED <<child, proc, births>>
    BY <2>1, <2>2 DEF SupervisorInv, Births
  <2>3. ASSUME NEW p \in Pids, Born(p, "started"), child' = [pid |-> p, born |-> births + 1]
        PROVE  Births'
    <3>1. births' = births + 1 /\ proc' = [proc EXCEPT ![p] = proc'[p]]
          /\ proc'[p].is = "started" /\ proc'[p].born = births + 1
      BY <2>3 DEF Born, TypeOK
    <3>2. \A o \in Pids : proc'[o].is # "free" => proc'[o].born \in 1..births'
      BY <2>1, <3>1 DEF TypeOK, SupervisorInv, Births
    <3>3. \A o \in Pids : proc'[o].is \in {"byHand", "other"} =>
            o # p /\ proc'[o] = proc[o] /\ proc[o].born \in 1..births
      BY <3>1 DEF TypeOK, SupervisorInv, Births
    <3>4. QED
      BY <2>1, <2>3, <3>1, <3>2, <3>3 DEF Births
  <2>4. QED
    BY <1>10, <2>2, <2>3 DEF Spawn
<1>11. ASSUME Save PROVE Births'
  <2>1. births' = births /\ owned' \in {owned, child} /\ child' = None
    BY <1>11 DEF Save
  <2>2. owned = None
    BY <1>11 DEF Save, SupervisorInv, Recording
  <2>3. \A p \in Pids : proc'[p] \in {proc[p], Free}
    BY <1>11 DEF Save, TypeOK
  <2>4. \A p \in Pids : proc'[p].is # "free" => proc'[p] = proc[p]
    BY <2>3 DEF Free
  <2>5. QED
    BY <2>1, <2>2, <2>4 DEF SupervisorInv, Births
<1>12. ASSUME StopService PROVE Births'
  BY <1>12
  DEF StopService, Stopped, Becomes, Fault, Valid, Alive, TypeOK, SupervisorInv, Births,
      Recording, requests, progress, None
<1>13. ASSUME Wait PROVE Births'
  BY <1>13 DEF Wait, Alive, TypeOK, SupervisorInv, Births, Recording, requests, progress, None
<1>14. ASSUME Kill PROVE Births'
  BY <1>14, KillEffect DEF TypeOK, SupervisorInv, Births, Free
<1>15. ASSUME Gone PROVE Births'
  BY <1>15
  DEF Gone, Stopped, Becomes, Alive, TypeOK, SupervisorInv, Births, Recording, requests,
      progress, None
<1>16. ASSUME Crash PROVE Births'
  BY <1>16 DEF Crash, Fault, TypeOK, SupervisorInv, Births, Recording, requests, progress, None
<1>17. ASSUME NEW p \in Pids, StartsByHand(p) PROVE Births'
  BY <1>17
  DEF StartsByHand, Born, Others, TypeOK, SupervisorInv, Births, Recording, requests,
      progress, None
<1>18. ASSUME NEW p \in Pids, OtherProgram(p) PROVE Births'
  BY <1>18
  DEF OtherProgram, Born, Others, TypeOK, SupervisorInv, Births, Recording, requests,
      progress, None
<1>19. ASSUME NEW p \in Pids, Boots(p) PROVE Births'
  BY <1>19
  DEF Boots, Goes, Others, TypeOK, SupervisorInv, Births, Recording, requests, progress, None
<1>20. ASSUME NEW p \in Pids, SeesRequest(p) PROVE Births'
  BY <1>20
  DEF SeesRequest, Goes, Others, TypeOK, SupervisorInv, Births, Recording, requests, progress,
      None
<1>21. ASSUME NEW p \in Pids, Closes(p) PROVE Births'
  BY <1>21
  DEF Closes, Goes, Others, TypeOK, SupervisorInv, Births, Recording, requests, progress, None
<1>22. ASSUME NEW p \in Pids, Dies(p) PROVE Births'
  BY <1>22
  DEF Dies, Free, Others, TypeOK, SupervisorInv, Births, Recording, requests, progress, None
<1>23. CASE UNCHANGED vars
  BY <1>23 DEF vars, TypeOK, SupervisorInv, Births, Recording, requests, progress, None
<1>24. QED
  BY <1>1, <1>2, <1>3, <1>4, <1>5, <1>6, <1>7, <1>8, <1>9, <1>10, <1>11, <1>12, <1>13, <1>14,
     <1>15, <1>16, <1>17, <1>18, <1>19, <1>20, <1>21, <1>22, <1>23
  DEF Next, Step, Processes

\* A process is recorded in one step.
LEMMA NextRecording ==
  ASSUME TypeOK, SupervisorInv, [Next]_vars
  PROVE  Recording'
<1>1. ASSUME NEW r \in Requests, Send(r) PROVE Recording'
  BY <1>1 DEF Send, Actions, TypeOK, SupervisorInv, Recording, requests, progress, None
<1>2. ASSUME NEW r \in Requests, Read(r) PROVE Recording'
  BY <1>2 DEF Read, TypeOK, SupervisorInv, Recording, requests, progress, None
<1>3. ASSUME StartSupervisor PROVE Recording'
  BY <1>3 DEF StartSupervisor, Recovered, TypeOK, SupervisorInv, Recording, requests, progress, None
<1>4. ASSUME Round PROVE Recording'
  BY <1>4 DEF Round, TypeOK, SupervisorInv, Recording, requests, progress, None
<1>5. ASSUME NEW r \in Requests, Take(r) PROVE Recording'
  BY <1>5 DEF Take, First, TypeOK, SupervisorInv, Recording, requests, progress, None
<1>6. ASSUME Exit PROVE Recording'
  BY <1>6 DEF Exit, TypeOK, SupervisorInv, Recording, requests, progress, None
<1>7. ASSUME Respond PROVE Recording'
  BY <1>7 DEF Respond, TypeOK, SupervisorInv, Recording, requests, progress, None
<1>8. ASSUME Clean PROVE Recording'
  BY <1>8 DEF Clean, TypeOK, SupervisorInv, Recording, requests, progress, None
<1>9. ASSUME StartService PROVE Recording'
  BY <1>9
  DEF StartService, Becomes, Valid, Alive, TypeOK, SupervisorInv, Recording, requests,
      progress, None
<1>10. ASSUME Spawn PROVE Recording'
  BY <1>10
  DEF Spawn, Becomes, Born, Fault, Unmanaged, Bridges, TypeOK, SupervisorInv, Recording,
      requests, progress, None
<1>11. ASSUME Save PROVE Recording'
  BY <1>11
  DEF Save, Becomes, Fault, Valid, Alive, Free, TypeOK, SupervisorInv, Recording, requests,
      progress, None
<1>12. ASSUME StopService PROVE Recording'
  BY <1>12
  DEF StopService, Stopped, Becomes, Fault, Valid, Alive, TypeOK, SupervisorInv, Recording,
      requests, progress, None
<1>13. ASSUME Wait PROVE Recording'
  BY <1>13 DEF Wait, Alive, TypeOK, SupervisorInv, Recording, requests, progress, None
<1>14. ASSUME Kill PROVE Recording'
  BY <1>14, KillEffect DEF SupervisorInv, Recording
<1>15. ASSUME Gone PROVE Recording'
  BY <1>15
  DEF Gone, Stopped, Becomes, Alive, TypeOK, SupervisorInv, Recording, requests, progress,
      None
<1>16. ASSUME Crash PROVE Recording'
  BY <1>16 DEF Crash, Fault, TypeOK, SupervisorInv, Recording, requests, progress, None
<1>17. ASSUME NEW p \in Pids, StartsByHand(p) PROVE Recording'
  BY <1>17
  DEF StartsByHand, Born, Others, TypeOK, SupervisorInv, Recording, requests, progress, None
<1>18. ASSUME NEW p \in Pids, OtherProgram(p) PROVE Recording'
  BY <1>18
  DEF OtherProgram, Born, Others, TypeOK, SupervisorInv, Recording, requests, progress, None
<1>19. ASSUME NEW p \in Pids, Boots(p) PROVE Recording'
  BY <1>19 DEF Boots, Goes, Others, TypeOK, SupervisorInv, Recording, requests, progress, None
<1>20. ASSUME NEW p \in Pids, SeesRequest(p) PROVE Recording'
  BY <1>20 DEF SeesRequest, Goes, Others, TypeOK, SupervisorInv, Recording, requests, progress, None
<1>21. ASSUME NEW p \in Pids, Closes(p) PROVE Recording'
  BY <1>21 DEF Closes, Goes, Others, TypeOK, SupervisorInv, Recording, requests, progress, None
<1>22. ASSUME NEW p \in Pids, Dies(p) PROVE Recording'
  BY <1>22 DEF Dies, Free, Others, TypeOK, SupervisorInv, Recording, requests, progress, None
<1>23. CASE UNCHANGED vars
  BY <1>23 DEF vars, TypeOK, SupervisorInv, Recording, requests, progress, None
<1>24. QED
  BY <1>1, <1>2, <1>3, <1>4, <1>5, <1>6, <1>7, <1>8, <1>9, <1>10, <1>11, <1>12, <1>13, <1>14,
     <1>15, <1>16, <1>17, <1>18, <1>19, <1>20, <1>21, <1>22, <1>23
  DEF Next, Step, Processes

\* No started bridge is lost.
LEMMA NextKnown ==
  ASSUME TypeOK, SupervisorInv, [Next]_vars
  PROVE  Known'
<1>1. ASSUME NEW r \in Requests, Send(r) PROVE Known'
  BY <1>1
  DEF Send, Actions, TypeOK, SupervisorInv, Births, Recording, Known, Started, Identity,
      requests, progress, None
<1>2. ASSUME NEW r \in Requests, Read(r) PROVE Known'
  BY <1>2
  DEF Read, TypeOK, SupervisorInv, Births, Recording, Known, Started, Identity, requests,
      progress, None
<1>3. ASSUME StartSupervisor PROVE Known'
  BY <1>3
  DEF StartSupervisor, Recovered, TypeOK, SupervisorInv, Births, Recording, Known, Started,
      Identity, requests, progress, None
<1>4. ASSUME Round PROVE Known'
  BY <1>4
  DEF Round, TypeOK, SupervisorInv, Births, Recording, Known, Started, Identity, requests,
      progress, None
<1>5. ASSUME NEW r \in Requests, Take(r) PROVE Known'
  BY <1>5
  DEF Take, First, TypeOK, SupervisorInv, Births, Recording, Known, Started, Identity,
      requests, progress, None
<1>6. ASSUME Exit PROVE Known'
  BY <1>6
  DEF Exit, TypeOK, SupervisorInv, Births, Recording, Known, Started, Identity, requests,
      progress, None
<1>7. ASSUME Respond PROVE Known'
  BY <1>7
  DEF Respond, TypeOK, SupervisorInv, Births, Recording, Known, Started, Identity, requests,
      progress, None
<1>8. ASSUME Clean PROVE Known'
  BY <1>8
  DEF Clean, TypeOK, SupervisorInv, Births, Recording, Known, Started, Identity, requests,
      progress, None
<1>9. ASSUME StartService PROVE Known'
  BY <1>9
  DEF StartService, Becomes, Valid, Alive, TypeOK, SupervisorInv, Births, Recording, Known,
      Started, Identity, requests, progress, None
<1>10. ASSUME Spawn PROVE Known'
  BY <1>10
  DEF Spawn, Becomes, Born, Fault, Unmanaged, Bridges, TypeOK, SupervisorInv, Births,
      Recording, Known, Started, Identity, requests, progress, None
<1>11. ASSUME Save PROVE Known'
  BY <1>11
  DEF Save, Becomes, Fault, Valid, Alive, Free, TypeOK, SupervisorInv, Births, Recording,
      Known, Started, Identity, requests, progress, None
<1>12. ASSUME StopService PROVE Known'
  BY <1>12
  DEF StopService, Stopped, Becomes, Fault, Valid, Alive, TypeOK, SupervisorInv, Births,
      Recording, Known, Started, Identity, requests, progress, None
<1>13. ASSUME Wait PROVE Known'
  BY <1>13
  DEF Wait, Alive, TypeOK, SupervisorInv, Births, Recording, Known, Started, Identity,
      requests, progress, None
<1>14. ASSUME Kill PROVE Known'
  <2>1. \A p \in Started' : p \in Started /\ (Identity(p))' = Identity(p)
    BY <1>14, KillEffect DEF TypeOK, Free, Started, Identity
  <2>2. QED
    BY <1>14, <2>1, KillEffect DEF SupervisorInv, Known, Identity
<1>15. ASSUME Gone PROVE Known'
  BY <1>15
  DEF Gone, Stopped, Becomes, Alive, TypeOK, SupervisorInv, Births, Recording, Known, Started,
      Identity, requests, progress, None
<1>16. ASSUME Crash PROVE Known'
  BY <1>16
  DEF Crash, Fault, TypeOK, SupervisorInv, Births, Recording, Known, Started, Identity,
      requests, progress, None
<1>17. ASSUME NEW p \in Pids, StartsByHand(p) PROVE Known'
  BY <1>17
  DEF StartsByHand, Born, Others, TypeOK, SupervisorInv, Births, Recording, Known, Started,
      Identity, requests, progress, None
<1>18. ASSUME NEW p \in Pids, OtherProgram(p) PROVE Known'
  BY <1>18
  DEF OtherProgram, Born, Others, TypeOK, SupervisorInv, Births, Recording, Known, Started,
      Identity, requests, progress, None
<1>19. ASSUME NEW p \in Pids, Boots(p) PROVE Known'
  BY <1>19
  DEF Boots, Goes, Others, TypeOK, SupervisorInv, Births, Recording, Known, Started, Identity,
      requests, progress, None
<1>20. ASSUME NEW p \in Pids, SeesRequest(p) PROVE Known'
  BY <1>20
  DEF SeesRequest, Goes, Others, TypeOK, SupervisorInv, Births, Recording, Known, Started,
      Identity, requests, progress, None
<1>21. ASSUME NEW p \in Pids, Closes(p) PROVE Known'
  BY <1>21
  DEF Closes, Goes, Others, TypeOK, SupervisorInv, Births, Recording, Known, Started,
      Identity, requests, progress, None
<1>22. ASSUME NEW p \in Pids, Dies(p) PROVE Known'
  BY <1>22
  DEF Dies, Free, Others, TypeOK, SupervisorInv, Births, Recording, Known, Started, Identity,
      requests, progress, None
<1>23. CASE UNCHANGED vars
  BY <1>23
  DEF vars, TypeOK, SupervisorInv, Births, Recording, Known, Started, Identity, requests,
      progress, None
<1>24. QED
  BY <1>1, <1>2, <1>3, <1>4, <1>5, <1>6, <1>7, <1>8, <1>9, <1>10, <1>11, <1>12, <1>13, <1>14,
     <1>15, <1>16, <1>17, <1>18, <1>19, <1>20, <1>21, <1>22, <1>23
  DEF Next, Step, Processes

\* A request is younger than the bridge that sees it.
LEMMA NextFresh ==
  ASSUME TypeOK, SupervisorInv, [Next]_vars
  PROVE  FreshRequest'
<1>1. ASSUME NEW r \in Requests, Send(r) PROVE FreshRequest'
  BY <1>1 DEF Send, Actions, TypeOK, SupervisorInv, Births, FreshRequest, requests, progress, None
<1>2. ASSUME NEW r \in Requests, Read(r) PROVE FreshRequest'
  BY <1>2 DEF Read, TypeOK, SupervisorInv, Births, FreshRequest, requests, progress, None
<1>3. ASSUME StartSupervisor PROVE FreshRequest'
  BY <1>3
  DEF StartSupervisor, Recovered, TypeOK, SupervisorInv, Births, FreshRequest, requests,
      progress, None
<1>4. ASSUME Round PROVE FreshRequest'
  BY <1>4 DEF Round, TypeOK, SupervisorInv, Births, FreshRequest, requests, progress, None
<1>5. ASSUME NEW r \in Requests, Take(r) PROVE FreshRequest'
  BY <1>5 DEF Take, First, TypeOK, SupervisorInv, Births, FreshRequest, requests, progress, None
<1>6. ASSUME Exit PROVE FreshRequest'
  BY <1>6 DEF Exit, TypeOK, SupervisorInv, Births, FreshRequest, requests, progress, None
<1>7. ASSUME Respond PROVE FreshRequest'
  BY <1>7 DEF Respond, TypeOK, SupervisorInv, Births, FreshRequest, requests, progress, None
<1>8. ASSUME Clean PROVE FreshRequest'
  BY <1>8 DEF Clean, TypeOK, SupervisorInv, Births, FreshRequest, requests, progress, None
<1>9. ASSUME StartService PROVE FreshRequest'
  BY <1>9
  DEF StartService, Becomes, Valid, Alive, TypeOK, SupervisorInv, Births, FreshRequest,
      requests, progress, None
<1>10. ASSUME Spawn PROVE FreshRequest'
  BY <1>10
  DEF Spawn, Becomes, Born, Fault, Unmanaged, Bridges, TypeOK, SupervisorInv, Births,
      FreshRequest, requests, progress, None
<1>11. ASSUME Save PROVE FreshRequest'
  BY <1>11
  DEF Save, Becomes, Fault, Valid, Alive, Free, TypeOK, SupervisorInv, Births, FreshRequest,
      requests, progress, None
<1>12. ASSUME StopService PROVE FreshRequest'
  <2>1. stop' \in {stop, births} /\ UNCHANGED proc
    BY <1>12 DEF StopService
  <2>2. QED
    BY <1>12, <2>1 DEF TypeOK, SupervisorInv, Births, FreshRequest
<1>13. ASSUME Wait PROVE FreshRequest'
  BY <1>13 DEF Wait, Alive, TypeOK, SupervisorInv, Births, FreshRequest, requests, progress, None
<1>14. ASSUME Kill PROVE FreshRequest'
  BY <1>14, KillEffect DEF TypeOK, SupervisorInv, FreshRequest, Free
<1>15. ASSUME Gone PROVE FreshRequest'
  BY <1>15
  DEF Gone, Stopped, Becomes, Alive, TypeOK, SupervisorInv, Births, FreshRequest, requests,
      progress, None
<1>16. ASSUME Crash PROVE FreshRequest'
  BY <1>16 DEF Crash, Fault, TypeOK, SupervisorInv, Births, FreshRequest, requests, progress, None
<1>17. ASSUME NEW p \in Pids, StartsByHand(p) PROVE FreshRequest'
  BY <1>17
  DEF StartsByHand, Born, Others, TypeOK, SupervisorInv, Births, FreshRequest, requests,
      progress, None
<1>18. ASSUME NEW p \in Pids, OtherProgram(p) PROVE FreshRequest'
  BY <1>18
  DEF OtherProgram, Born, Others, TypeOK, SupervisorInv, Births, FreshRequest, requests,
      progress, None
<1>19. ASSUME NEW p \in Pids, Boots(p) PROVE FreshRequest'
  BY <1>19
  DEF Boots, Goes, Others, TypeOK, SupervisorInv, Births, FreshRequest, requests, progress,
      None
<1>20. ASSUME NEW p \in Pids, SeesRequest(p) PROVE FreshRequest'
  BY <1>20
  DEF SeesRequest, Goes, Others, TypeOK, SupervisorInv, Births, FreshRequest, requests,
      progress, None
<1>21. ASSUME NEW p \in Pids, Closes(p) PROVE FreshRequest'
  BY <1>21
  DEF Closes, Goes, Others, TypeOK, SupervisorInv, Births, FreshRequest, requests, progress,
      None
<1>22. ASSUME NEW p \in Pids, Dies(p) PROVE FreshRequest'
  BY <1>22
  DEF Dies, Free, Others, TypeOK, SupervisorInv, Births, FreshRequest, requests, progress,
      None
<1>23. CASE UNCHANGED vars
  BY <1>23 DEF vars, TypeOK, SupervisorInv, Births, FreshRequest, requests, progress, None
<1>24. QED
  BY <1>1, <1>2, <1>3, <1>4, <1>5, <1>6, <1>7, <1>8, <1>9, <1>10, <1>11, <1>12, <1>13, <1>14,
     <1>15, <1>16, <1>17, <1>18, <1>19, <1>20, <1>21, <1>22, <1>23
  DEF Next, Step, Processes

(***************************************************************************)
(* The theorems.                                                           *)
(***************************************************************************)
\* Nothing runs, is recorded or requested at first.
LEMMA InitInv == Init => SupervisorInv
BY DEF Init, SupervisorInv, Births, Recording, Known, FreshRequest, Started, Identity, Free, None

\* Every variable keeps its type; births, the state file and the stop request agree, also
\* across crashes of the Supervisor.
THEOREM SupervisorCorrect == Spec => [](TypeOK /\ SupervisorInv)
<1>1. TypeOK /\ SupervisorInv /\ [Next]_vars => (TypeOK /\ SupervisorInv)'
  BY NextType, NextBirths, NextRecording, NextKnown, NextFresh DEF SupervisorInv
<1>2. QED
  BY <1>1, InitType, InitInv, PTL DEF Spec

\* At most one bridge that a Supervisor started runs, and no stop has lost track of it.
THEOREM AccountedCorrect == Spec => []Accounted
<1>1. TypeOK /\ SupervisorInv => Accounted
  <2>1. SUFFICES ASSUME TypeOK, SupervisorInv PROVE Accounted
    OBVIOUS
  <2>2. CASE Started = {}
    <3>1. Cardinality(Started) <= 1
      BY <2>2, FS_EmptySet
    <3>2. QED
      BY <2>1, <3>1 DEF SupervisorInv, Known, Accounted
  <2>3. ASSUME NEW p \in Started PROVE Accounted
    <3>1. Started = {p}
      BY <2>1, <2>3 DEF SupervisorInv, Known
    <3>2. Cardinality(Started) <= 1
      BY <3>1, FS_Singleton
    <3>3. QED
      BY <2>1, <3>2 DEF SupervisorInv, Known, Accounted
  <2>4. QED
    BY <2>2, <2>3
<1>2. QED
  BY <1>1, SupervisorCorrect, PTL

\* The two halves of StopsMeant.
KillMeant(p) ==
  at \in {"force", "save"} /\ at' # at /\ at' # "off" /\ proc'[p] # proc[p] => proc[p].is = "started"
RequestMeant(p) == proc[p].at = "run" /\ proc'[p].at = "leaving" => proc[p].born <= stop

\* An id that is recorded and valid is of a bridge that a Supervisor started.
LEMMA ValidStarted ==
  ASSUME TypeOK, SupervisorInv, NEW id \in {owned, child}, Valid(id)
  PROVE  id.pid \in Pids /\ proc[id.pid].is = "started"
BY DEF TypeOK, SupervisorInv, Births, Valid, Alive

\* One step kills or asks only as it is meant to.
LEMMA NextStops ==
  ASSUME TypeOK, SupervisorInv, [Next]_vars, NEW p \in Pids
  PROVE  KillMeant(p) /\ RequestMeant(p)
<1>1. CASE UNCHANGED proc
  BY <1>1 DEF KillMeant, RequestMeant
<1>2. CASE Spawn
  BY <1>2 DEF Spawn, Becomes, Born, TypeOK, KillMeant, RequestMeant
<1>3. CASE Save
  <2>1. proc'[p] # proc[p] => p = child.pid /\ Valid(child) /\ proc'[p] = Free
    BY <1>3 DEF Save, TypeOK
  <2>2. QED
    BY <2>1, ValidStarted DEF KillMeant, RequestMeant, Free
<1>4. CASE Kill
  <2>1. proc'[p] # proc[p] => p = owned.pid /\ Valid(owned) /\ proc'[p] = Free
    BY <1>4, KillEffect DEF TypeOK
  <2>2. QED
    BY <2>1, ValidStarted DEF KillMeant, RequestMeant, Free
<1>5. ASSUME NEW q \in Pids, StartsByHand(q) \/ OtherProgram(q) PROVE KillMeant(p) /\ RequestMeant(p)
  BY <1>5 DEF StartsByHand, OtherProgram, Born, Others, TypeOK, KillMeant, RequestMeant
<1>6. ASSUME NEW q \in Pids, Boots(q) \/ Closes(q) \/ Dies(q) PROVE KillMeant(p) /\ RequestMeant(p)
  BY <1>6 DEF Boots, Closes, Dies, Goes, Others, Free, TypeOK, KillMeant, RequestMeant
<1>7. ASSUME NEW q \in Pids, SeesRequest(q) PROVE KillMeant(p) /\ RequestMeant(p)
  BY <1>7
  DEF SeesRequest, Goes, Others, TypeOK, SupervisorInv, FreshRequest, KillMeant, RequestMeant
<1>8. QED
  <2>1. ASSUME NEW r \in Requests, Send(r) \/ Read(r) \/ Take(r) PROVE UNCHANGED proc
    BY <2>1 DEF Send, Read, Take
  <2>2. CASE StartSupervisor \/ Round \/ Exit \/ Respond \/ Clean \/ StartService
    BY <1>1, <2>2 DEF StartSupervisor, Round, Exit, Respond, Clean, StartService
  <2>3. CASE StopService \/ Wait \/ Gone \/ Crash \/ UNCHANGED vars
    BY <1>1, <2>3 DEF StopService, Wait, Gone, Crash, vars
  <2>4. QED
    BY <1>1, <1>2, <1>3, <1>4, <1>5, <1>6, <1>7, <2>1, <2>2, <2>3 DEF Next, Step, Processes

\* The Supervisor kills only what a Supervisor started, and a bridge obeys only requests
\* that are not older than itself.
THEOREM StopsCorrect == Spec => StopsMeant
<1> DEFINE Meant ==
             \A p \in Pids :
               /\ at \in {"force", "save"} /\ at' # at /\ at' # "off" /\ proc'[p] # proc[p] => proc[p].is = "started"
               /\ proc[p].at = "run" /\ proc'[p].at = "leaving" => proc[p].born <= stop
<1>1. TypeOK /\ SupervisorInv /\ [Next]_vars => [Meant]_vars
  BY NextStops DEF KillMeant, RequestMeant
<1>2. QED
  BY <1>1, SupervisorCorrect, PTL DEF Spec, StopsMeant
=============================================================================
