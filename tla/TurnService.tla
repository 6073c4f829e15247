----------------------------- MODULE TurnService -----------------------------
(***************************************************************************)
(* What DeepSeekHarnessBackend.reply promises its caller: the turns of all *)
(* sessions are served one at a time, and a turn that was told to stop is  *)
(* never answered as if it had completed.                                  *)
(***************************************************************************)
CONSTANT Tasks

VARIABLES status,   \* "waiting", "active" or "ended", for each task's turn
          verdict,  \* "none", "ok" or "refused": what reply() came to
          told      \* the turns that were told to stop while they were active

vars == <<status, verdict, told>>

Init == /\ status = [t \in Tasks |-> "waiting"]
        /\ verdict = [t \in Tasks |-> "none"]
        /\ told = {}

Open(t) == /\ \A u \in Tasks : status[u] # "active"
           /\ status[t] = "waiting"
           /\ status' = [status EXCEPT ![t] = "active"]
           /\ UNCHANGED <<verdict, told>>

Tell(t) == /\ status[t] = "active"
           /\ told' = told \cup {t}
           /\ UNCHANGED <<status, verdict>>

Answer(t) == /\ status[t] = "active" /\ t \notin told
             /\ status' = [status EXCEPT ![t] = "ended"]
             /\ verdict' = [verdict EXCEPT ![t] = "ok"]
             /\ UNCHANGED told

Refuse(t) == /\ status[t] # "ended"
             /\ status' = [status EXCEPT ![t] = "ended"]
             /\ verdict' = [verdict EXCEPT ![t] = "refused"]
             /\ UNCHANGED told

Next == \E t \in Tasks : Open(t) \/ Tell(t) \/ Answer(t) \/ Refuse(t)

Spec == Init /\ [][Next]_vars
=============================================================================
