---------------------------- MODULE CommandLedger ----------------------------
(***************************************************************************)
(* What the table of control commands promises the administrator: each     *)
(* command ends once, and one that is reported as succeeded has been       *)
(* carried out.                                                            *)
(***************************************************************************)
CONSTANT Commands

VARIABLES state,    \* "absent", "open", "succeeded" or "failed"
          carried   \* how often each command was carried out: "no", "once" or "again"

vars == <<state, carried>>

Init == /\ state = [c \in Commands |-> "absent"]
        /\ carried = [c \in Commands |-> "no"]

Submit(c) == /\ state[c] = "absent"
             /\ state' = [state EXCEPT ![c] = "open"]
             /\ UNCHANGED carried

(* Also after it ended: a command may have failed only by not being        *)
(* answered in time, or be carried out twice (CommandQueue, raced).        *)
CarryOut(c) == /\ state[c] # "absent"
               /\ carried' = [carried EXCEPT ![c] = IF @ = "no" THEN "once" ELSE "again"]
               /\ UNCHANGED state

Succeed(c) == /\ state[c] = "open" /\ carried[c] # "no"
              /\ state' = [state EXCEPT ![c] = "succeeded"]
              /\ UNCHANGED carried

Fail(c) == /\ state[c] = "open"
           /\ state' = [state EXCEPT ![c] = "failed"]
           /\ UNCHANGED carried

Next == \E c \in Commands : Submit(c) \/ CarryOut(c) \/ Succeed(c) \/ Fail(c)

Spec == Init /\ [][Next]_vars
=============================================================================
