--------------------------- MODULE Delivery_proofs ---------------------------
(***************************************************************************)
(* Proofs about the two ways by which something leaves for the user:       *)
(* FileDelivery.tla, for any number of tool calls, files, resends and      *)
(* restarts, and, as the instance Gui, GuiBridge.tla, for any chats,       *)
(* texts, sizes of the caches and number of faults (its promises are       *)
(* GuiPromises.tla).                                                       *)
(***************************************************************************)
EXTENDS FileDelivery, GuiPromises, Integers, Sequences, FiniteSetTheorems, TLAPS

(***************************************************************************)
(* The inductive invariant.                                                *)
(***************************************************************************)
UnderWay(s) == phase[s] \in {"sending", "accepted"}

\* A row that is behind by lost events says less than happened, not something else.
Behind(f) == row[f] \in {"NONE", "UPLOADING"}

\* The sender that has claimed a file holds the lock, and its claim is stored.
ClaimHeld ==
  \A s \in Senders :
    /\ Busy(s) => file[s] \in Files
    /\ UnderWay(s) => lock = s /\ stored[file[s]] = "unknown" /\ Behind(file[s])
    /\ phase[s] = "sending" => copies[file[s]] = 0
    /\ phase[s] = "accepted" => copies[file[s]] = 1

\* A file leaves for the platform once, after its claim, and every record of a success
\* comes after that.
RecordsTrue ==
  /\ \A f \in Files :
       /\ copies[f] <= 1
       /\ stored[f] = "none" => copies[f] = 0 /\ row[f] = "NONE"
       /\ stored[f] = "sent" => copies[f] = 1
       /\ results[f] = "sent" => copies[f] = 1 /\ (Behind(f) \/ row[f] = "SENT")
       /\ stored[f] = "sent" => Behind(f) \/ row[f] = "SENT"
       /\ row[f] = "SENT" => copies[f] = 1
  /\ \A c \in Calls : answer[c] = "sent" => file[c] \in Files /\ copies[file[c]] = 1
  /\ \A c \in Calls : phase[c] = "new" => answer[c] = "none"

\* A lease is over when its command is back in the queue, and a claim is one send at most.
Leases(d) == expired[d] + (IF command[d] \in {"RUNNING", "over"} THEN 1 ELSE 0)
ResendsCounted ==
  \A d \in Resends :
    /\ command[d] = "none" => attempt[d] = "idle" /\ expired[d] = 0
    /\ resent[d] <= Leases(d)
    /\ attempt[d] \in {"claimed", "sending"} => resent[d] + 1 <= Leases(d)
    /\ attempt[d] = "accepted" \/ d \in again => resent[d] > 0

\* What the task knows when it reports: until it is over, its memory has every attempt of
\* the journal, and tells more only of a success; when it sends, no tool call is under way,
\* and each file that was attempted is confirmed, in the list of failures or in the loop's
\* hands.
TaskKnows ==
  /\ turn # "over" => \A f \in Files :
       \/ results[f] = stored[f]
       \/ results[f] = "sent" /\ stored[f] = "unknown"
  /\ turn = "running" => outcome = "none" /\ ~Busy(Loop)
  /\ \A c \in Calls : Busy(c) /\ c \notin cut => answer[c] = "none"
  /\ turn = "sending" =>
       /\ outcome = "none"
       /\ \A c \in Calls : ~Busy(c)
       /\ \A f \in Files :
            results[f] = "unknown" => f \in failed \/ (UnderWay(Loop) /\ file[Loop] = f)
  /\ outcome = "succeeded" =>
       /\ turn = "over"
       /\ \A s \in Senders : ~Busy(s)
       /\ \A f \in Files :
            stored[f] # "none" => copies[f] = 1 /\ (Behind(f) \/ row[f] = "SENT")

FileInv == ClaimHeld /\ RecordsTrue /\ ResendsCounted /\ TaskKnows

(***************************************************************************)
(* Types.                                                                  *)
(***************************************************************************)
\* Initial types.
LEMMA InitType == Init => TypeOK
BY FileDeliveryAssumption DEF Init, TypeOK, Senders, Receipts, Rows, Outcomes

\* Every step keeps the types.
LEMMA NextType ==
  ASSUME TypeOK, ClaimHeld, [Next]_vars
  PROVE  TypeOK'
<1>1. ASSUME NEW s \in Senders, Duplicate(s) PROVE TypeOK'
  BY <1>1, FileDeliveryAssumption
  DEF Duplicate, Ends, Reports, TypeOK, ClaimHeld, Senders, Busy, Known, Receipts, Rows, Outcomes, task,
      senders, records, console
<1>2. ASSUME NEW s \in Senders, Claim(s) PROVE TypeOK'
  BY <1>2, FileDeliveryAssumption
  DEF Claim, Tells, TypeOK, ClaimHeld, Senders, Busy, Known, Receipts, Rows, Outcomes, task, senders, records,
      console
<1>3. ASSUME NEW s \in Senders, Accepted(s) PROVE TypeOK'
  BY <1>3, FileDeliveryAssumption
  DEF Accepted, TypeOK, ClaimHeld, Senders, Busy, Known, Receipts, Rows, Outcomes, task, senders,
      records, console
<1>4. ASSUME NEW s \in Senders, Acked(s) PROVE TypeOK'
  BY <1>4, FileDeliveryAssumption
  DEF Acked, Recorded, Tells, Ends, Frees, Reports, TypeOK, ClaimHeld, Senders, Busy, Known,
      Receipts, Rows, Outcomes, task, senders, records, console
<1>5. ASSUME NEW s \in Senders, Fails(s) PROVE TypeOK'
  BY <1>5, FileDeliveryAssumption
  DEF Fails, Recorded, Tells, Ends, Frees, Reports, TypeOK, ClaimHeld, Senders, Busy, Known,
      Receipts, Rows, Outcomes, task, senders, records, console
<1>6. ASSUME NEW c \in Calls, NEW f \in Files, Call(c, f) PROVE TypeOK'
  BY <1>6, FileDeliveryAssumption
  DEF Call, TypeOK, ClaimHeld, Senders, Busy, Known, Receipts, Rows, Outcomes, task, senders, records,
      console
<1>7. ASSUME NEW c \in Calls, TimesOut(c) PROVE TypeOK'
  BY <1>7, FileDeliveryAssumption
  DEF TimesOut, TypeOK, ClaimHeld, Senders, Busy, Known, Receipts, Rows, Outcomes, task, senders,
      records, console
<1>8. ASSUME NEW c \in Calls, Cut(c) PROVE TypeOK'
  BY <1>8, FileDeliveryAssumption
  DEF Cut, Ends, Frees, TypeOK, ClaimHeld, Senders, Busy, Known, Receipts, Rows, Outcomes, task,
      senders, records, console
<1>9. ASSUME Stop PROVE TypeOK'
  BY <1>9, FileDeliveryAssumption
  DEF Stop, Over, TypeOK, ClaimHeld, Senders, Busy, Known, Receipts, Rows, Outcomes, task, senders,
      records, console
<1>10. ASSUME NEW selected \in SUBSET Files, Reply(selected) PROVE TypeOK'
  BY <1>10, FileDeliveryAssumption
  DEF Reply, Over, Attempts, TypeOK, ClaimHeld, Senders, Busy, Known, Receipts, Rows, Outcomes, task,
      senders, records, console
<1>11. ASSUME NEW f \in Files, SendNext(f) PROVE TypeOK'
  BY <1>11, FileDeliveryAssumption
  DEF SendNext, TypeOK, ClaimHeld, Senders, Busy, Known, Receipts, Rows, Outcomes, task, senders,
      records, console
<1>12. ASSUME Summary PROVE TypeOK'
  BY <1>12, FileDeliveryAssumption
  DEF Summary, Over, TypeOK, ClaimHeld, Senders, Busy, Known, Receipts, Rows, Outcomes, task, senders,
      records, console
<1>13. ASSUME NEW d \in Resends, NEW f \in Files, Enqueue(d, f) PROVE TypeOK'
  BY <1>13, FileDeliveryAssumption
  DEF Enqueue, TypeOK, ClaimHeld, Senders, Busy, Known, Receipts, Rows, Outcomes, task, senders,
      records, console
<1>14. ASSUME NEW d \in Resends, Resend(d) PROVE TypeOK'
  BY <1>14, FileDeliveryAssumption
  DEF Resend, ItsTurn, TypeOK, ClaimHeld, Senders, Busy, Known, Receipts, Rows, Outcomes, task, senders, records,
      console
<1>15. ASSUME NEW d \in Resends, ResendAccepted(d) PROVE TypeOK'
  BY <1>15, FileDeliveryAssumption
  DEF ResendAccepted, TypeOK, ClaimHeld, Senders, Busy, Known, Receipts, Rows, Outcomes, task, senders,
      records, console
<1>16. ASSUME NEW d \in Resends, ResendEnds(d) PROVE TypeOK'
  BY <1>16, FileDeliveryAssumption
  DEF ResendEnds, Completes, ItsTurn, TypeOK, ClaimHeld, Senders, Busy, Known, Receipts, Rows, Outcomes, task, senders,
      records, console
<1>17. ASSUME Restart PROVE TypeOK'
  BY <1>17, FileDeliveryAssumption
  DEF Restart, Over, TypeOK, ClaimHeld, Senders, Busy, Known, Receipts, Rows, Outcomes, task, senders,
      records, console
<1>18. CASE UNCHANGED vars
  BY <1>18
  DEF vars, TypeOK, ClaimHeld, Senders, Busy, Known, Receipts, Rows, Outcomes, task, senders, records,
      console
<1>20. ASSUME NEW s \in Senders, Refused(s) PROVE TypeOK'
  BY <1>20, FileDeliveryAssumption
  DEF Refused, Ends, Reports, Outcomes, TypeOK, ClaimHeld, Senders, Busy, Known, Receipts, Rows, task,
      senders, records, console
<1>21. ASSUME StopSending PROVE TypeOK'
  BY <1>21, FileDeliveryAssumption
  DEF StopSending, Over, Ends, Frees, Outcomes, TypeOK, ClaimHeld, Senders, Busy, Known, Receipts, Rows, task,
      senders, records, console
<1>22. ASSUME NEW d \in Resends, Expire(d) PROVE TypeOK'
  BY <1>22, FileDeliveryAssumption
  DEF Expire, Outcomes, TypeOK, ClaimHeld, Senders, Busy, Known, Receipts, Rows, task,
      senders, records, console
<1>23. ASSUME NEW batch \in SUBSET Resends, ClaimResends(batch) PROVE TypeOK'
  BY <1>23, FileDeliveryAssumption
  DEF ClaimResends, Outcomes, TypeOK, ClaimHeld, Senders, Busy, Known, Receipts, Rows, task,
      senders, records, console
<1>19. QED
  BY <1>1, <1>2, <1>3, <1>4, <1>5, <1>6, <1>7, <1>8, <1>9, <1>10, <1>11, <1>12, <1>13, <1>14,
     <1>15, <1>16, <1>17, <1>18, <1>20, <1>21, <1>22, <1>23
  DEF Next, Sends

\* A claim stays with the sender that holds the lock.
LEMMA NextClaims ==
  ASSUME TypeOK, FileInv, [Next]_vars
  PROVE  ClaimHeld'
<1>1. ASSUME NEW s \in Senders, Duplicate(s) PROVE ClaimHeld'
  BY <1>1, FileDeliveryAssumption
  DEF Duplicate, Ends, Reports, TypeOK, FileInv, ClaimHeld, RecordsTrue, Senders, Busy,
      UnderWay, Behind, Known, task, senders, records, console
<1>2. ASSUME NEW s \in Senders, Claim(s) PROVE ClaimHeld'
  BY <1>2, FileDeliveryAssumption
  DEF Claim, Tells, TypeOK, FileInv, ClaimHeld, RecordsTrue, Senders, Busy, UnderWay, Behind, Known, task,
      senders, records, console
<1>3. ASSUME NEW s \in Senders, Accepted(s) PROVE ClaimHeld'
  BY <1>3, FileDeliveryAssumption
  DEF Accepted, TypeOK, FileInv, ClaimHeld, RecordsTrue, Senders, Busy, UnderWay, Behind, Known, task,
      senders, records, console
<1>4. ASSUME NEW s \in Senders, Acked(s) PROVE ClaimHeld'
  BY <1>4, FileDeliveryAssumption
  DEF Acked, Recorded, Tells, Ends, Frees, Reports, TypeOK, FileInv, ClaimHeld, RecordsTrue, Senders,
      Busy, UnderWay, Behind, Known, task, senders, records, console
<1>5. ASSUME NEW s \in Senders, Fails(s) PROVE ClaimHeld'
  BY <1>5, FileDeliveryAssumption
  DEF Fails, Recorded, Tells, Ends, Frees, Reports, TypeOK, FileInv, ClaimHeld, RecordsTrue, Senders,
      Busy, UnderWay, Behind, Known, task, senders, records, console
<1>6. ASSUME NEW c \in Calls, NEW f \in Files, Call(c, f) PROVE ClaimHeld'
  BY <1>6, FileDeliveryAssumption
  DEF Call, TypeOK, FileInv, ClaimHeld, RecordsTrue, Senders, Busy, UnderWay, Behind, Known, task,
      senders, records, console
<1>7. ASSUME NEW c \in Calls, TimesOut(c) PROVE ClaimHeld'
  BY <1>7, FileDeliveryAssumption
  DEF TimesOut, TypeOK, FileInv, ClaimHeld, RecordsTrue, Senders, Busy, UnderWay, Behind, Known, task,
      senders, records, console
<1>8. ASSUME NEW c \in Calls, Cut(c) PROVE ClaimHeld'
  BY <1>8, FileDeliveryAssumption
  DEF Cut, Ends, Frees, TypeOK, FileInv, ClaimHeld, RecordsTrue, Senders, Busy, UnderWay, Behind,
      Known, task, senders, records, console
<1>9. ASSUME Stop PROVE ClaimHeld'
  BY <1>9, FileDeliveryAssumption
  DEF Stop, Over, TypeOK, FileInv, ClaimHeld, RecordsTrue, Senders, Busy, UnderWay, Behind, Known,
      task, senders, records, console
<1>10. ASSUME NEW selected \in SUBSET Files, Reply(selected) PROVE ClaimHeld'
  BY <1>10, FileDeliveryAssumption
  DEF Reply, Over, Attempts, TypeOK, FileInv, ClaimHeld, RecordsTrue, Senders, Busy, UnderWay, Behind,
      Known, task, senders, records, console
<1>11. ASSUME NEW f \in Files, SendNext(f) PROVE ClaimHeld'
  BY <1>11, FileDeliveryAssumption
  DEF SendNext, TypeOK, FileInv, ClaimHeld, RecordsTrue, Senders, Busy, UnderWay, Behind, Known, task,
      senders, records, console
<1>12. ASSUME Summary PROVE ClaimHeld'
  BY <1>12, FileDeliveryAssumption
  DEF Summary, Over, TypeOK, FileInv, ClaimHeld, RecordsTrue, Senders, Busy, UnderWay, Behind, Known,
      task, senders, records, console
<1>13. ASSUME NEW d \in Resends, NEW f \in Files, Enqueue(d, f) PROVE ClaimHeld'
  BY <1>13, FileDeliveryAssumption
  DEF Enqueue, TypeOK, FileInv, ClaimHeld, RecordsTrue, Senders, Busy, UnderWay, Behind, Known, task,
      senders, records, console
<1>14. ASSUME NEW d \in Resends, Resend(d) PROVE ClaimHeld'
  BY <1>14, FileDeliveryAssumption
  DEF Resend, ItsTurn, TypeOK, FileInv, ClaimHeld, RecordsTrue, Senders, Busy, UnderWay, Behind, Known, task,
      senders, records, console
<1>15. ASSUME NEW d \in Resends, ResendAccepted(d) PROVE ClaimHeld'
  BY <1>15, FileDeliveryAssumption
  DEF ResendAccepted, TypeOK, FileInv, ClaimHeld, RecordsTrue, Senders, Busy, UnderWay, Behind, Known,
      task, senders, records, console
<1>16. ASSUME NEW d \in Resends, ResendEnds(d) PROVE ClaimHeld'
  BY <1>16, FileDeliveryAssumption
  DEF ResendEnds, Completes, ItsTurn, TypeOK, FileInv, ClaimHeld, RecordsTrue, Senders, Busy, UnderWay, Behind, Known,
      task, senders, records, console
<1>17. ASSUME Restart PROVE ClaimHeld'
  BY <1>17, FileDeliveryAssumption
  DEF Restart, Over, TypeOK, FileInv, ClaimHeld, RecordsTrue, Senders, Busy, UnderWay, Behind, Known,
      task, senders, records, console
<1>18. CASE UNCHANGED vars
  BY <1>18
  DEF vars, TypeOK, FileInv, ClaimHeld, RecordsTrue, Senders, Busy, UnderWay, Behind, Known, task,
      senders, records, console
<1>20. ASSUME NEW s \in Senders, Refused(s) PROVE ClaimHeld'
  BY <1>20, FileDeliveryAssumption
  DEF Refused, Ends, Reports, TypeOK, FileInv, ClaimHeld, RecordsTrue, Senders, Busy, UnderWay,
      Behind, Known, task, senders, records, console
<1>21. ASSUME StopSending PROVE ClaimHeld'
  BY <1>21, FileDeliveryAssumption
  DEF StopSending, Over, Ends, Frees, TypeOK, FileInv, ClaimHeld, RecordsTrue, Senders, Busy, UnderWay,
      Behind, Known, task, senders, records, console
<1>22. ASSUME NEW d \in Resends, Expire(d) PROVE ClaimHeld'
  BY <1>22, FileDeliveryAssumption
  DEF Expire, TypeOK, FileInv, ClaimHeld, RecordsTrue, Senders, Busy, UnderWay,
      Behind, Known, task, senders, records, console
<1>23. ASSUME NEW batch \in SUBSET Resends, ClaimResends(batch) PROVE ClaimHeld'
  BY <1>23, FileDeliveryAssumption
  DEF ClaimResends, TypeOK, FileInv, ClaimHeld, RecordsTrue, Senders, Busy, UnderWay,
      Behind, Known, task, senders, records, console
<1>19. QED
  BY <1>1, <1>2, <1>3, <1>4, <1>5, <1>6, <1>7, <1>8, <1>9, <1>10, <1>11, <1>12, <1>13, <1>14,
     <1>15, <1>16, <1>17, <1>18, <1>20, <1>21, <1>22, <1>23
  DEF Next, Sends

\* The records stay true.
LEMMA NextRecords ==
  ASSUME TypeOK, FileInv, [Next]_vars
  PROVE  RecordsTrue'
<1>1. ASSUME NEW s \in Senders, Duplicate(s) PROVE RecordsTrue'
  BY <1>1, FileDeliveryAssumption
  DEF Duplicate, Ends, Reports, TypeOK, FileInv, ClaimHeld, RecordsTrue, Senders, Busy,
      UnderWay, Behind, Known, Receipts, task, senders, records, console
<1>2. ASSUME NEW s \in Senders, Claim(s) PROVE RecordsTrue'
  BY <1>2, FileDeliveryAssumption
  DEF Claim, Tells, TypeOK, FileInv, ClaimHeld, RecordsTrue, Senders, Busy, UnderWay, Behind, Known,
      Receipts, task, senders, records, console
<1>3. ASSUME NEW s \in Senders, Accepted(s) PROVE RecordsTrue'
  BY <1>3, FileDeliveryAssumption
  DEF Accepted, TypeOK, FileInv, ClaimHeld, RecordsTrue, Senders, Busy, UnderWay, Behind, Known,
      Receipts, task, senders, records, console
<1>4. ASSUME NEW s \in Senders, Acked(s) PROVE RecordsTrue'
  BY <1>4, FileDeliveryAssumption
  DEF Acked, Recorded, Tells, Ends, Frees, Reports, TypeOK, FileInv, ClaimHeld, RecordsTrue, Senders,
      Busy, UnderWay, Behind, Known, Receipts, task, senders, records, console
<1>5. ASSUME NEW s \in Senders, Fails(s) PROVE RecordsTrue'
  BY <1>5, FileDeliveryAssumption
  DEF Fails, Recorded, Tells, Ends, Frees, Reports, TypeOK, FileInv, ClaimHeld, RecordsTrue, Senders,
      Busy, UnderWay, Behind, Known, Receipts, task, senders, records, console
<1>6. ASSUME NEW c \in Calls, NEW f \in Files, Call(c, f) PROVE RecordsTrue'
  BY <1>6, FileDeliveryAssumption
  DEF Call, TypeOK, FileInv, ClaimHeld, RecordsTrue, Senders, Busy, UnderWay, Behind, Known, Receipts,
      task, senders, records, console
<1>7. ASSUME NEW c \in Calls, TimesOut(c) PROVE RecordsTrue'
  BY <1>7, FileDeliveryAssumption
  DEF TimesOut, TypeOK, FileInv, ClaimHeld, RecordsTrue, Senders, Busy, UnderWay, Behind, Known,
      Receipts, task, senders, records, console
<1>8. ASSUME NEW c \in Calls, Cut(c) PROVE RecordsTrue'
  BY <1>8, FileDeliveryAssumption
  DEF Cut, Ends, Frees, TypeOK, FileInv, ClaimHeld, RecordsTrue, Senders, Busy, UnderWay, Behind,
      Known, Receipts, task, senders, records, console
<1>9. ASSUME Stop PROVE RecordsTrue'
  BY <1>9, FileDeliveryAssumption
  DEF Stop, Over, TypeOK, FileInv, ClaimHeld, RecordsTrue, Senders, Busy, UnderWay, Behind, Known,
      Receipts, task, senders, records, console
<1>10. ASSUME NEW selected \in SUBSET Files, Reply(selected) PROVE RecordsTrue'
  BY <1>10, FileDeliveryAssumption
  DEF Reply, Over, Attempts, TypeOK, FileInv, ClaimHeld, RecordsTrue, Senders, Busy, UnderWay, Behind,
      Known, Receipts, task, senders, records, console
<1>11. ASSUME NEW f \in Files, SendNext(f) PROVE RecordsTrue'
  BY <1>11, FileDeliveryAssumption
  DEF SendNext, TypeOK, FileInv, ClaimHeld, RecordsTrue, Senders, Busy, UnderWay, Behind, Known,
      Receipts, task, senders, records, console
<1>12. ASSUME Summary PROVE RecordsTrue'
  BY <1>12, FileDeliveryAssumption
  DEF Summary, Over, TypeOK, FileInv, ClaimHeld, RecordsTrue, Senders, Busy, UnderWay, Behind, Known,
      Receipts, task, senders, records, console
<1>13. ASSUME NEW d \in Resends, NEW f \in Files, Enqueue(d, f) PROVE RecordsTrue'
  BY <1>13, FileDeliveryAssumption
  DEF Enqueue, TypeOK, FileInv, ClaimHeld, RecordsTrue, Senders, Busy, UnderWay, Behind, Known,
      Receipts, task, senders, records, console
<1>14. ASSUME NEW d \in Resends, Resend(d) PROVE RecordsTrue'
  BY <1>14, FileDeliveryAssumption
  DEF Resend, ItsTurn, TypeOK, FileInv, ClaimHeld, RecordsTrue, Senders, Busy, UnderWay, Behind, Known,
      Receipts, task, senders, records, console
<1>15. ASSUME NEW d \in Resends, ResendAccepted(d) PROVE RecordsTrue'
  BY <1>15, FileDeliveryAssumption
  DEF ResendAccepted, TypeOK, FileInv, ClaimHeld, RecordsTrue, Senders, Busy, UnderWay, Behind, Known,
      Receipts, task, senders, records, console
<1>16. ASSUME NEW d \in Resends, ResendEnds(d) PROVE RecordsTrue'
  BY <1>16, FileDeliveryAssumption
  DEF ResendEnds, Completes, ItsTurn, TypeOK, FileInv, ClaimHeld, RecordsTrue, Senders, Busy, UnderWay, Behind, Known,
      Receipts, task, senders, records, console
<1>17. ASSUME Restart PROVE RecordsTrue'
  BY <1>17, FileDeliveryAssumption
  DEF Restart, Over, TypeOK, FileInv, ClaimHeld, RecordsTrue, Senders, Busy, UnderWay, Behind, Known,
      Receipts, task, senders, records, console
<1>18. CASE UNCHANGED vars
  BY <1>18
  DEF vars, TypeOK, FileInv, ClaimHeld, RecordsTrue, Senders, Busy, UnderWay, Behind, Known, Receipts,
      task, senders, records, console
<1>20. ASSUME NEW s \in Senders, Refused(s) PROVE RecordsTrue'
  BY <1>20, FileDeliveryAssumption
  DEF Refused, Ends, Reports, TypeOK, FileInv, ClaimHeld, RecordsTrue, Senders, Busy, UnderWay,
      Behind, Known, Receipts, task, senders, records, console
<1>21. ASSUME StopSending PROVE RecordsTrue'
  BY <1>21, FileDeliveryAssumption
  DEF StopSending, Over, Ends, Frees, TypeOK, FileInv, ClaimHeld, RecordsTrue, Senders, Busy, UnderWay,
      Behind, Known, Receipts, task, senders, records, console
<1>22. ASSUME NEW d \in Resends, Expire(d) PROVE RecordsTrue'
  BY <1>22, FileDeliveryAssumption
  DEF Expire, TypeOK, FileInv, ClaimHeld, RecordsTrue, Senders, Busy, UnderWay,
      Behind, Known, Receipts, task, senders, records, console
<1>23. ASSUME NEW batch \in SUBSET Resends, ClaimResends(batch) PROVE RecordsTrue'
  BY <1>23, FileDeliveryAssumption
  DEF ClaimResends, TypeOK, FileInv, ClaimHeld, RecordsTrue, Senders, Busy, UnderWay,
      Behind, Known, Receipts, task, senders, records, console
<1>19. QED
  BY <1>1, <1>2, <1>3, <1>4, <1>5, <1>6, <1>7, <1>8, <1>9, <1>10, <1>11, <1>12, <1>13, <1>14,
     <1>15, <1>16, <1>17, <1>18, <1>20, <1>21, <1>22, <1>23
  DEF Next, Sends

\* A resend is counted.
LEMMA NextResends ==
  ASSUME TypeOK, FileInv, [Next]_vars
  PROVE  ResendsCounted'
<1>1. ASSUME NEW s \in Senders, Duplicate(s) PROVE ResendsCounted'
  BY <1>1, FileDeliveryAssumption
  DEF Duplicate, Ends, Reports, TypeOK, FileInv, ResendsCounted, Leases, task, senders, records,
      console
<1>2. ASSUME NEW s \in Senders, Claim(s) PROVE ResendsCounted'
  BY <1>2, FileDeliveryAssumption
  DEF Claim, Tells, TypeOK, FileInv, ResendsCounted, Leases, task, senders, records, console
<1>3. ASSUME NEW s \in Senders, Accepted(s) PROVE ResendsCounted'
  BY <1>3, FileDeliveryAssumption
  DEF Accepted, TypeOK, FileInv, ResendsCounted, Leases, task, senders, records, console
<1>4. ASSUME NEW s \in Senders, Acked(s) PROVE ResendsCounted'
  BY <1>4, FileDeliveryAssumption
  DEF Acked, Recorded, Tells, Ends, Frees, Reports, TypeOK, FileInv, ResendsCounted, Leases, task, senders,
      records, console
<1>5. ASSUME NEW s \in Senders, Fails(s) PROVE ResendsCounted'
  BY <1>5, FileDeliveryAssumption
  DEF Fails, Recorded, Tells, Ends, Frees, Reports, TypeOK, FileInv, ResendsCounted, Leases, task, senders,
      records, console
<1>6. ASSUME NEW c \in Calls, NEW f \in Files, Call(c, f) PROVE ResendsCounted'
  BY <1>6, FileDeliveryAssumption
  DEF Call, TypeOK, FileInv, ResendsCounted, Leases, task, senders, records, console
<1>7. ASSUME NEW c \in Calls, TimesOut(c) PROVE ResendsCounted'
  BY <1>7, FileDeliveryAssumption
  DEF TimesOut, TypeOK, FileInv, ResendsCounted, Leases, task, senders, records, console
<1>8. ASSUME NEW c \in Calls, Cut(c) PROVE ResendsCounted'
  BY <1>8, FileDeliveryAssumption
  DEF Cut, Ends, Frees, TypeOK, FileInv, ResendsCounted, Leases, task, senders, records, console
<1>9. ASSUME Stop PROVE ResendsCounted'
  BY <1>9, FileDeliveryAssumption
  DEF Stop, Over, TypeOK, FileInv, ResendsCounted, Leases, task, senders, records, console
<1>10. ASSUME NEW selected \in SUBSET Files, Reply(selected) PROVE ResendsCounted'
  BY <1>10, FileDeliveryAssumption
  DEF Reply, Over, Attempts, TypeOK, FileInv, ResendsCounted, Leases, task, senders, records, console
<1>11. ASSUME NEW f \in Files, SendNext(f) PROVE ResendsCounted'
  BY <1>11, FileDeliveryAssumption
  DEF SendNext, TypeOK, FileInv, ResendsCounted, Leases, task, senders, records, console
<1>12. ASSUME Summary PROVE ResendsCounted'
  BY <1>12, FileDeliveryAssumption
  DEF Summary, Over, TypeOK, FileInv, ResendsCounted, Leases, task, senders, records, console
<1>13. ASSUME NEW d \in Resends, NEW f \in Files, Enqueue(d, f) PROVE ResendsCounted'
  BY <1>13, FileDeliveryAssumption
  DEF Enqueue, TypeOK, FileInv, ResendsCounted, Leases, task, senders, records, console
<1>14. ASSUME NEW d \in Resends, Resend(d) PROVE ResendsCounted'
  BY <1>14, FileDeliveryAssumption
  DEF Resend, ItsTurn, TypeOK, FileInv, ResendsCounted, Leases, task, senders, records, console
<1>15. ASSUME NEW d \in Resends, ResendAccepted(d) PROVE ResendsCounted'
  BY <1>15, FileDeliveryAssumption
  DEF ResendAccepted, TypeOK, FileInv, ResendsCounted, Leases, task, senders, records, console
<1>16. ASSUME NEW d \in Resends, ResendEnds(d) PROVE ResendsCounted'
  BY <1>16, FileDeliveryAssumption
  DEF ResendEnds, Completes, ItsTurn, TypeOK, FileInv, ResendsCounted, Leases, task, senders, records, console
<1>17. ASSUME Restart PROVE ResendsCounted'
  BY <1>17, FileDeliveryAssumption
  DEF Restart, Over, TypeOK, FileInv, ResendsCounted, Leases, task, senders, records, console
<1>18. CASE UNCHANGED vars
  BY <1>18 DEF vars, TypeOK, FileInv, ResendsCounted, Leases, task, senders, records, console
<1>20. ASSUME NEW s \in Senders, Refused(s) PROVE ResendsCounted'
  BY <1>20, FileDeliveryAssumption
  DEF Refused, Ends, Reports, TypeOK, FileInv, ResendsCounted, Leases, task, senders, records,
      console
<1>21. ASSUME StopSending PROVE ResendsCounted'
  BY <1>21, FileDeliveryAssumption
  DEF StopSending, Over, Ends, Frees, TypeOK, FileInv, ResendsCounted, Leases, task, senders, records,
      console
<1>22. ASSUME NEW d \in Resends, Expire(d) PROVE ResendsCounted'
  BY <1>22, FileDeliveryAssumption
  DEF Expire, TypeOK, FileInv, ResendsCounted, Leases, task, senders, records,
      console
<1>23. ASSUME NEW batch \in SUBSET Resends, ClaimResends(batch) PROVE ResendsCounted'
  BY <1>23, FileDeliveryAssumption
  DEF ClaimResends, TypeOK, FileInv, ResendsCounted, Leases, task, senders, records,
      console
<1>19. QED
  BY <1>1, <1>2, <1>3, <1>4, <1>5, <1>6, <1>7, <1>8, <1>9, <1>10, <1>11, <1>12, <1>13, <1>14,
     <1>15, <1>16, <1>17, <1>18, <1>20, <1>21, <1>22, <1>23
  DEF Next, Sends

\* The task keeps track of its files.
LEMMA NextKnows ==
  ASSUME TypeOK, FileInv, [Next]_vars
  PROVE  TaskKnows'
<1>1. ASSUME NEW s \in Senders, Duplicate(s) PROVE TaskKnows'
  BY <1>1, FileDeliveryAssumption
  DEF Duplicate, Ends, Reports, TypeOK, FileInv, ClaimHeld, RecordsTrue, TaskKnows, Senders,
      Busy, UnderWay, Behind, Known, Receipts, task, senders, records, console
<1>2. ASSUME NEW s \in Senders, Claim(s) PROVE TaskKnows'
  <2>1. file[s] \in Files /\ Busy(s) /\ turn' = turn /\ outcome' = outcome
    BY <1>2 DEF Claim, Tells, task, FileInv, ClaimHeld, Busy, UnderWay
  <2>2. turn' # "over" => \A f \in Files :
          results'[f] = stored'[f] \/ (results'[f] = "sent" /\ stored'[f] = "unknown")
    BY <1>2, <2>1 DEF Claim, Tells, task, TypeOK, FileInv, ClaimHeld, TaskKnows, UnderWay
  <2>3. turn' = "running" => outcome' = "none" /\ ~(Busy(Loop))'
    BY <1>2, <2>1 DEF Claim, Tells, task, TypeOK, FileInv, TaskKnows, Busy, Senders
  <2>4. \A c \in Calls : (Busy(c))' /\ c \notin cut' => answer'[c] = "none"
    BY <1>2, <2>1, FileDeliveryAssumption DEF Claim, Tells, task, TypeOK, FileInv, TaskKnows, Busy, Senders
  <2>5. CASE turn = "sending"
    <3>1. s = Loop
      BY <2>1, <2>5 DEF FileInv, TaskKnows, Senders
    <3>2. \A c \in Calls : ~(Busy(c))'
      BY <1>2, <2>1, <2>5, <3>1, FileDeliveryAssumption
      DEF Claim, Tells, task, TypeOK, FileInv, TaskKnows, Busy, Senders
    <3>3. \A f \in Files : results'[f] = "unknown" => f \in failed' \/ (UnderWay(Loop)'
            /\ file'[Loop] = f)
      BY <1>2, <2>1, <2>5, <3>1, FileDeliveryAssumption
      DEF Claim, Tells, task, TypeOK, FileInv, ClaimHeld, RecordsTrue, TaskKnows, Senders, Busy,
          UnderWay, Behind, Known, Receipts
    <3>4. QED
      BY <2>1, <2>2, <2>3, <2>4, <2>5, <3>2, <3>3 DEF FileInv, TaskKnows
  <2>6. CASE turn # "sending"
    <3>1. outcome # "succeeded"
      BY <2>1 DEF FileInv, TaskKnows
    <3>2. QED
      BY <2>1, <2>2, <2>3, <2>4, <2>6, <3>1 DEF TaskKnows
  <2>7. QED
    BY <2>5, <2>6
<1>3. ASSUME NEW s \in Senders, Accepted(s) PROVE TaskKnows'
  BY <1>3, FileDeliveryAssumption
  DEF Accepted, TypeOK, FileInv, ClaimHeld, RecordsTrue, TaskKnows, Senders, Busy, UnderWay, Behind,
      Known, Receipts, task, senders, records, console
<1>4. ASSUME NEW s \in Senders, Acked(s) PROVE TaskKnows'
  <2>1. file[s] \in Files /\ Busy(s) /\ turn' = turn /\ outcome' = outcome
    BY <1>4 DEF Acked, Recorded, Tells, Ends, Frees, Reports, FileInv, ClaimHeld, Busy, UnderWay
  <2>2. turn' # "over" => \A f \in Files :
          results'[f] = stored'[f] \/ (results'[f] = "sent" /\ stored'[f] = "unknown")
    BY <1>4, <2>1
    DEF Acked, Recorded, Tells, Ends, Frees, Reports, TypeOK, FileInv, ClaimHeld, TaskKnows, UnderWay
  <2>3. turn' = "running" => outcome' = "none" /\ ~(Busy(Loop))'
    BY <1>4, <2>1
    DEF Acked, Recorded, Tells, Ends, Frees, Reports, TypeOK, FileInv, TaskKnows, Busy, Senders
  <2>4. \A c \in Calls : (Busy(c))' /\ c \notin cut' => answer'[c] = "none"
    BY <1>4, <2>1, FileDeliveryAssumption
    DEF Acked, Recorded, Tells, Ends, Frees, Reports, TypeOK, FileInv, TaskKnows, Busy, Senders
  <2>5. CASE turn = "sending"
    <3>1. s = Loop
      BY <2>1, <2>5 DEF FileInv, TaskKnows, Senders
    <3>2. \A c \in Calls : ~(Busy(c))'
      BY <1>4, <2>1, <2>5, <3>1, FileDeliveryAssumption
      DEF Acked, Recorded, Tells, Ends, Frees, Reports, TypeOK, FileInv, TaskKnows, Busy, Senders
    <3>3. \A f \in Files : results'[f] = "unknown" => f \in failed' \/ (UnderWay(Loop)'
            /\ file'[Loop] = f)
      BY <1>4, <2>1, <2>5, <3>1, FileDeliveryAssumption
      DEF Acked, Recorded, Tells, Ends, Frees, Reports, TypeOK, FileInv, ClaimHeld, RecordsTrue,
          TaskKnows, Senders, Busy, UnderWay, Behind, Known, Receipts
    <3>4. QED
      BY <2>1, <2>2, <2>3, <2>4, <2>5, <3>2, <3>3 DEF FileInv, TaskKnows
  <2>6. CASE turn # "sending"
    <3>1. outcome # "succeeded"
      BY <2>1 DEF FileInv, TaskKnows
    <3>2. QED
      BY <2>1, <2>2, <2>3, <2>4, <2>6, <3>1 DEF TaskKnows
  <2>7. QED
    BY <2>5, <2>6
<1>5. ASSUME NEW s \in Senders, Fails(s) PROVE TaskKnows'
  <2>1. file[s] \in Files /\ Busy(s) /\ turn' = turn /\ outcome' = outcome
    BY <1>5 DEF Fails, Recorded, Tells, Ends, Frees, Reports, FileInv, ClaimHeld, Busy, UnderWay
  <2>2. turn' # "over" => \A f \in Files :
          results'[f] = stored'[f] \/ (results'[f] = "sent" /\ stored'[f] = "unknown")
    BY <1>5, <2>1
    DEF Fails, Recorded, Tells, Ends, Frees, Reports, TypeOK, FileInv, ClaimHeld, TaskKnows, UnderWay
  <2>3. turn' = "running" => outcome' = "none" /\ ~(Busy(Loop))'
    BY <1>5, <2>1
    DEF Fails, Recorded, Tells, Ends, Frees, Reports, TypeOK, FileInv, TaskKnows, Busy, Senders
  <2>4. \A c \in Calls : (Busy(c))' /\ c \notin cut' => answer'[c] = "none"
    BY <1>5, <2>1, FileDeliveryAssumption
    DEF Fails, Recorded, Tells, Ends, Frees, Reports, TypeOK, FileInv, TaskKnows, Busy, Senders
  <2>5. CASE turn = "sending"
    <3>1. s = Loop
      BY <2>1, <2>5 DEF FileInv, TaskKnows, Senders
    <3>2. \A c \in Calls : ~(Busy(c))'
      BY <1>5, <2>1, <2>5, <3>1, FileDeliveryAssumption
      DEF Fails, Recorded, Tells, Ends, Frees, Reports, TypeOK, FileInv, TaskKnows, Busy, Senders
    <3>3. \A f \in Files : results'[f] = "unknown" => f \in failed' \/ (UnderWay(Loop)'
            /\ file'[Loop] = f)
      BY <1>5, <2>1, <2>5, <3>1, FileDeliveryAssumption
      DEF Fails, Recorded, Tells, Ends, Frees, Reports, TypeOK, FileInv, ClaimHeld, RecordsTrue,
          TaskKnows, Senders, Busy, UnderWay, Behind, Known, Receipts
    <3>4. QED
      BY <2>1, <2>2, <2>3, <2>4, <2>5, <3>2, <3>3 DEF FileInv, TaskKnows
  <2>6. CASE turn # "sending"
    <3>1. outcome # "succeeded"
      BY <2>1 DEF FileInv, TaskKnows
    <3>2. QED
      BY <2>1, <2>2, <2>3, <2>4, <2>6, <3>1 DEF TaskKnows
  <2>7. QED
    BY <2>5, <2>6
<1>6. ASSUME NEW c \in Calls, NEW f \in Files, Call(c, f) PROVE TaskKnows'
  BY <1>6, FileDeliveryAssumption
  DEF Call, TypeOK, FileInv, ClaimHeld, RecordsTrue, TaskKnows, Senders, Busy, UnderWay, Behind,
      Known, Receipts, task, senders, records, console
<1>7. ASSUME NEW c \in Calls, TimesOut(c) PROVE TaskKnows'
  BY <1>7, FileDeliveryAssumption
  DEF TimesOut, TypeOK, FileInv, ClaimHeld, RecordsTrue, TaskKnows, Senders, Busy, UnderWay, Behind,
      Known, Receipts, task, senders, records, console
<1>8. ASSUME NEW c \in Calls, Cut(c) PROVE TaskKnows'
  BY <1>8, FileDeliveryAssumption
  DEF Cut, Ends, Frees, TypeOK, FileInv, ClaimHeld, RecordsTrue, TaskKnows, Senders, Busy,
      UnderWay, Behind, Known, Receipts, task, senders, records, console
<1>9. ASSUME Stop PROVE TaskKnows'
  BY <1>9, FileDeliveryAssumption
  DEF Stop, Over, TypeOK, FileInv, ClaimHeld, RecordsTrue, TaskKnows, Senders, Busy, UnderWay, Behind,
      Known, Receipts, task, senders, records, console
<1>10. ASSUME NEW selected \in SUBSET Files, Reply(selected) PROVE TaskKnows'
  BY <1>10, FileDeliveryAssumption
  DEF Reply, Over, Attempts, TypeOK, FileInv, ClaimHeld, RecordsTrue, TaskKnows, Senders,
      Busy, UnderWay, Behind, Known, Receipts, task, senders, records, console
<1>11. ASSUME NEW f \in Files, SendNext(f) PROVE TaskKnows'
  BY <1>11, FileDeliveryAssumption
  DEF SendNext, TypeOK, FileInv, ClaimHeld, RecordsTrue, TaskKnows, Senders, Busy, UnderWay, Behind,
      Known, Receipts, task, senders, records, console
<1>12. ASSUME Summary PROVE TaskKnows'
  BY <1>12, FileDeliveryAssumption
  DEF Summary, Over, TypeOK, FileInv, ClaimHeld, RecordsTrue, TaskKnows, Senders, Busy,
      UnderWay, Behind, Known, Receipts, task, senders, records, console
<1>13. ASSUME NEW d \in Resends, NEW f \in Files, Enqueue(d, f) PROVE TaskKnows'
  BY <1>13, FileDeliveryAssumption
  DEF Enqueue, TypeOK, FileInv, ClaimHeld, RecordsTrue, TaskKnows, Senders, Busy, UnderWay, Behind,
      Known, Receipts, task, senders, records, console
<1>14. ASSUME NEW d \in Resends, Resend(d) PROVE TaskKnows'
  BY <1>14, FileDeliveryAssumption
  DEF Resend, ItsTurn, TypeOK, FileInv, ClaimHeld, RecordsTrue, TaskKnows, Senders, Busy, UnderWay, Behind,
      Known, Receipts, task, senders, records, console
<1>15. ASSUME NEW d \in Resends, ResendAccepted(d) PROVE TaskKnows'
  BY <1>15, FileDeliveryAssumption
  DEF ResendAccepted, TypeOK, FileInv, ClaimHeld, RecordsTrue, TaskKnows, Senders, Busy,
      UnderWay, Behind, Known, Receipts, task, senders, records, console
<1>16. ASSUME NEW d \in Resends, ResendEnds(d) PROVE TaskKnows'
  BY <1>16, FileDeliveryAssumption
  DEF ResendEnds, Completes, ItsTurn, TypeOK, FileInv, ClaimHeld, RecordsTrue, TaskKnows, Senders, Busy, UnderWay, Behind,
      Known, Receipts, task, senders, records, console
<1>17. ASSUME Restart PROVE TaskKnows'
  BY <1>17, FileDeliveryAssumption
  DEF Restart, Over, TypeOK, FileInv, ClaimHeld, RecordsTrue, TaskKnows, Senders, Busy,
      UnderWay, Behind, Known, Receipts, task, senders, records, console
<1>18. CASE UNCHANGED vars
  BY <1>18
  DEF vars, TypeOK, FileInv, ClaimHeld, RecordsTrue, TaskKnows, Senders, Busy, UnderWay, Behind,
      Known, Receipts, task, senders, records, console
<1>20. ASSUME NEW s \in Senders, Refused(s) PROVE TaskKnows'
  BY <1>20, FileDeliveryAssumption
  DEF Refused, Ends, Reports, TypeOK, FileInv, ClaimHeld, RecordsTrue, TaskKnows, Senders, Busy,
      UnderWay, Behind, Known, Receipts, task, senders, records, console
<1>21. ASSUME StopSending PROVE TaskKnows'
  BY <1>21, FileDeliveryAssumption
  DEF StopSending, Over, Ends, Frees, TypeOK, FileInv, ClaimHeld, RecordsTrue, TaskKnows, Senders, Busy,
      UnderWay, Behind, Known, Receipts, task, senders, records, console
<1>22. ASSUME NEW d \in Resends, Expire(d) PROVE TaskKnows'
  BY <1>22, FileDeliveryAssumption
  DEF Expire, TypeOK, FileInv, ClaimHeld, RecordsTrue, TaskKnows, Senders, Busy,
      UnderWay, Behind, Known, Receipts, task, senders, records, console
<1>23. ASSUME NEW batch \in SUBSET Resends, ClaimResends(batch) PROVE TaskKnows'
  BY <1>23, FileDeliveryAssumption
  DEF ClaimResends, TypeOK, FileInv, ClaimHeld, RecordsTrue, TaskKnows, Senders, Busy,
      UnderWay, Behind, Known, Receipts, task, senders, records, console
<1>19. QED
  BY <1>1, <1>2, <1>3, <1>4, <1>5, <1>6, <1>7, <1>8, <1>9, <1>10, <1>11, <1>12, <1>13, <1>14,
     <1>15, <1>16, <1>17, <1>18, <1>20, <1>21, <1>22, <1>23
  DEF Next, Sends

(***************************************************************************)
(* The theorems.                                                           *)
(***************************************************************************)
\* Nothing is claimed or sent at first.
LEMMA InitInv == Init => FileInv
BY FileDeliveryAssumption
DEF Init, FileInv, ClaimHeld, RecordsTrue, ResendsCounted, Leases, TaskKnows, Busy, UnderWay,
    Senders

\* Every variable keeps its type, and the claims, records and lists agree: send, the tool's
\* calls, the reply and the resends in any order.
THEOREM FilesCorrect == Spec => [](TypeOK /\ FileInv)
<1>1. TypeOK /\ FileInv /\ [Next]_vars => (TypeOK /\ FileInv)'
  BY NextType, NextClaims, NextRecords, NextResends, NextKnows DEF FileInv
<1>2. QED
  BY <1>1, InitType, InitInv, PTL DEF Spec

\* The platform takes a file from the task at most once, and a resend once more only for
\* each lease that ran out.
THEOREM OnceCorrect == Spec => []SentOnce
<1>1. TypeOK /\ FileInv => SentOnce
  BY FileDeliveryAssumption DEF TypeOK, FileInv, RecordsTrue, ResendsCounted, Leases, SentOnce
<1>2. QED
  BY <1>1, FilesCorrect, PTL

\* A receipt, a stored delivery or a row that says "sent" is of a file the platform took.
THEOREM ReceiptsCorrect == Spec => []ReceiptsTrue
<1>1. TypeOK /\ FileInv => ReceiptsTrue
  BY DEF TypeOK, FileInv, RecordsTrue, ResendsCounted, ReceiptsTrue
<1>2. QED
  BY <1>1, FilesCorrect, PTL

\* A task that is reported as succeeded has had every file taken that was attempted, and no
\* row of the console denies it.
THEOREM SuccessCorrect == Spec => []SuccessDelivered
<1>1. TypeOK /\ FileInv => SuccessDelivered
  BY DEF FileInv, TaskKnows, Behind, SuccessDelivered
<1>2. QED
  BY <1>1, FilesCorrect, PTL

-----------------------------------------------------------------------------
(***************************************************************************)
(* The GUI bridge, with any chats, texts and sizes of its caches.          *)
(***************************************************************************)
CONSTANTS Chats, NoTarget, Groups, Texts, Mentions, Requests, Garbled, Positions, Capacity,
          MaxBubbles, MaxMisreads, MaxFaults, MaxSwitches

VARIABLES shown, draft, pc, target, msg, reply, seen, handled, outgoing,
          misreads, faults, switches, meddled

Gui == INSTANCE GuiBridge

(***************************************************************************)
(* The inductive invariant of the GUI bridge.                              *)
(***************************************************************************)
\* The rounds that have read a message, and those that answer it.
Mine == pc \in {"read", "ready", "checked", "pasted"}
Answering == pc \in {"ready", "checked", "pasted"}

\* What a round holds.
Held == Mine => msg.id \in DOMAIN bubbles /\ msg.pos \in Positions
Targeted == pc # "idle" => target \in Chats
RoundInv == Gui!TypeOK /\ Held /\ Targeted

\* The requests of replies are bubbles.
Real ==
  /\ \A n \in DOMAIN sent : sent[n].req \in DOMAIN bubbles
  /\ \A c \in Chats : \A k \in DOMAIN draft[c] : draft[c][k].req \in DOMAIN bubbles

\* Unless it is meddled with, the target of a round is the one of the chat in the window when
\* it reads a message, and the one of the message's chat, and the window's name passes the
\* title check when it answers.  Every part of a draft knows whether that still held when it
\* was pasted.
Passes(c, t) == <<c, t>> \in Alike
Aimed ==
  /\ pc = "looked" /\ ~meddled => Target[shown] = target
  /\ pc \in {"checked", "pasted"} /\ ~meddled => Passes(shown, target)
MineAimed == Mine /\ (~meddled \/ msg.id \notin excused) => Target[bubbles[msg.id].chat] = target
DraftsAimed ==
  \A c \in Chats : \A k \in DOMAIN draft[c] :
    Passes(c, Target[bubbles[draft[c][k].req].chat]) \/ draft[c][k].meddled

\* What was not misread was read as it is.
MineRead ==
  Mine =>
    /\ msg.id \notin excused => msg.text = bubbles[msg.id].text
    /\ msg.id \notin wrongSide => msg.self = (bubbles[msg.id].from = "bridge")
    /\ msg.id \notin excused \cup wrongSide => msg.named

\* The words of a bubble of the bridge are in outgoing_text_cache, except a file's name,
\* before the bubble is there.
Words(i) == <<Target[bubbles[i].chat], bubbles[i].text>>
OwnRemembered ==
  \A i \in DOMAIN bubbles :
    bubbles[i].from = "bridge" => i \in excused \/ bubbles[i].text = "file"
      \/ Gui!Has(outgoing, Words(i))
ReplyRemembered == Answering => reply = "file" \/ Gui!Has(outgoing, <<target, reply>>)
Pasted ==
  pc = "pasted" /\ ~meddled =>
    \E k \in DOMAIN draft[shown] : draft[shown][k].req = msg.id /\ draft[shown][k].text = reply

\* NoEcho of the replies under way: in the round, and in the drafts.
Justified(i) ==
  bubbles[i].from = "bridge" => i \in wrongSide /\ (i \in excused \/ bubbles[i].text = "file")
PeerAsked == Answering => msg.self = FALSE
MineJustified == Answering => Justified(msg.id)
DraftsJustified == \A c \in Chats : \A k \in DOMAIN draft[c] : Justified(draft[c][k].req)

\* A request with a reply is in handled_request_cache; only the reply that was just pasted
\* is not there yet.
Forgiven == excused \cup wrongSide
Asked(i) == <<Target[bubbles[i].chat], bubbles[i].text, FALSE, TRUE>>
SentHandled ==
  \A n \in DOMAIN sent : sent[n].req \in Forgiven \/ Gui!Has(handled, Asked(sent[n].req))
DraftHandled ==
  \A c \in Chats : \A k \in DOMAIN draft[c] :
    \/ draft[c][k].req \in Forgiven
    \/ Gui!Has(handled, Asked(draft[c][k].req))
    \/ pc = "pasted" /\ msg.id = draft[c][k].req

\* A request has one reply, sent or in a draft, and none while its answer is on the way.
Unanswered ==
  pc \in {"ready", "checked"} /\ msg.id \notin Forgiven =>
    /\ \A n \in DOMAIN sent : sent[n].req # msg.id
    /\ \A c \in Chats : \A k \in DOMAIN draft[c] : draft[c][k].req # msg.id
DraftOnce ==
  \A c, d \in Chats : \A k \in DOMAIN draft[c], l \in DOMAIN draft[d] :
    draft[c][k].req = draft[d][l].req => draft[c][k].req \in Forgiven \/ (c = d /\ k = l)
NotBoth ==
  \A n \in DOMAIN sent, c \in Chats : \A k \in DOMAIN draft[c] :
    sent[n].req = draft[c][k].req => sent[n].req \in Forgiven

GuiInv ==
  /\ Real /\ Aimed /\ MineAimed /\ DraftsAimed /\ MineRead
  /\ OwnRemembered /\ ReplyRemembered /\ Pasted
  /\ PeerAsked /\ MineJustified /\ DraftsJustified
  /\ SentHandled /\ DraftHandled /\ Unanswered /\ DraftOnce /\ NotBoth
  /\ NoEcho /\ AnsweredOnce /\ RightChat

(***************************************************************************)
(* ProcessedMessageCache, and the sequences of the model.                  *)
(***************************************************************************)
\* A cache keeps its type and its size, and has what was added.
LEMMA AddedType ==
  ASSUME Gui!GuiAssumption, NEW S, NEW cache \in Seq(S), NEW x \in S, Len(cache) \in 0..Capacity
  PROVE  /\ Gui!Added(cache, x) \in Seq(S) /\ Len(Gui!Added(cache, x)) \in 0..Capacity
         /\ Gui!Has(Gui!Added(cache, x), x)
<1>1. CASE Gui!Has(cache, x)
  BY <1>1 DEF Gui!Added
<1>2. CASE ~Gui!Has(cache, x) /\ Len(cache) < Capacity
  <2>1. Append(cache, x)[Len(cache) + 1] = x /\ Len(cache) + 1 \in DOMAIN Append(cache, x)
    OBVIOUS
  <2>2. QED
    BY <1>2, <2>1 DEF Gui!Added, Gui!Has, Gui!GuiAssumption
<1>3. CASE ~Gui!Has(cache, x) /\ ~(Len(cache) < Capacity)
  <2>1. cache # <<>> /\ Len(cache) = Capacity
    BY <1>3 DEF Gui!GuiAssumption
  <2>2. Tail(cache) \in Seq(S) /\ Len(Tail(cache)) = Len(cache) - 1
    BY <2>1
  <2>3. /\ Append(Tail(cache), x) \in Seq(S) /\ Len(Append(Tail(cache), x)) = Len(cache)
        /\ Append(Tail(cache), x)[Len(cache)] = x
    BY <2>1, <2>2
  <2>4. Len(cache) \in DOMAIN Append(Tail(cache), x)
    BY <2>1, <2>3
  <2>5. QED
    BY <1>3, <2>1, <2>3, <2>4 DEF Gui!Added, Gui!Has
<1>4. QED
  BY <1>1, <1>2, <1>3

\* What an addition does not evict stays.
LEMMA AddedKeeps ==
  ASSUME NEW cache, NEW x, NEW y, Gui!Has(cache, y)
  PROVE  Gui!Has(Gui!Added(cache, x), y) \/ y \in Gui!Evicted(cache, x)
BY DEF Gui!Evicted, Gui!ToSet, Gui!Has

\* A round that ends has no message.
LEMMA RoundEndsType ==
  ASSUME Gui!RoundEnds
  PROVE  /\ (pc \in {"idle", "looked", "read", "ready", "checked", "pasted"})'
        /\ (target \in Chats \cup {NoTarget} /\ reply \in Gui!Replies)'
        /\ (msg \in [id : Nat, text : Gui!Written, self : BOOLEAN, named : BOOLEAN, pos : Positions \cup {0}])'
        /\ (meddled \in BOOLEAN)' /\ Targeted' /\ ~Mine'
BY DEF Gui!RoundEnds, Gui!NoMessage, Gui!Written, Gui!Replies, Mine, Targeted

\* Append adds one element, after the others.
LEMMA AppendSeq ==
  ASSUME NEW S, NEW s \in Seq(S), NEW x \in S
  PROVE  /\ Append(s, x) \in Seq(S) /\ DOMAIN Append(s, x) = (DOMAIN s) \cup {Len(s) + 1}
         /\ \A i \in DOMAIN s : Append(s, x)[i] = s[i] /\ i # Len(s) + 1
         /\ Append(s, x)[Len(s) + 1] = x
OBVIOUS

\* The elements of a sequence are in its set.
LEMMA Elements ==
  ASSUME NEW S, NEW s \in Seq(S)
  PROVE  Len(s) \in Nat /\ DOMAIN s = 1..Len(s) /\ \A i \in DOMAIN s : s[i] \in S /\ i \in Nat
OBVIOUS

BubbleType == [chat : Chats, from : {"peer", "bridge"}, text : Gui!Written]
DraftType == [req : Nat \ {0}, text : Gui!Replies, meddled : BOOLEAN]
SentType == [req : Nat \ {0}, to : Chats, meddled : BOOLEAN]

\* The types of the bubbles, of the parts of a draft and of the replies sent.
LEMMA BubbleFacts ==
  ASSUME Gui!TypeOK
  PROVE  /\ bubbles \in Seq(BubbleType) /\ Len(bubbles) \in Nat /\ DOMAIN bubbles = 1..Len(bubbles)
         /\ \A i \in DOMAIN bubbles : /\ bubbles[i] \in BubbleType /\ i \in Nat
              /\ bubbles[i].chat \in Chats
              /\ bubbles[i].from \in {"peer", "bridge"} /\ bubbles[i].text \in Gui!Written
<1>1. bubbles \in Seq(BubbleType)
  BY DEF Gui!TypeOK, BubbleType
<1>2. \A b \in BubbleType : b.chat \in Chats /\ b.from \in {"peer", "bridge"}
        /\ b.text \in Gui!Written
  BY DEF BubbleType
<1>3. QED
  BY <1>1, <1>2

\* ... of the drafts ...
LEMMA DraftFacts ==
  ASSUME Gui!TypeOK
  PROVE  /\ draft \in [Chats -> Seq(DraftType)]
         /\ \A c \in Chats : /\ draft[c] \in Seq(DraftType) /\ Len(draft[c]) \in Nat
              /\ DOMAIN draft[c] = 1..Len(draft[c])
              /\ \A k \in DOMAIN draft[c] : /\ draft[c][k] \in DraftType
                   /\ draft[c][k].req \in Nat \ {0}
                   /\ draft[c][k].text \in Gui!Replies /\ draft[c][k].meddled \in BOOLEAN
<1>1. draft \in [Chats -> Seq(DraftType)]
  BY DEF Gui!TypeOK, DraftType
<1>2. \A b \in DraftType : b.req \in Nat \ {0} /\ b.text \in Gui!Replies /\ b.meddled \in BOOLEAN
  BY DEF DraftType
<1>3. \A c \in Chats : draft[c] \in Seq(DraftType)
  BY <1>1
<1>4. QED
  BY <1>1, <1>2, <1>3

\* ... and of the replies sent.
LEMMA SentFacts ==
  ASSUME Gui!TypeOK
  PROVE  /\ sent \in Seq(SentType) /\ Len(sent) \in Nat /\ DOMAIN sent = 1..Len(sent)
         /\ \A n \in DOMAIN sent : /\ sent[n] \in SentType /\ n \in Nat /\ sent[n].req \in Nat \ {0}
              /\ sent[n].to \in Chats /\ sent[n].meddled \in BOOLEAN
<1>1. sent \in Seq(SentType)
  BY DEF Gui!TypeOK, SentType
<1>2. \A b \in SentType : b.req \in Nat \ {0} /\ b.to \in Chats /\ b.meddled \in BOOLEAN
  BY DEF SentType
<1>3. QED
  BY <1>1, <1>2

\* The bubbles that an evicted entry stood for are numbers.
LEMMA BubblesOf ==
  ASSUME Gui!TypeOK, NEW E
  PROVE Gui!RequestsOf(E) \subseteq Nat /\ Gui!EchoesOf(E) \subseteq Nat
        /\ DOMAIN bubbles \subseteq Nat
<1>1. DOMAIN bubbles \subseteq Nat
  BY BubbleFacts
<1>2. QED
  BY <1>1 DEF Gui!RequestsOf, Gui!EchoesOf

\* The types of the fingerprints.
LEMMA HeldFingerprint ==
  ASSUME Gui!TypeOK, Held, Targeted, Mine
  PROVE Gui!Fingerprint \in Chats \X Gui!Written \X BOOLEAN \X BOOLEAN \X Positions
        /\ Gui!RequestFingerprint \in Chats \X Gui!Written \X BOOLEAN \X BOOLEAN
<1>1. target \in Chats /\ msg.text \in Gui!Written /\ msg.self \in BOOLEAN /\ msg.named \in BOOLEAN /\ msg.pos \in Positions
  BY DEF Gui!TypeOK, Held, Targeted, Mine
<1>2. QED
  BY <1>1 DEF Gui!Fingerprint, Gui!RequestFingerprint

\* The number of elements is the same in both modules.
LEMMA SameCount == \A S : Gui!Cardinality(S) = Cardinality(S)
BY DEF Gui!Cardinality, Cardinality

\* Read takes a bubble of the shown chat, and records what it misreads.
LEMMA ReadMessage ==
  ASSUME Gui!TypeOK, Gui!Read
  PROVE  \E i \in Gui!Of(shown), pos \in Positions, wrong, named \in BOOLEAN :
         \E text \in {bubbles[i].text, Garbled} :
       /\ i \in DOMAIN bubbles /\ i \in Nat /\ text \in Gui!Written
       /\ msg' = [id |-> i, text |-> text, self |-> ((bubbles[i].from = "bridge") # wrong),
            named |-> named, pos |-> pos]
       /\ wrongSide' = IF wrong THEN wrongSide \cup {i} ELSE wrongSide
       /\ excused' = IF text # bubbles[i].text \/ ~(named \/ wrong) \/ meddled THEN excused \cup {i} ELSE excused
<1>1. \A i \in DOMAIN bubbles : bubbles[i].text \in Gui!Written /\ i \in Nat
  BY BubbleFacts
<1>2. Garbled \in Gui!Written
  BY DEF Gui!Written
<1>3. PICK i \in Gui!Of(shown), pos \in Positions, wrong, named \in BOOLEAN :
           \E text \in {bubbles[i].text, Garbled} :
       /\ msg' = [id |-> i, text |-> text, self |-> ((bubbles[i].from = "bridge") # wrong),
            named |-> named, pos |-> pos]
       /\ ~named => target \in Groups /\ ~msg'.self
       /\ misreads' = misreads + Gui!Cardinality({d \in {"missed", "side", "text", "name"} :
            \/ d = "missed" /\ \E j \in Gui!Of(shown) : j > i
            \/ d = "side" /\ wrong
            \/ d = "text" /\ text # bubbles[i].text
            \/ d = "name" /\ ~named})
       /\ misreads' <= MaxMisreads
       /\ wrongSide' = IF wrong THEN wrongSide \cup {i} ELSE wrongSide
       /\ excused' = IF text # bubbles[i].text \/ ~(named \/ wrong) \/ meddled THEN excused \cup {i} ELSE excused
  BY DEF Gui!Read
<1>4. PICK text \in {bubbles[i].text, Garbled} :
       /\ msg' = [id |-> i, text |-> text, self |-> ((bubbles[i].from = "bridge") # wrong),
            named |-> named, pos |-> pos]
       /\ ~named => target \in Groups /\ ~msg'.self
       /\ misreads' = misreads + Gui!Cardinality({d \in {"missed", "side", "text", "name"} :
            \/ d = "missed" /\ \E j \in Gui!Of(shown) : j > i
            \/ d = "side" /\ wrong
            \/ d = "text" /\ text # bubbles[i].text
            \/ d = "name" /\ ~named})
       /\ misreads' <= MaxMisreads
       /\ wrongSide' = IF wrong THEN wrongSide \cup {i} ELSE wrongSide
       /\ excused' = IF text # bubbles[i].text \/ ~(named \/ wrong) \/ meddled THEN excused \cup {i} ELSE excused
  BY <1>3
<1>5. i \in DOMAIN bubbles /\ i \in Nat /\ text \in Gui!Written
  BY <1>1, <1>2 DEF Gui!Of
<1>6. QED
  BY <1>4, <1>5

\* The misreadings are counted.
LEMMA ReadCounts ==
  ASSUME Gui!TypeOK, Gui!Read PROVE misreads' \in Nat
<1>1. \A s \in SUBSET {"missed", "side", "text", "name"} : Gui!Cardinality(s) \in Nat
  <2>1. IsFiniteSet({"missed", "side", "text", "name"})
    <3>1. IsFiniteSet({}) BY FS_EmptySet
    <3>2. IsFiniteSet({} \cup {"missed"}) BY <3>1, FS_AddElement
    <3>3. IsFiniteSet({} \cup {"missed"} \cup {"side"}) BY <3>2, FS_AddElement
    <3>4. IsFiniteSet({} \cup {"missed"} \cup {"side"} \cup {"text"}) BY <3>3, FS_AddElement
    <3>5. IsFiniteSet({} \cup {"missed"} \cup {"side"} \cup {"text"} \cup {"name"}) BY <3>4, FS_AddElement
    <3>6. {} \cup {"missed"} \cup {"side"} \cup {"text"} \cup {"name"} = {"missed", "side", "text", "name"}
      OBVIOUS
    <3>7. QED BY <3>5, <3>6
  <2>2. QED BY <2>1, SameCount, FS_Subset, FS_CardinalityType
<1>2. misreads \in Nat BY DEF Gui!TypeOK
<1>3. PICK s \in SUBSET {"missed", "side", "text", "name"} : misreads' = misreads + Gui!Cardinality(s)
  <2>1. PICK i \in Gui!Of(shown), pos \in Positions, wrong, named \in BOOLEAN :
           \E text \in {bubbles[i].text, Garbled} :
       /\ msg' = [id |-> i, text |-> text, self |-> ((bubbles[i].from = "bridge") # wrong),
            named |-> named, pos |-> pos]
       /\ ~named => target \in Groups /\ ~msg'.self
       /\ misreads' = misreads + Gui!Cardinality({d \in {"missed", "side", "text", "name"} :
            \/ d = "missed" /\ \E j \in Gui!Of(shown) : j > i
            \/ d = "side" /\ wrong
            \/ d = "text" /\ text # bubbles[i].text
            \/ d = "name" /\ ~named})
       /\ misreads' <= MaxMisreads
       /\ wrongSide' = IF wrong THEN wrongSide \cup {i} ELSE wrongSide
       /\ excused' = IF text # bubbles[i].text \/ ~(named \/ wrong) \/ meddled THEN excused \cup {i} ELSE excused
    BY DEF Gui!Read
  <2>2. PICK text \in {bubbles[i].text, Garbled} :
     misreads' = misreads + Gui!Cardinality({d \in {"missed", "side", "text", "name"} :
            \/ d = "missed" /\ \E j \in Gui!Of(shown) : j > i
            \/ d = "side" /\ wrong
            \/ d = "text" /\ text # bubbles[i].text
            \/ d = "name" /\ ~named})
    BY <2>1
  <2>3. QED BY <2>2
<1>4. QED BY <1>1, <1>2, <1>3

\* The numbers after the first a.
LEMMA Beyond ==
  ASSUME NEW a \in Nat, NEW m \in Nat, NEW n \in 1..a + m, n \notin 1..a
  PROVE  \E k \in 1..m : n = a + k
<1>1. n - a \in 1..m /\ n = a + (n - a)
  OBVIOUS
<1>2. QED
  BY <1>1

(***************************************************************************)
(* Types: one lemma per action.                                            *)
(***************************************************************************)
\* People write ...
LEMMA PeerWritesType ==
  ASSUME Gui!TypeOK, Held, Targeted, NEW c \in Chats, NEW text \in Texts, Gui!PeerWrites(c, text)
  PROVE  Gui!TypeOK' /\ Held' /\ Targeted'
<1>1. (shown \in Chats)'
  BY DEF Gui!TypeOK, Gui!PeerWrites
<1>2. (bubbles \in Seq(BubbleType))'
  <2>1. [chat |-> c, from |-> "peer", text |-> text] \in BubbleType
    BY DEF BubbleType, Gui!Written
  <2>2. QED
    BY <2>1, BubbleFacts DEF Gui!PeerWrites
<1>3. (draft \in [Chats -> Seq(DraftType)])'
  BY DraftFacts DEF Gui!PeerWrites
<1>4. (pc \in {"idle", "looked", "read", "ready", "checked", "pasted"})'
  BY DEF Gui!TypeOK, Gui!PeerWrites
<1>5. (target \in Chats \cup {NoTarget} /\ reply \in Gui!Replies)'
  BY DEF Gui!TypeOK, Gui!round, Gui!PeerWrites
<1>6. (msg \in [id : Nat, text : Gui!Written, self : BOOLEAN, named : BOOLEAN, pos : Positions \cup {0}])'
  BY DEF Gui!TypeOK, Gui!round, Gui!PeerWrites
<1>7. (seen \in Seq(Chats \X Gui!Written \X BOOLEAN \X BOOLEAN \X Positions) /\ Len(seen) \in 0..Capacity)'
  BY DEF Gui!TypeOK, Gui!caches, Gui!PeerWrites
<1>8. (handled \in Seq(Chats \X Gui!Written \X BOOLEAN \X BOOLEAN) /\ Len(handled) \in 0..Capacity)'
  BY DEF Gui!TypeOK, Gui!caches, Gui!PeerWrites
<1>9. (outgoing \in Seq(Chats \X Gui!Replies) /\ Len(outgoing) \in 0..Capacity)'
  BY DEF Gui!TypeOK, Gui!caches, Gui!PeerWrites
<1>10. ({misreads, faults, switches} \subseteq Nat)'
  BY DEF Gui!TypeOK, Gui!limits, Gui!PeerWrites
<1>11. (sent \in Seq(SentType))'
  BY SentFacts DEF Gui!history, Gui!PeerWrites
<1>12. (meddled \in BOOLEAN /\ wrongSide \subseteq Nat /\ excused \subseteq Nat)'
  BY DEF Gui!TypeOK, Gui!history, Gui!PeerWrites
<1>13. Held'
  <2>1. [chat |-> c, from |-> "peer", text |-> text] \in BubbleType
    BY DEF BubbleType, Gui!Written
  <2>2. DOMAIN bubbles \subseteq DOMAIN bubbles'
    BY <2>1 DEF Gui!PeerWrites
  <2>3. QED
    BY <2>2 DEF Gui!PeerWrites, Held, Mine, Gui!round
<1>14. Targeted'
  BY DEF Targeted, Gui!round, Gui!PeerWrites
<1>15. QED
  BY <1>1, <1>2, <1>3, <1>4, <1>5, <1>6, <1>7, <1>8, <1>9, <1>10, <1>11, <1>12, <1>13, <1>14
  DEF Gui!TypeOK, BubbleType, DraftType, SentType

\* ... and switch chats.
LEMMA SwitchType ==
  ASSUME Gui!TypeOK, Held, Targeted, NEW c \in Chats, Gui!Switch(c)
  PROVE  Gui!TypeOK' /\ Held' /\ Targeted'
<1>1. (shown \in Chats)'
  BY DEF Gui!Switch
<1>2. (bubbles \in Seq(BubbleType))'
  BY BubbleFacts DEF Gui!Switch
<1>3. (draft \in [Chats -> Seq(DraftType)])'
  BY DraftFacts DEF Gui!Switch
<1>4. (pc \in {"idle", "looked", "read", "ready", "checked", "pasted"})'
  BY DEF Gui!TypeOK, Gui!Switch
<1>5. (target \in Chats \cup {NoTarget} /\ reply \in Gui!Replies)'
  BY DEF Gui!TypeOK, Gui!round, Gui!Switch
<1>6. (msg \in [id : Nat, text : Gui!Written, self : BOOLEAN, named : BOOLEAN, pos : Positions \cup {0}])'
  BY DEF Gui!TypeOK, Gui!round, Gui!Switch
<1>7. (seen \in Seq(Chats \X Gui!Written \X BOOLEAN \X BOOLEAN \X Positions) /\ Len(seen) \in 0..Capacity)'
  BY DEF Gui!TypeOK, Gui!caches, Gui!Switch
<1>8. (handled \in Seq(Chats \X Gui!Written \X BOOLEAN \X BOOLEAN) /\ Len(handled) \in 0..Capacity)'
  BY DEF Gui!TypeOK, Gui!caches, Gui!Switch
<1>9. (outgoing \in Seq(Chats \X Gui!Replies) /\ Len(outgoing) \in 0..Capacity)'
  BY DEF Gui!TypeOK, Gui!caches, Gui!Switch
<1>10. ({misreads, faults, switches} \subseteq Nat)'
  BY DEF Gui!TypeOK, Gui!Switch
<1>11. (sent \in Seq(SentType))'
  BY SentFacts DEF Gui!Switch
<1>12. (meddled \in BOOLEAN /\ wrongSide \subseteq Nat /\ excused \subseteq Nat)'
  BY DEF Gui!TypeOK, Gui!Switch
<1>13. Held'
  BY DEF Held, Mine, Gui!round, Gui!Switch
<1>14. Targeted'
  BY DEF Targeted, Gui!round, Gui!Switch
<1>15. QED
  BY <1>1, <1>2, <1>3, <1>4, <1>5, <1>6, <1>7, <1>8, <1>9, <1>10, <1>11, <1>12, <1>13, <1>14
  DEF Gui!TypeOK, BubbleType, DraftType, SentType

\* The loop finds its target ...
LEMMA LookType ==
  ASSUME Gui!GuiAssumption, Gui!TypeOK, Held, Targeted, Gui!Look
  PROVE  Gui!TypeOK' /\ Held' /\ Targeted'
<1>1. (shown \in Chats)'
  BY DEF Gui!TypeOK, Gui!window, Gui!Look
<1>2. (bubbles \in Seq(BubbleType))'
  BY BubbleFacts DEF Gui!window, Gui!Look
<1>3. (draft \in [Chats -> Seq(DraftType)])'
  BY DraftFacts DEF Gui!window, Gui!Look
<1>4. (pc \in {"idle", "looked", "read", "ready", "checked", "pasted"})'
  BY DEF Gui!Look
<1>5. (target \in Chats \cup {NoTarget} /\ reply \in Gui!Replies)'
  BY DEF Gui!GuiAssumption, Gui!TypeOK, Gui!Look, Gui!Listed
<1>6. (msg \in [id : Nat, text : Gui!Written, self : BOOLEAN, named : BOOLEAN, pos : Positions \cup {0}])'
  BY DEF Gui!TypeOK, Gui!Look
<1>7. (seen \in Seq(Chats \X Gui!Written \X BOOLEAN \X BOOLEAN \X Positions) /\ Len(seen) \in 0..Capacity)'
  BY DEF Gui!TypeOK, Gui!caches, Gui!Look
<1>8. (handled \in Seq(Chats \X Gui!Written \X BOOLEAN \X BOOLEAN) /\ Len(handled) \in 0..Capacity)'
  BY DEF Gui!TypeOK, Gui!caches, Gui!Look
<1>9. (outgoing \in Seq(Chats \X Gui!Replies) /\ Len(outgoing) \in 0..Capacity)'
  BY DEF Gui!TypeOK, Gui!caches, Gui!Look
<1>10. ({misreads, faults, switches} \subseteq Nat)'
  BY DEF Gui!GuiAssumption, Gui!TypeOK, Gui!Misread, Gui!Look
<1>11. (sent \in Seq(SentType))'
  BY SentFacts DEF Gui!Look
<1>12. (meddled \in BOOLEAN /\ wrongSide \subseteq Nat /\ excused \subseteq Nat)'
  BY DEF Gui!TypeOK, Gui!Look
<1>13. Held'
  BY DEF Held, Mine, Gui!Look
<1>14. Targeted'
  BY DEF Gui!GuiAssumption, Targeted, Gui!Look, Gui!Listed
<1>15. QED
  BY <1>1, <1>2, <1>3, <1>4, <1>5, <1>6, <1>7, <1>8, <1>9, <1>10, <1>11, <1>12, <1>13, <1>14
  DEF Gui!TypeOK, BubbleType, DraftType, SentType

\* ... reads a bubble ...
LEMMA ReadType ==
  ASSUME Gui!TypeOK, Held, Targeted, Gui!Read
  PROVE  Gui!TypeOK' /\ Held' /\ Targeted'
<1>1. (shown \in Chats)'
  BY DEF Gui!TypeOK, Gui!window, Gui!Read
<1>2. (bubbles \in Seq(BubbleType))'
  BY BubbleFacts DEF Gui!window, Gui!Read
<1>3. (draft \in [Chats -> Seq(DraftType)])'
  BY DraftFacts DEF Gui!window, Gui!Read
<1>4. (pc \in {"idle", "looked", "read", "ready", "checked", "pasted"})'
  BY DEF Gui!Read
<1>5. (target \in Chats \cup {NoTarget} /\ reply \in Gui!Replies)'
  BY DEF Gui!TypeOK, Gui!Read
<1>6. (msg \in [id : Nat, text : Gui!Written, self : BOOLEAN, named : BOOLEAN, pos : Positions \cup {0}])'
  <2>1. PICK i \in Gui!Of(shown), pos \in Positions, wrong, named \in BOOLEAN :
             \E text \in {bubbles[i].text, Garbled} :
          /\ i \in DOMAIN bubbles /\ i \in Nat /\ text \in Gui!Written
          /\ msg' = [id |-> i, text |-> text, self |-> ((bubbles[i].from = "bridge") # wrong),
               named |-> named, pos |-> pos]
          /\ wrongSide' = IF wrong THEN wrongSide \cup {i} ELSE wrongSide
          /\ excused' = IF text # bubbles[i].text \/ ~(named \/ wrong) \/ meddled THEN excused \cup {i} ELSE excused
    BY ReadMessage
  <2>2. PICK text \in {bubbles[i].text, Garbled} :
          /\ i \in DOMAIN bubbles /\ i \in Nat /\ text \in Gui!Written
          /\ msg' = [id |-> i, text |-> text, self |-> ((bubbles[i].from = "bridge") # wrong),
               named |-> named, pos |-> pos]
          /\ wrongSide' = IF wrong THEN wrongSide \cup {i} ELSE wrongSide
          /\ excused' = IF text # bubbles[i].text \/ ~(named \/ wrong) \/ meddled THEN excused \cup {i} ELSE excused
    BY <2>1
  <2>3. QED
    BY <2>2
<1>7. (seen \in Seq(Chats \X Gui!Written \X BOOLEAN \X BOOLEAN \X Positions) /\ Len(seen) \in 0..Capacity)'
  BY DEF Gui!TypeOK, Gui!caches, Gui!Read
<1>8. (handled \in Seq(Chats \X Gui!Written \X BOOLEAN \X BOOLEAN) /\ Len(handled) \in 0..Capacity)'
  BY DEF Gui!TypeOK, Gui!caches, Gui!Read
<1>9. (outgoing \in Seq(Chats \X Gui!Replies) /\ Len(outgoing) \in 0..Capacity)'
  BY DEF Gui!TypeOK, Gui!caches, Gui!Read
<1>10. ({misreads, faults, switches} \subseteq Nat)'
  BY ReadCounts DEF Gui!Read, Gui!TypeOK
<1>11. (sent \in Seq(SentType))'
  BY SentFacts DEF Gui!Read
<1>12. (meddled \in BOOLEAN /\ wrongSide \subseteq Nat /\ excused \subseteq Nat)'
  <2>1. PICK i \in Gui!Of(shown), pos \in Positions, wrong, named \in BOOLEAN :
             \E text \in {bubbles[i].text, Garbled} :
          /\ i \in DOMAIN bubbles /\ i \in Nat /\ text \in Gui!Written
          /\ msg' = [id |-> i, text |-> text, self |-> ((bubbles[i].from = "bridge") # wrong),
               named |-> named, pos |-> pos]
          /\ wrongSide' = IF wrong THEN wrongSide \cup {i} ELSE wrongSide
          /\ excused' = IF text # bubbles[i].text \/ ~(named \/ wrong) \/ meddled THEN excused \cup {i} ELSE excused
    BY ReadMessage
  <2>2. PICK text \in {bubbles[i].text, Garbled} :
          /\ i \in DOMAIN bubbles /\ i \in Nat /\ text \in Gui!Written
          /\ msg' = [id |-> i, text |-> text, self |-> ((bubbles[i].from = "bridge") # wrong),
               named |-> named, pos |-> pos]
          /\ wrongSide' = IF wrong THEN wrongSide \cup {i} ELSE wrongSide
          /\ excused' = IF text # bubbles[i].text \/ ~(named \/ wrong) \/ meddled THEN excused \cup {i} ELSE excused
    BY <2>1
  <2>3. wrongSide' \subseteq Nat /\ excused' \subseteq Nat
    BY <2>2 DEF Gui!TypeOK
  <2>4. QED
    BY <2>3 DEF Gui!Read, Gui!TypeOK
<1>13. Held'
  <2>1. PICK i \in Gui!Of(shown), pos \in Positions, wrong, named \in BOOLEAN :
             \E text \in {bubbles[i].text, Garbled} :
          /\ i \in DOMAIN bubbles /\ i \in Nat /\ text \in Gui!Written
          /\ msg' = [id |-> i, text |-> text, self |-> ((bubbles[i].from = "bridge") # wrong),
               named |-> named, pos |-> pos]
          /\ wrongSide' = IF wrong THEN wrongSide \cup {i} ELSE wrongSide
          /\ excused' = IF text # bubbles[i].text \/ ~(named \/ wrong) \/ meddled THEN excused \cup {i} ELSE excused
    BY ReadMessage
  <2>2. PICK text \in {bubbles[i].text, Garbled} :
          /\ i \in DOMAIN bubbles /\ i \in Nat /\ text \in Gui!Written
          /\ msg' = [id |-> i, text |-> text, self |-> ((bubbles[i].from = "bridge") # wrong),
               named |-> named, pos |-> pos]
          /\ wrongSide' = IF wrong THEN wrongSide \cup {i} ELSE wrongSide
          /\ excused' = IF text # bubbles[i].text \/ ~(named \/ wrong) \/ meddled THEN excused \cup {i} ELSE excused
    BY <2>1
  <2>3. QED
    BY <2>2 DEF Held, Gui!Read, Gui!window
<1>14. Targeted'
  BY DEF Targeted, Gui!Read
<1>15. QED
  BY <1>1, <1>2, <1>3, <1>4, <1>5, <1>6, <1>7, <1>8, <1>9, <1>10, <1>11, <1>12, <1>13, <1>14
  DEF Gui!TypeOK, BubbleType, DraftType, SentType

\* ... or none ...
LEMMA NothingToReadType ==
  ASSUME Gui!TypeOK, Held, Targeted, Gui!NothingToRead
  PROVE  Gui!TypeOK' /\ Held' /\ Targeted'
<1>1. (shown \in Chats)'
  BY DEF Gui!TypeOK, Gui!window, Gui!NothingToRead
<1>2. (bubbles \in Seq(BubbleType))'
  BY BubbleFacts DEF Gui!window, Gui!NothingToRead
<1>3. (draft \in [Chats -> Seq(DraftType)])'
  BY DraftFacts DEF Gui!window, Gui!NothingToRead
<1>4. (pc \in {"idle", "looked", "read", "ready", "checked", "pasted"})'
  BY DEF Gui!NothingToRead, Gui!RoundEnds
<1>5. (target \in Chats \cup {NoTarget} /\ reply \in Gui!Replies)'
  BY DEF Gui!Replies, Gui!NothingToRead, Gui!RoundEnds
<1>6. (msg \in [id : Nat, text : Gui!Written, self : BOOLEAN, named : BOOLEAN, pos : Positions \cup {0}])'
  BY RoundEndsType DEF Gui!NothingToRead
<1>7. (seen \in Seq(Chats \X Gui!Written \X BOOLEAN \X BOOLEAN \X Positions) /\ Len(seen) \in 0..Capacity)'
  BY DEF Gui!TypeOK, Gui!caches, Gui!NothingToRead
<1>8. (handled \in Seq(Chats \X Gui!Written \X BOOLEAN \X BOOLEAN) /\ Len(handled) \in 0..Capacity)'
  BY DEF Gui!TypeOK, Gui!caches, Gui!NothingToRead
<1>9. (outgoing \in Seq(Chats \X Gui!Replies) /\ Len(outgoing) \in 0..Capacity)'
  BY DEF Gui!TypeOK, Gui!caches, Gui!NothingToRead
<1>10. ({misreads, faults, switches} \subseteq Nat)'
  BY DEF Gui!TypeOK, Gui!limits, Gui!NothingToRead
<1>11. (sent \in Seq(SentType))'
  BY SentFacts DEF Gui!NothingToRead
<1>12. (meddled \in BOOLEAN /\ wrongSide \subseteq Nat /\ excused \subseteq Nat)'
  BY DEF Gui!TypeOK, Gui!NothingToRead, Gui!RoundEnds
<1>13. Held'
  BY DEF Held, Mine, Gui!NothingToRead, Gui!RoundEnds
<1>14. Targeted'
  BY DEF Targeted, Gui!NothingToRead, Gui!RoundEnds
<1>15. QED
  BY <1>1, <1>2, <1>3, <1>4, <1>5, <1>6, <1>7, <1>8, <1>9, <1>10, <1>11, <1>12, <1>13, <1>14
  DEF Gui!TypeOK, BubbleType, DraftType, SentType

\* ... passes over it ...
LEMMA SkipType ==
  ASSUME Gui!GuiAssumption, Gui!TypeOK, Held, Targeted, Gui!Skip
  PROVE  Gui!TypeOK' /\ Held' /\ Targeted'
<1>1. (shown \in Chats)'
  BY DEF Gui!TypeOK, Gui!window, Gui!Skip
<1>2. (bubbles \in Seq(BubbleType))'
  BY BubbleFacts DEF Gui!window, Gui!Skip
<1>3. (draft \in [Chats -> Seq(DraftType)])'
  BY DraftFacts DEF Gui!window, Gui!Skip
<1>4. (pc \in {"idle", "looked", "read", "ready", "checked", "pasted"})'
  BY DEF Gui!Skip, Gui!RoundEnds
<1>5. (target \in Chats \cup {NoTarget} /\ reply \in Gui!Replies)'
  BY DEF Gui!Replies, Gui!Skip, Gui!RoundEnds
<1>6. (msg \in [id : Nat, text : Gui!Written, self : BOOLEAN, named : BOOLEAN, pos : Positions \cup {0}])'
  BY RoundEndsType DEF Gui!Skip
<1>7. (seen \in Seq(Chats \X Gui!Written \X BOOLEAN \X BOOLEAN \X Positions) /\ Len(seen) \in 0..Capacity)'
  <2>1. Gui!Fingerprint \in Chats \X Gui!Written \X BOOLEAN \X BOOLEAN \X Positions /\ Mine
    BY HeldFingerprint DEF Gui!Skip, Mine
  <2>2. Gui!Added(seen, Gui!Fingerprint) \in Seq(Chats \X Gui!Written \X BOOLEAN \X BOOLEAN \X Positions)
          /\ Len(Gui!Added(seen, Gui!Fingerprint)) \in 0..Capacity
    BY <2>1, AddedType DEF Gui!TypeOK
  <2>3. QED
    BY <2>2 DEF Gui!Skip, Gui!TypeOK
<1>8. (handled \in Seq(Chats \X Gui!Written \X BOOLEAN \X BOOLEAN) /\ Len(handled) \in 0..Capacity)'
  BY DEF Gui!TypeOK, Gui!Skip
<1>9. (outgoing \in Seq(Chats \X Gui!Replies) /\ Len(outgoing) \in 0..Capacity)'
  BY DEF Gui!TypeOK, Gui!Skip
<1>10. ({misreads, faults, switches} \subseteq Nat)'
  BY DEF Gui!TypeOK, Gui!limits, Gui!Skip
<1>11. (sent \in Seq(SentType))'
  BY SentFacts DEF Gui!Skip
<1>12. (meddled \in BOOLEAN /\ wrongSide \subseteq Nat /\ excused \subseteq Nat)'
  BY DEF Gui!TypeOK, Gui!Skip, Gui!RoundEnds
<1>13. Held'
  BY DEF Held, Mine, Gui!Skip, Gui!RoundEnds
<1>14. Targeted'
  BY DEF Targeted, Gui!Skip, Gui!RoundEnds
<1>15. QED
  BY <1>1, <1>2, <1>3, <1>4, <1>5, <1>6, <1>7, <1>8, <1>9, <1>10, <1>11, <1>12, <1>13, <1>14
  DEF Gui!TypeOK, BubbleType, DraftType, SentType

\* ... or has an answer ...
LEMMA AnswerType ==
  ASSUME Gui!GuiAssumption, Gui!TypeOK, Held, Targeted, Gui!Answer
  PROVE  Gui!TypeOK' /\ Held' /\ Targeted'
<1>1. (shown \in Chats)'
  BY DEF Gui!TypeOK, Gui!window, Gui!Answer
<1>2. (bubbles \in Seq(BubbleType))'
  BY BubbleFacts DEF Gui!window, Gui!Answer
<1>3. (draft \in [Chats -> Seq(DraftType)])'
  BY DraftFacts DEF Gui!window, Gui!Answer
<1>4. (pc \in {"idle", "looked", "read", "ready", "checked", "pasted"})'
  BY DEF Gui!Answer
<1>5. (target \in Chats \cup {NoTarget} /\ reply \in Gui!Replies)'
  BY DEF Gui!TypeOK, Gui!Replies, Gui!Answer, Gui!Answers
<1>6. (msg \in [id : Nat, text : Gui!Written, self : BOOLEAN, named : BOOLEAN, pos : Positions \cup {0}])'
  BY DEF Gui!TypeOK, Gui!Answer
<1>7. (seen \in Seq(Chats \X Gui!Written \X BOOLEAN \X BOOLEAN \X Positions) /\ Len(seen) \in 0..Capacity)'
  BY DEF Gui!TypeOK, Gui!Answer
<1>8. (handled \in Seq(Chats \X Gui!Written \X BOOLEAN \X BOOLEAN) /\ Len(handled) \in 0..Capacity)'
  BY DEF Gui!TypeOK, Gui!Answer
<1>9. (outgoing \in Seq(Chats \X Gui!Replies) /\ Len(outgoing) \in 0..Capacity)'
  <2>1. <<target, reply'>> \in Chats \X Gui!Replies
    BY DEF Gui!Answer, Gui!Answers, Gui!Replies, Targeted
  <2>2. Gui!Added(outgoing, <<target, reply'>>) \in Seq(Chats \X Gui!Replies)
          /\ Len(Gui!Added(outgoing, <<target, reply'>>)) \in 0..Capacity
    BY <2>1, AddedType DEF Gui!TypeOK
  <2>3. QED
    BY <2>2 DEF Gui!Answer, Gui!TypeOK
<1>10. ({misreads, faults, switches} \subseteq Nat)'
  BY DEF Gui!TypeOK, Gui!limits, Gui!Answer
<1>11. (sent \in Seq(SentType))'
  BY SentFacts DEF Gui!Answer
<1>12. (meddled \in BOOLEAN /\ wrongSide \subseteq Nat /\ excused \subseteq Nat)'
  <2>1. Gui!EchoesOf(Gui!Evicted(outgoing, <<target, reply'>>)) \subseteq Nat
    BY BubblesOf
  <2>2. excused' \subseteq Nat
    BY <2>1 DEF Gui!Answer, Gui!TypeOK
  <2>3. QED
    BY <2>2 DEF Gui!Answer, Gui!TypeOK
<1>13. Held'
  BY DEF Held, Mine, Gui!window, Gui!Answer
<1>14. Targeted'
  BY DEF Targeted, Gui!Answer
<1>15. QED
  BY <1>1, <1>2, <1>3, <1>4, <1>5, <1>6, <1>7, <1>8, <1>9, <1>10, <1>11, <1>12, <1>13, <1>14
  DEF Gui!TypeOK, BubbleType, DraftType, SentType

\* ... or none.
LEMMA AnswerFailsType ==
  ASSUME Gui!TypeOK, Held, Targeted, Gui!AnswerFails
  PROVE  Gui!TypeOK' /\ Held' /\ Targeted'
<1>1. (shown \in Chats)'
  BY DEF Gui!TypeOK, Gui!window, Gui!AnswerFails
<1>2. (bubbles \in Seq(BubbleType))'
  BY BubbleFacts DEF Gui!window, Gui!AnswerFails
<1>3. (draft \in [Chats -> Seq(DraftType)])'
  BY DraftFacts DEF Gui!window, Gui!AnswerFails
<1>4. (pc \in {"idle", "looked", "read", "ready", "checked", "pasted"})'
  BY DEF Gui!AnswerFails, Gui!RoundEnds
<1>5. (target \in Chats \cup {NoTarget} /\ reply \in Gui!Replies)'
  BY DEF Gui!Replies, Gui!AnswerFails, Gui!RoundEnds
<1>6. (msg \in [id : Nat, text : Gui!Written, self : BOOLEAN, named : BOOLEAN, pos : Positions \cup {0}])'
  BY RoundEndsType DEF Gui!AnswerFails
<1>7. (seen \in Seq(Chats \X Gui!Written \X BOOLEAN \X BOOLEAN \X Positions) /\ Len(seen) \in 0..Capacity)'
  BY DEF Gui!TypeOK, Gui!caches, Gui!AnswerFails
<1>8. (handled \in Seq(Chats \X Gui!Written \X BOOLEAN \X BOOLEAN) /\ Len(handled) \in 0..Capacity)'
  BY DEF Gui!TypeOK, Gui!caches, Gui!AnswerFails
<1>9. (outgoing \in Seq(Chats \X Gui!Replies) /\ Len(outgoing) \in 0..Capacity)'
  BY DEF Gui!TypeOK, Gui!caches, Gui!AnswerFails
<1>10. ({misreads, faults, switches} \subseteq Nat)'
  <2>1. misreads \in Nat /\ faults \in Nat /\ switches \in Nat
    BY DEF Gui!TypeOK
  <2>2. faults' \in Nat /\ misreads' = misreads /\ switches' = switches
    BY <2>1 DEF Gui!AnswerFails, Gui!Fault
  <2>3. QED
    BY <2>1, <2>2
<1>11. (sent \in Seq(SentType))'
  BY SentFacts DEF Gui!AnswerFails
<1>12. (meddled \in BOOLEAN /\ wrongSide \subseteq Nat /\ excused \subseteq Nat)'
  BY DEF Gui!TypeOK, Gui!AnswerFails, Gui!RoundEnds
<1>13. Held'
  BY DEF Held, Mine, Gui!AnswerFails, Gui!RoundEnds
<1>14. Targeted'
  BY DEF Targeted, Gui!AnswerFails, Gui!RoundEnds
<1>15. QED
  BY <1>1, <1>2, <1>3, <1>4, <1>5, <1>6, <1>7, <1>8, <1>9, <1>10, <1>11, <1>12, <1>13, <1>14
  DEF Gui!TypeOK, BubbleType, DraftType, SentType

\* It checks the title ...
LEMMA CheckType ==
  ASSUME Gui!TypeOK, Held, Targeted, Gui!Check
  PROVE  Gui!TypeOK' /\ Held' /\ Targeted'
<1>1. (shown \in Chats)'
  BY DEF Gui!TypeOK, Gui!window, Gui!Check
<1>2. (bubbles \in Seq(BubbleType))'
  BY BubbleFacts DEF Gui!window, Gui!Check
<1>3. (draft \in [Chats -> Seq(DraftType)])'
  BY DraftFacts DEF Gui!window, Gui!Check
<1>4. (pc \in {"idle", "looked", "read", "ready", "checked", "pasted"})'
  BY DEF Gui!Check, Gui!RoundEnds
<1>5. (target \in Chats \cup {NoTarget} /\ reply \in Gui!Replies)'
  BY DEF Gui!TypeOK, Gui!Replies, Gui!round, Gui!Check, Gui!RoundEnds
<1>6. (msg \in [id : Nat, text : Gui!Written, self : BOOLEAN, named : BOOLEAN, pos : Positions \cup {0}])'
  BY RoundEndsType DEF Gui!TypeOK, Gui!round, Gui!Check
<1>7. (seen \in Seq(Chats \X Gui!Written \X BOOLEAN \X BOOLEAN \X Positions) /\ Len(seen) \in 0..Capacity)'
  BY DEF Gui!TypeOK, Gui!caches, Gui!Check
<1>8. (handled \in Seq(Chats \X Gui!Written \X BOOLEAN \X BOOLEAN) /\ Len(handled) \in 0..Capacity)'
  BY DEF Gui!TypeOK, Gui!caches, Gui!Check
<1>9. (outgoing \in Seq(Chats \X Gui!Replies) /\ Len(outgoing) \in 0..Capacity)'
  BY DEF Gui!TypeOK, Gui!caches, Gui!Check
<1>10. ({misreads, faults, switches} \subseteq Nat)'
  BY DEF Gui!TypeOK, Gui!Misread, Gui!Fault, Gui!Check
<1>11. (sent \in Seq(SentType))'
  BY SentFacts DEF Gui!Check
<1>12. (meddled \in BOOLEAN /\ wrongSide \subseteq Nat /\ excused \subseteq Nat)'
  BY DEF Gui!TypeOK, Gui!Check, Gui!RoundEnds
<1>13. Held'
  BY DEF Held, Mine, Gui!window, Gui!round, Gui!Check, Gui!RoundEnds
<1>14. Targeted'
  BY DEF Targeted, Gui!round, Gui!Check, Gui!RoundEnds
<1>15. QED
  BY <1>1, <1>2, <1>3, <1>4, <1>5, <1>6, <1>7, <1>8, <1>9, <1>10, <1>11, <1>12, <1>13, <1>14
  DEF Gui!TypeOK, BubbleType, DraftType, SentType

\* ... pastes the answer ...
LEMMA PasteType ==
  ASSUME Gui!TypeOK, Held, Targeted, Gui!Paste
  PROVE  Gui!TypeOK' /\ Held' /\ Targeted'
<1>1. (shown \in Chats)'
  BY DEF Gui!TypeOK, Gui!Paste
<1>2. (bubbles \in Seq(BubbleType))'
  BY BubbleFacts DEF Gui!Paste
<1>3. (draft \in [Chats -> Seq(DraftType)])'
  <2>1. [req |-> msg.id, text |-> reply, meddled |-> meddled] \in DraftType
    BY DEF DraftType, Gui!TypeOK, Held, Mine, Gui!Paste
  <2>2. Append(draft[shown], [req |-> msg.id, text |-> reply,
          meddled |-> meddled]) \in Seq(DraftType) /\ shown \in Chats
    BY <2>1, DraftFacts, AppendSeq DEF Gui!TypeOK
  <2>3. QED
    BY <2>2, DraftFacts DEF Gui!Paste
<1>4. (pc \in {"idle", "looked", "read", "ready", "checked", "pasted"})'
  BY DEF Gui!Paste, Gui!RoundEnds
<1>5. (target \in Chats \cup {NoTarget} /\ reply \in Gui!Replies)'
  BY DEF Gui!TypeOK, Gui!Replies, Gui!round, Gui!Paste, Gui!RoundEnds
<1>6. (msg \in [id : Nat, text : Gui!Written, self : BOOLEAN, named : BOOLEAN, pos : Positions \cup {0}])'
  BY RoundEndsType DEF Gui!TypeOK, Gui!round, Gui!Paste
<1>7. (seen \in Seq(Chats \X Gui!Written \X BOOLEAN \X BOOLEAN \X Positions) /\ Len(seen) \in 0..Capacity)'
  BY DEF Gui!TypeOK, Gui!caches, Gui!Paste
<1>8. (handled \in Seq(Chats \X Gui!Written \X BOOLEAN \X BOOLEAN) /\ Len(handled) \in 0..Capacity)'
  BY DEF Gui!TypeOK, Gui!caches, Gui!Paste
<1>9. (outgoing \in Seq(Chats \X Gui!Replies) /\ Len(outgoing) \in 0..Capacity)'
  BY DEF Gui!TypeOK, Gui!caches, Gui!Paste
<1>10. ({misreads, faults, switches} \subseteq Nat)'
  <2>1. misreads \in Nat /\ faults \in Nat /\ switches \in Nat
    BY DEF Gui!TypeOK
  <2>2. faults' \in Nat /\ misreads' = misreads /\ switches' = switches
    BY <2>1 DEF Gui!Paste, Gui!Fault
  <2>3. QED
    BY <2>1, <2>2
<1>11. (sent \in Seq(SentType))'
  BY SentFacts DEF Gui!Paste
<1>12. (meddled \in BOOLEAN /\ wrongSide \subseteq Nat /\ excused \subseteq Nat)'
  BY DEF Gui!TypeOK, Gui!Paste, Gui!RoundEnds
<1>13. Held'
  BY DEF Held, Mine, Gui!round, Gui!Paste, Gui!RoundEnds
<1>14. Targeted'
  BY DEF Targeted, Gui!round, Gui!Paste, Gui!RoundEnds
<1>15. QED
  BY <1>1, <1>2, <1>3, <1>4, <1>5, <1>6, <1>7, <1>8, <1>9, <1>10, <1>11, <1>12, <1>13, <1>14
  DEF Gui!TypeOK, BubbleType, DraftType, SentType

\* ... sends the draft ...
LEMMA PressType ==
  ASSUME Gui!GuiAssumption, Gui!TypeOK, Held, Targeted, Gui!Press
  PROVE  Gui!TypeOK' /\ Held' /\ Targeted'
<1>1. (shown \in Chats)'
  BY DEF Gui!TypeOK, Gui!Press
<1>2. (bubbles \in Seq(BubbleType))'
  <2>1. Gui!Bubble(draft[shown]) \in BubbleType
    <3>1. draft[shown] \in Seq(DraftType) /\ shown \in Chats
      BY DraftFacts DEF Gui!TypeOK
    <3>2. Len(draft[shown]) = 1 => draft[shown][1].text \in Gui!Written
      BY <3>1, DraftFacts DEF Gui!Written
    <3>3. QED
      BY <3>1, <3>2 DEF Gui!Bubble, BubbleType, Gui!Written
  <2>2. Append(bubbles, Gui!Bubble(draft[shown])) \in Seq(BubbleType)
    BY <2>1, BubbleFacts
  <2>3. QED
    BY <2>2, BubbleFacts DEF Gui!Press
<1>3. (draft \in [Chats -> Seq(DraftType)])'
  <2>1. [draft EXCEPT ![shown] = <<>>] \in [Chats -> Seq(DraftType)]
    <3>1. <<>> \in Seq(DraftType)
      OBVIOUS
    <3>2. QED
      BY <3>1, DraftFacts
  <2>2. QED
    BY <2>1, DraftFacts DEF Gui!Press
<1>4. (pc \in {"idle", "looked", "read", "ready", "checked", "pasted"})'
  BY DEF Gui!Press, Gui!RoundEnds
<1>5. (target \in Chats \cup {NoTarget} /\ reply \in Gui!Replies)'
  BY DEF Gui!Replies, Gui!Press, Gui!RoundEnds
<1>6. (msg \in [id : Nat, text : Gui!Written, self : BOOLEAN, named : BOOLEAN, pos : Positions \cup {0}])'
  BY RoundEndsType DEF Gui!Press
<1>7. (seen \in Seq(Chats \X Gui!Written \X BOOLEAN \X BOOLEAN \X Positions) /\ Len(seen) \in 0..Capacity)'
  <2>1. Gui!Fingerprint \in Chats \X Gui!Written \X BOOLEAN \X BOOLEAN \X Positions /\ Mine
    BY HeldFingerprint DEF Gui!Press, Mine
  <2>2. Gui!Added(seen, Gui!Fingerprint) \in Seq(Chats \X Gui!Written \X BOOLEAN \X BOOLEAN \X Positions)
          /\ Len(Gui!Added(seen, Gui!Fingerprint)) \in 0..Capacity
    BY <2>1, AddedType DEF Gui!TypeOK
  <2>3. QED
    BY <2>2 DEF Gui!Press, Gui!Remembered
<1>8. (handled \in Seq(Chats \X Gui!Written \X BOOLEAN \X BOOLEAN) /\ Len(handled) \in 0..Capacity)'
  <2>1. Gui!RequestFingerprint \in Chats \X Gui!Written \X BOOLEAN \X BOOLEAN
    BY HeldFingerprint DEF Gui!Press, Mine
  <2>2. Gui!Added(handled, Gui!RequestFingerprint) \in Seq(Chats \X Gui!Written \X BOOLEAN \X BOOLEAN)
          /\ Len(Gui!Added(handled, Gui!RequestFingerprint)) \in 0..Capacity
    BY <2>1, AddedType DEF Gui!TypeOK
  <2>3. QED
    BY <2>2 DEF Gui!Press, Gui!Remembered
<1>9. (outgoing \in Seq(Chats \X Gui!Replies) /\ Len(outgoing) \in 0..Capacity)'
  BY DEF Gui!TypeOK, Gui!Press
<1>10. ({misreads, faults, switches} \subseteq Nat)'
  BY DEF Gui!TypeOK, Gui!limits, Gui!Press
<1>11. (sent \in Seq(SentType))'
  <2>1. draft[shown] \in Seq(DraftType) /\ DOMAIN draft[shown] = 1..Len(draft[shown])
          /\ Len(draft[shown]) \in Nat
    BY DraftFacts DEF Gui!TypeOK
  <2>2. \A i \in DOMAIN draft[shown] :
          [req |-> draft[shown][i].req, to |-> shown, meddled |-> meddled
            \/ draft[shown][i].meddled] \in SentType
    BY DraftFacts DEF SentType, Gui!TypeOK
  <2>3. [i \in DOMAIN draft[shown] |->
          [req |-> draft[shown][i].req, to |-> shown, meddled |-> meddled
            \/ draft[shown][i].meddled]]
          \in [1..Len(draft[shown]) -> SentType]
    BY <2>1, <2>2
  <2>4. sent \o [i \in DOMAIN draft[shown] |->
          [req |-> draft[shown][i].req, to |-> shown, meddled |-> meddled
            \/ draft[shown][i].meddled]]
          \in Seq(SentType)
    BY <2>1, <2>3, SentFacts
  <2>5. QED
    BY <2>4, SentFacts DEF Gui!Press
<1>12. (meddled \in BOOLEAN /\ wrongSide \subseteq Nat /\ excused \subseteq Nat)'
  <2>1. Gui!RequestsOf(Gui!Evicted(handled, Gui!RequestFingerprint)) \subseteq Nat
    BY BubblesOf
  <2>2. (IF draft[shown] # <<>> /\ (meddled \/ Target[shown] # target \/ Len(draft[shown]) > 1)
         THEN {Len(bubbles) + 1} ELSE {}) \subseteq Nat
    BY BubbleFacts
  <2>3. excused' \subseteq Nat
    BY <2>1, <2>2 DEF Gui!Press, Gui!TypeOK
  <2>4. QED
    BY <2>3, RoundEndsType DEF Gui!Press, Gui!TypeOK
<1>13. Held'
  BY DEF Held, Mine, Gui!Press, Gui!RoundEnds
<1>14. Targeted'
  BY DEF Targeted, Gui!Press, Gui!RoundEnds
<1>15. QED
  BY <1>1, <1>2, <1>3, <1>4, <1>5, <1>6, <1>7, <1>8, <1>9, <1>10, <1>11, <1>12, <1>13, <1>14
  DEF Gui!TypeOK, BubbleType, DraftType, SentType

\* ... and is started again.
LEMMA RestartType ==
  ASSUME Gui!GuiAssumption, Gui!TypeOK, Held, Targeted, Gui!Restart
  PROVE  Gui!TypeOK' /\ Held' /\ Targeted'
<1>1. (shown \in Chats)'
  BY DEF Gui!TypeOK, Gui!window, Gui!Restart
<1>2. (bubbles \in Seq(BubbleType))'
  BY BubbleFacts DEF Gui!window, Gui!Restart
<1>3. (draft \in [Chats -> Seq(DraftType)])'
  BY DraftFacts DEF Gui!window, Gui!Restart
<1>4. (pc \in {"idle", "looked", "read", "ready", "checked", "pasted"})'
  BY DEF Gui!Restart, Gui!RoundEnds
<1>5. (target \in Chats \cup {NoTarget} /\ reply \in Gui!Replies)'
  BY DEF Gui!Replies, Gui!Restart, Gui!RoundEnds
<1>6. (msg \in [id : Nat, text : Gui!Written, self : BOOLEAN, named : BOOLEAN, pos : Positions \cup {0}])'
  BY RoundEndsType DEF Gui!Restart
<1>7. (seen \in Seq(Chats \X Gui!Written \X BOOLEAN \X BOOLEAN \X Positions) /\ Len(seen) \in 0..Capacity)'
  BY DEF Gui!GuiAssumption, Gui!Restart
<1>8. (handled \in Seq(Chats \X Gui!Written \X BOOLEAN \X BOOLEAN) /\ Len(handled) \in 0..Capacity)'
  BY DEF Gui!GuiAssumption, Gui!Restart
<1>9. (outgoing \in Seq(Chats \X Gui!Replies) /\ Len(outgoing) \in 0..Capacity)'
  BY DEF Gui!GuiAssumption, Gui!Restart
<1>10. ({misreads, faults, switches} \subseteq Nat)'
  <2>1. misreads \in Nat /\ faults \in Nat /\ switches \in Nat
    BY DEF Gui!TypeOK
  <2>2. faults' \in Nat /\ misreads' = misreads /\ switches' = switches
    BY <2>1 DEF Gui!Restart, Gui!Fault
  <2>3. QED
    BY <2>1, <2>2
<1>11. (sent \in Seq(SentType))'
  BY SentFacts DEF Gui!Restart
<1>12. (meddled \in BOOLEAN /\ wrongSide \subseteq Nat /\ excused \subseteq Nat)'
  <2>1. excused' \subseteq Nat
    BY BubblesOf DEF Gui!Restart
  <2>2. QED
    BY <2>1, RoundEndsType DEF Gui!Restart, Gui!TypeOK
<1>13. Held'
  BY DEF Held, Mine, Gui!Restart, Gui!RoundEnds
<1>14. Targeted'
  BY DEF Targeted, Gui!Restart, Gui!RoundEnds
<1>15. QED
  BY <1>1, <1>2, <1>3, <1>4, <1>5, <1>6, <1>7, <1>8, <1>9, <1>10, <1>11, <1>12, <1>13, <1>14
  DEF Gui!TypeOK, BubbleType, DraftType, SentType

(***************************************************************************)
(* What the actions do to the bubbles, the drafts, the replies sent and    *)
(* the caches, element by element.                                         *)
(***************************************************************************)
\* A message of a peer comes after the other bubbles.
LEMMA WriteFacts ==
  ASSUME Gui!TypeOK, NEW c \in Chats, NEW text \in Texts, Gui!PeerWrites(c, text)
  PROVE  /\ DOMAIN bubbles \subseteq DOMAIN bubbles'
         /\ \A i \in DOMAIN bubbles : bubbles'[i] = bubbles[i]
         /\ \A i \in DOMAIN bubbles' : i \notin DOMAIN bubbles => bubbles'[i].from = "peer"
<1>1. [chat |-> c, from |-> "peer", text |-> text] \in BubbleType
  BY DEF BubbleType, Gui!Written
<1>2. QED
  BY <1>1 DEF Gui!PeerWrites

\* An answer is remembered; the bubbles of a text that is evicted are excused.
LEMMA AnswerFacts ==
  ASSUME Gui!GuiAssumption, Gui!TypeOK, Targeted, Gui!Answer
  PROVE  /\ excused \subseteq excused'
         /\ reply' # "file" => Gui!Has(outgoing, <<target, reply>>)'
         /\ \A i \in DOMAIN bubbles :
              Gui!Has(outgoing, Words(i)) => Gui!Has(outgoing, Words(i))' \/ i \in excused'
<1>1. CASE reply' = "file"
  BY <1>1 DEF Gui!Answer, Words, Gui!window
<1>2. CASE reply' # "file"
  <2>1. <<target, reply'>> \in Chats \X Gui!Replies
    BY DEF Gui!Answer, Gui!Answers, Gui!Replies, Targeted
  <2>2. Gui!Has(Gui!Added(outgoing, <<target, reply'>>), <<target, reply'>>)
    <3>1. outgoing \in Seq(Chats \X Gui!Replies) /\ Len(outgoing) \in 0..Capacity
      BY DEF Gui!TypeOK
    <3>2. QED
      BY <2>1, <3>1, AddedType
  <2>3. outgoing' = Gui!Added(outgoing, <<target, reply'>>) /\ target' = target
          /\ bubbles' = bubbles
        /\ excused' = excused \cup Gui!EchoesOf(Gui!Evicted(outgoing, <<target, reply'>>))
    BY <1>2 DEF Gui!Answer, Gui!window
  <2>4. \A i \in DOMAIN bubbles : Gui!Has(outgoing, Words(i)) => Gui!Has(outgoing', Words(i))
          \/ i \in excused'
    BY <2>3, AddedKeeps DEF Gui!EchoesOf, Words
  <2>5. QED
    BY <2>2, <2>3, <2>4 DEF Words
<1>3. QED
  BY <1>1, <1>2

\* A paste adds one part to the draft of the shown chat.
LEMMA PasteFacts ==
  ASSUME Gui!TypeOK, Held, Gui!Paste
  PROVE  /\ shown \in Chats
         /\ \A c \in Chats : c # shown => draft'[c] = draft[c]
         /\ \A k \in DOMAIN draft[shown] : k \in DOMAIN draft'[shown]
              /\ draft'[shown][k] = draft[shown][k] /\ k # Len(draft[shown]) + 1
         /\ DOMAIN draft'[shown] = (DOMAIN draft[shown]) \cup {Len(draft[shown]) + 1}
         /\ draft'[shown][Len(draft[shown]) + 1] = [req |-> msg.id, text |-> reply,
              meddled |-> meddled]
<1>1. [req |-> msg.id, text |-> reply, meddled |-> meddled] \in DraftType
  BY DEF DraftType, Gui!TypeOK, Held, Mine, Gui!Paste
<1>2. shown \in Chats /\ draft[shown] \in Seq(DraftType)
  BY DraftFacts DEF Gui!TypeOK
<1>3. /\ draft'[shown] = Append(draft[shown], [req |-> msg.id, text |-> reply, meddled |-> meddled])
      /\ \A c \in Chats : c # shown => draft'[c] = draft[c]
  BY <1>2, DraftFacts DEF Gui!Paste
<1>4. QED
  BY <1>1, <1>2, <1>3

\* The key empties the draft of the shown chat into one bubble.
LEMMA PressFacts ==
  ASSUME Gui!TypeOK, Gui!Press
  PROVE  /\ shown \in Chats /\ shown' = shown
         /\ \A c \in Chats : c # shown => draft'[c] = draft[c]
         /\ DOMAIN draft'[shown] = {}
         /\ DOMAIN bubbles \subseteq DOMAIN bubbles'
         /\ \A i \in DOMAIN bubbles : bubbles'[i] = bubbles[i]
         /\ \A i \in DOMAIN bubbles' : i \notin DOMAIN bubbles =>
              i = Len(bubbles) + 1 /\ bubbles'[i] = Gui!Bubble(draft[shown]) /\ draft[shown] # <<>>
<1>1. shown \in Chats /\ draft[shown] \in Seq(DraftType)
  BY DraftFacts DEF Gui!TypeOK
<1>2. CASE draft[shown] = <<>>
  BY <1>1, <1>2 DEF Gui!Press
<1>3. CASE draft[shown] # <<>>
  <2>1. Gui!Bubble(draft[shown]) \in BubbleType
    <3>1. Len(draft[shown]) = 1 => draft[shown][1].text \in Gui!Written
      BY <1>1, DraftFacts DEF Gui!Written
    <3>2. QED
      BY <1>1, <3>1 DEF Gui!Bubble, BubbleType, Gui!Written
  <2>2. bubbles' = Append(bubbles, Gui!Bubble(draft[shown]))
          /\ draft' = [draft EXCEPT ![shown] = <<>>] /\ shown' = shown
    BY <1>3 DEF Gui!Press
  <2>3. (\A c \in Chats : c # shown => draft'[c] = draft[c]) /\ draft'[shown] = <<>>
    BY <1>1, <2>2, DraftFacts
  <2>4. QED
    BY <1>1, <1>3, <2>1, <2>2, <2>3
<1>4. QED
  BY <1>2, <1>3

\* What is sent at once are the parts of the draft of the chat in the window.
Part(n, k) ==
  /\ n = Len(sent) + k
  /\ sent'[n].req = draft[shown][k].req /\ sent'[n].to = shown
  /\ sent'[n].meddled = (meddled \/ draft[shown][k].meddled)

\* Each part of the draft is a reply that is sent.
LEMMA SentParts ==
  ASSUME Gui!TypeOK, Gui!Press
  PROVE  /\ \A n \in DOMAIN sent : n \in DOMAIN sent' /\ sent'[n] = sent[n]
         /\ \A n \in DOMAIN sent' : n \in DOMAIN sent \/ \E k \in DOMAIN draft[shown] : Part(n, k)
<1>1. /\ shown \in Chats /\ draft[shown] \in Seq(DraftType)
      /\ Len(draft[shown]) \in Nat /\ DOMAIN draft[shown] = 1..Len(draft[shown])
  BY DraftFacts DEF Gui!TypeOK
<1>2. CASE draft[shown] = <<>>
  BY <1>1, <1>2 DEF Gui!Press
<1>3. CASE draft[shown] # <<>>
  <2> DEFINE parts == [i \in DOMAIN draft[shown] |->
          [req |-> draft[shown][i].req, to |-> shown, meddled |-> meddled
            \/ draft[shown][i].meddled]]
  <2>1. sent' = sent \o parts
    BY <1>3 DEF Gui!Press
  <2>2. \A i \in DOMAIN draft[shown] : parts[i] \in SentType
    BY <1>1, DraftFacts DEF SentType
  <2>3. parts \in [1..Len(draft[shown]) -> SentType]
    BY <1>1, <2>2
  <2>4. \A k \in DOMAIN draft[shown] :
          /\ parts[k].req = draft[shown][k].req /\ parts[k].to = shown
          /\ parts[k].meddled = (meddled \/ draft[shown][k].meddled)
    OBVIOUS
  <2> HIDE DEF parts
  <2>5. /\ Len(sent') = Len(sent) + Len(draft[shown]) /\ sent' \in Seq(SentType)
        /\ \A n \in 1..Len(sent) : sent'[n] = sent[n]
        /\ \A k \in 1..Len(draft[shown]) : sent'[Len(sent) + k] = parts[k]
        /\ \A n \in 1..Len(sent) + Len(draft[shown]) :
             n \in 1..Len(sent) \/ \E k \in 1..Len(draft[shown]) : n = Len(sent) + k
    <3>1. sent \in Seq(SentType) /\ Len(sent) \in Nat
      BY SentFacts
    <3>2. /\ sent' \in Seq(SentType) /\ Len(sent') = Len(sent) + Len(draft[shown])
          /\ \A n \in 1..Len(sent) : sent'[n] = sent[n]
          /\ \A k \in 1..Len(draft[shown]) : sent'[Len(sent) + k] = parts[k]
          /\ \A n \in 1..Len(sent) + Len(draft[shown]) :
               n \in 1..Len(sent) \/ \E k \in 1..Len(draft[shown]) : n = Len(sent) + k
      <4> DEFINE m == Len(draft[shown])
      <4>1. m \in Nat /\ parts \in [1..m -> SentType]
        BY <1>1, <2>3
      <4> HIDE DEF m
      <4>2. parts \in Seq(SentType) /\ Len(parts) = m
        BY <4>1
      <4>3. sent \o parts \in Seq(SentType) /\ Len(sent \o parts) = Len(sent) + m
        BY <3>1, <4>2
      <4>4. sent' \in Seq(SentType) /\ Len(sent') = Len(sent) + m
        BY <2>1, <4>3
      <4>5. \A n \in 1..Len(sent) : sent'[n] = sent[n]
        BY <2>1, <3>1, <4>1, <4>2
      <4>6. \A k \in 1..m : sent'[Len(sent) + k] = parts[k]
        BY <2>1, <3>1, <4>1, <4>2
      <4>7. \A n \in 1..Len(sent) + m : n \in 1..Len(sent) \/ \E k \in 1..m : n = Len(sent) + k
        BY <3>1, <4>1, Beyond
      <4>8. QED
        BY <4>4, <4>5, <4>6, <4>7 DEF m
    <3>3. QED
      BY <2>1, <3>2
  <2>6. DOMAIN sent' = 1..Len(sent')
    BY <2>5
  <2>7. \A n \in DOMAIN sent : n \in DOMAIN sent' /\ sent'[n] = sent[n]
    BY <1>1, <2>5, <2>6, SentFacts
  <2>8. \A n \in DOMAIN sent' : n \in DOMAIN sent \/ \E k \in DOMAIN draft[shown] : Part(n, k)
    <3> SUFFICES ASSUME NEW n \in DOMAIN sent', n \notin DOMAIN sent
                 PROVE  \E k \in DOMAIN draft[shown] : Part(n, k)
      OBVIOUS
    <3>1. n \in 1..Len(sent) + Len(draft[shown])
      BY <2>5, <2>6
    <3>2. n \notin 1..Len(sent)
      BY SentFacts
    <3>3. PICK k \in 1..Len(draft[shown]) : n = Len(sent) + k
      BY <2>5, <3>1, <3>2
    <3>4. sent'[n] = parts[k]
      BY <2>5, <3>3
    <3>5. Part(n, k)
      BY <1>1, <2>4, <3>3, <3>4 DEF Part
    <3>6. QED
      BY <1>1, <3>5
  <2>9. QED
    BY <2>7, <2>8
<1>4. QED
  BY <1>2, <1>3

\* The request is remembered; the bubbles of a request that is evicted are excused.
LEMMA PressRemembers ==
  ASSUME Gui!GuiAssumption, Gui!TypeOK, Held, Targeted, Gui!Press
  PROVE  /\ excused \subseteq excused'
         /\ (\E k \in DOMAIN handled' : handled'[k] = Gui!RequestFingerprint)
         /\ \A i \in DOMAIN bubbles :
              bubbles[i].from = "peer" /\ Gui!Has(handled, Asked(i))
                => Gui!Has(handled, Asked(i))' \/ i \in excused'
<1>1. Gui!RequestFingerprint \in Chats \X Gui!Written \X BOOLEAN \X BOOLEAN
  BY HeldFingerprint DEF Gui!Press, Mine
<1>2. Gui!Has(Gui!Added(handled, Gui!RequestFingerprint), Gui!RequestFingerprint)
  <2>1. handled \in Seq(Chats \X Gui!Written \X BOOLEAN \X BOOLEAN) /\ Len(handled) \in 0..Capacity
    BY DEF Gui!TypeOK
  <2>2. QED
    BY <1>1, <2>1, AddedType
<1>3. handled' = Gui!Added(handled, Gui!RequestFingerprint) /\ excused \subseteq excused'
      /\ Gui!RequestsOf(Gui!Evicted(handled, Gui!RequestFingerprint)) \subseteq excused'
  BY DEF Gui!Press, Gui!Remembered
<1>4. \A i \in DOMAIN bubbles : bubbles[i].from = "peer" /\ Gui!Has(handled, Asked(i)) =>
        Gui!Has(handled', Asked(i)) \/ i \in excused'
  BY <1>3, AddedKeeps DEF Gui!RequestsOf, Asked
<1>5. \A i \in DOMAIN bubbles : bubbles'[i] = bubbles[i]
  BY PressFacts
<1>6. QED
  BY <1>2, <1>3, <1>4, <1>5 DEF Gui!Has, Asked

(***************************************************************************)
(* The inductive invariant: one lemma per action, one step per conjunct.   *)
(***************************************************************************)
\* A new message has no reply.
LEMMA PeerWritesStep ==
  ASSUME Gui!TypeOK, Held, Targeted, GuiInv, NEW c \in Chats, NEW text \in Texts,
         Gui!PeerWrites(c, text)
  PROVE  GuiInv'
<1>1. Real'
  BY DEF GuiInv, Real, Gui!history, Gui!PeerWrites
<1>2. Aimed'
  BY DEF GuiInv, Aimed, Gui!round, Gui!history, Gui!PeerWrites
<1>3. MineAimed'
  BY DEF GuiInv, MineAimed, Held, Mine, Gui!round, Gui!history, Gui!PeerWrites
<1>4. MineRead'
  BY DEF GuiInv, MineRead, Held, Mine, Gui!round, Gui!history, Gui!PeerWrites
<1>5. DraftsAimed'
  BY DEF GuiInv, DraftsAimed, Real, Gui!PeerWrites
<1>6. OwnRemembered'
  BY DEF GuiInv, OwnRemembered, Words, Gui!caches, Gui!history, Gui!PeerWrites
<1>7. ReplyRemembered'
  BY DEF GuiInv, ReplyRemembered, Answering, Gui!round, Gui!caches, Gui!PeerWrites
<1>8. Pasted'
  BY DEF GuiInv, Pasted, Gui!round, Gui!history, Gui!PeerWrites
<1>9. DraftsJustified'
  BY DEF GuiInv, DraftsJustified, Justified, Real, Gui!history, Gui!PeerWrites
<1>10. MineJustified'
  BY
  DEF GuiInv, MineJustified, Justified, Held, Mine, Answering, Gui!round, Gui!history,
      Gui!PeerWrites
<1>11. SentHandled'
  <2> SUFFICES ASSUME NEW n \in DOMAIN sent, sent[n].req \notin Forgiven
               PROVE  Gui!Has(handled, Asked(sent[n].req))'
    BY DEF Gui!PeerWrites, SentHandled, Forgiven, Gui!history
  <2>1. sent[n].req \in DOMAIN bubbles /\ Gui!Has(handled, Asked(sent[n].req))
    BY DEF GuiInv, Real, SentHandled
  <2>2. QED
    BY <2>1, WriteFacts DEF Gui!PeerWrites, Asked, Gui!caches, Gui!history
<1>12. DraftHandled'
  <2> SUFFICES ASSUME NEW b \in Chats, NEW k \in DOMAIN draft[b], draft[b][k].req \notin Forgiven,
                      ~(pc = "pasted" /\ msg.id = draft[b][k].req)
               PROVE  Gui!Has(handled, Asked(draft[b][k].req))'
    BY DEF Gui!PeerWrites, DraftHandled, Forgiven, Gui!history, Gui!round
  <2>1. draft[b][k].req \in DOMAIN bubbles /\ Gui!Has(handled, Asked(draft[b][k].req))
    BY DEF GuiInv, Real, DraftHandled
  <2>2. QED
    BY <2>1, WriteFacts DEF Gui!PeerWrites, Asked, Gui!caches
<1>13. Unanswered'
  BY DEF GuiInv, Unanswered, Forgiven, Gui!round, Gui!history, Gui!PeerWrites
<1>14. DraftOnce'
  BY DEF GuiInv, DraftOnce, Forgiven, Gui!history, Gui!PeerWrites
<1>15. NotBoth'
  BY DEF GuiInv, NotBoth, Forgiven, Gui!history, Gui!PeerWrites
<1>16. PeerAsked'
  BY DEF GuiInv, PeerAsked, Answering, Gui!round, Gui!PeerWrites
<1>17. NoEcho'
  BY DEF GuiInv, NoEcho, Real, Gui!history, Gui!PeerWrites
<1>18. AnsweredOnce'
  BY DEF GuiInv, AnsweredOnce, Gui!history, Gui!PeerWrites
<1>19. RightChat'
  BY DEF GuiInv, RightChat, Real, Gui!history, Gui!PeerWrites
<1>20. QED
  BY <1>1, <1>2, <1>3, <1>4, <1>5, <1>6, <1>7, <1>8, <1>9, <1>10, <1>11, <1>12, <1>13, <1>14,
     <1>15, <1>16, <1>17, <1>18, <1>19
  DEF GuiInv

\* A switch of chats is noted while the round relies on the chat.
LEMMA SwitchStep ==
  ASSUME Gui!TypeOK, Held, Targeted, GuiInv, NEW c \in Chats, Gui!Switch(c)
  PROVE  GuiInv'
<1>1. Real'
  BY DEF GuiInv, Real, Gui!Switch
<1>2. Aimed'
  BY DEF GuiInv, Aimed, Gui!Switch, Gui!Relies
<1>3. MineAimed'
  BY DEF GuiInv, MineAimed, Mine, Gui!round, Gui!Switch
<1>4. MineRead'
  BY DEF GuiInv, MineRead, Mine, Gui!round, Gui!Switch
<1>5. DraftsAimed'
  BY DEF GuiInv, DraftsAimed, Gui!Switch
<1>6. OwnRemembered'
  BY DEF GuiInv, OwnRemembered, Words, Gui!caches, Gui!Switch
<1>7. ReplyRemembered'
  BY DEF GuiInv, ReplyRemembered, Answering, Gui!round, Gui!caches, Gui!Switch
<1>8. Pasted'
  BY DEF GuiInv, Pasted, Gui!Switch, Gui!Relies
<1>9. DraftsJustified'
  BY DEF GuiInv, DraftsJustified, Justified, Gui!Switch
<1>10. MineJustified'
  BY DEF GuiInv, MineJustified, Justified, Answering, Gui!round, Gui!Switch
<1>11. SentHandled'
  BY DEF GuiInv, SentHandled, Forgiven, Asked, Gui!caches, Gui!Switch
<1>12. DraftHandled'
  BY DEF GuiInv, DraftHandled, Forgiven, Asked, Gui!round, Gui!caches, Gui!Switch
<1>13. Unanswered'
  BY DEF GuiInv, Unanswered, Forgiven, Gui!round, Gui!Switch
<1>14. DraftOnce'
  BY DEF GuiInv, DraftOnce, Forgiven, Gui!Switch
<1>15. NotBoth'
  BY DEF GuiInv, NotBoth, Forgiven, Gui!Switch
<1>16. PeerAsked'
  BY DEF GuiInv, PeerAsked, Answering, Gui!round, Gui!Switch
<1>17. NoEcho'
  BY DEF GuiInv, NoEcho, Gui!Switch
<1>18. AnsweredOnce'
  BY DEF GuiInv, AnsweredOnce, Gui!Switch
<1>19. RightChat'
  BY DEF GuiInv, RightChat, Gui!Switch
<1>20. QED
  BY <1>1, <1>2, <1>3, <1>4, <1>5, <1>6, <1>7, <1>8, <1>9, <1>10, <1>11, <1>12, <1>13, <1>14,
     <1>15, <1>16, <1>17, <1>18, <1>19
  DEF GuiInv

\* The target is the one of the chat in the window.
LEMMA LookStep ==
  ASSUME Gui!TypeOK, Held, Targeted, GuiInv, Gui!Look
  PROVE  GuiInv'
<1>1. Real'
  BY DEF GuiInv, Real, Gui!window, Gui!history, Gui!Look
<1>2. Aimed'
  BY DEF GuiInv, Aimed, Gui!window, Gui!Look
<1>3. MineAimed'
  BY DEF GuiInv, MineAimed, Mine, Gui!Look
<1>4. MineRead'
  BY DEF GuiInv, MineRead, Mine, Gui!Look
<1>5. DraftsAimed'
  BY DEF GuiInv, DraftsAimed, Gui!window, Gui!Look
<1>6. OwnRemembered'
  BY DEF GuiInv, OwnRemembered, Words, Gui!window, Gui!caches, Gui!history, Gui!Look
<1>7. ReplyRemembered'
  BY DEF GuiInv, ReplyRemembered, Answering, Gui!Look
<1>8. Pasted'
  BY DEF GuiInv, Pasted, Gui!Look
<1>9. DraftsJustified'
  BY DEF GuiInv, DraftsJustified, Justified, Gui!window, Gui!history, Gui!Look
<1>10. MineJustified'
  BY DEF GuiInv, MineJustified, Answering, Gui!Look
<1>11. SentHandled'
  BY DEF GuiInv, SentHandled, Forgiven, Asked, Gui!window, Gui!caches, Gui!history, Gui!Look
<1>12. DraftHandled'
  BY DEF GuiInv, DraftHandled, Forgiven, Asked, Gui!window, Gui!caches, Gui!history, Gui!Look
<1>13. Unanswered'
  BY DEF GuiInv, Unanswered, Gui!Look
<1>14. DraftOnce'
  BY DEF GuiInv, DraftOnce, Forgiven, Gui!window, Gui!history, Gui!Look
<1>15. NotBoth'
  BY DEF GuiInv, NotBoth, Forgiven, Gui!window, Gui!history, Gui!Look
<1>16. PeerAsked'
  BY DEF GuiInv, PeerAsked, Answering, Gui!Look
<1>17. NoEcho'
  BY DEF GuiInv, NoEcho, Gui!window, Gui!history, Gui!Look
<1>18. AnsweredOnce'
  BY DEF GuiInv, AnsweredOnce, Gui!history, Gui!Look
<1>19. RightChat'
  BY DEF GuiInv, RightChat, Gui!window, Gui!history, Gui!Look
<1>20. QED
  BY <1>1, <1>2, <1>3, <1>4, <1>5, <1>6, <1>7, <1>8, <1>9, <1>10, <1>11, <1>12, <1>13, <1>14,
     <1>15, <1>16, <1>17, <1>18, <1>19
  DEF GuiInv

\* What is misread is noted.
LEMMA ReadStep ==
  ASSUME Gui!TypeOK, Held, Targeted, GuiInv, Gui!Read
  PROVE  GuiInv'
<1> PICK i \in Gui!Of(shown), pos \in Positions, wrong, named \in BOOLEAN :
         \E text \in {bubbles[i].text, Garbled} :
     /\ i \in DOMAIN bubbles /\ i \in Nat /\ text \in Gui!Written
     /\ msg' = [id |-> i, text |-> text, self |-> ((bubbles[i].from = "bridge") # wrong),
          named |-> named, pos |-> pos]
     /\ wrongSide' = IF wrong THEN wrongSide \cup {i} ELSE wrongSide
     /\ excused' = IF text # bubbles[i].text \/ ~(named \/ wrong) \/ meddled THEN excused \cup {i} ELSE excused
  BY ReadMessage
<1>0. PICK text \in {bubbles[i].text, Garbled} :
     /\ i \in DOMAIN bubbles /\ i \in Nat /\ text \in Gui!Written
     /\ msg' = [id |-> i, text |-> text, self |-> ((bubbles[i].from = "bridge") # wrong),
          named |-> named, pos |-> pos]
     /\ wrongSide' = IF wrong THEN wrongSide \cup {i} ELSE wrongSide
     /\ excused' = IF text # bubbles[i].text \/ ~(named \/ wrong) \/ meddled THEN excused \cup {i} ELSE excused
  OBVIOUS
<1>a. bubbles[i].chat = shown /\ excused \subseteq excused' /\ wrongSide \subseteq wrongSide'
  BY <1>0 DEF Gui!Of
<1>1. Real'
  BY <1>0, <1>a DEF GuiInv, Real, Gui!window, Gui!Read
<1>2. Aimed'
  BY <1>0, <1>a DEF GuiInv, Aimed, Gui!Read
<1>3. MineAimed'
  BY <1>0, <1>a DEF GuiInv, MineAimed, Aimed, Gui!window, Gui!Read
<1>4. MineRead'
  BY <1>0, <1>a DEF GuiInv, MineRead, Gui!window, Gui!Read
<1>5. DraftsAimed'
  BY <1>0, <1>a DEF GuiInv, DraftsAimed, Gui!window, Gui!Read
<1>6. OwnRemembered'
  BY <1>0, <1>a DEF GuiInv, OwnRemembered, Words, Gui!window, Gui!caches, Gui!Read
<1>7. ReplyRemembered'
  BY <1>0, <1>a DEF GuiInv, ReplyRemembered, Answering, Gui!Read
<1>8. Pasted'
  BY <1>0, <1>a DEF GuiInv, Pasted, Gui!Read
<1>9. DraftsJustified'
  BY <1>0, <1>a DEF GuiInv, DraftsJustified, Justified, Gui!window, Gui!Read
<1>10. MineJustified'
  BY <1>0, <1>a DEF GuiInv, MineJustified, Answering, Gui!Read
<1>11. SentHandled'
  BY <1>0, <1>a DEF GuiInv, SentHandled, Forgiven, Asked, Gui!window, Gui!caches, Gui!Read
<1>12. DraftHandled'
  <2> SUFFICES ASSUME NEW c \in Chats, NEW k \in DOMAIN draft[c], draft[c][k].req \notin Forgiven,
                      ~(pc = "pasted" /\ msg.id = draft[c][k].req)
               PROVE  Gui!Has(handled, Asked(draft[c][k].req))'
    BY <1>a DEF Gui!Read, DraftHandled, Forgiven, Gui!window
  <2>1. draft[c][k].req \in DOMAIN bubbles /\ Gui!Has(handled, Asked(draft[c][k].req))
    BY DEF GuiInv, Real, DraftHandled
  <2>2. QED
    BY <2>1 DEF Gui!Read, Asked, Gui!caches, Gui!window
<1>13. Unanswered'
  BY <1>0, <1>a DEF GuiInv, Unanswered, Gui!Read
<1>14. DraftOnce'
  BY <1>0, <1>a DEF GuiInv, DraftOnce, Forgiven, Gui!window, Gui!Read
<1>15. NotBoth'
  BY <1>0, <1>a DEF GuiInv, NotBoth, Forgiven, Gui!window, Gui!Read
<1>16. PeerAsked'
  BY <1>0, <1>a DEF GuiInv, PeerAsked, Answering, Gui!Read
<1>17. NoEcho'
  BY <1>0, <1>a DEF GuiInv, NoEcho, Gui!window, Gui!Read
<1>18. AnsweredOnce'
  BY <1>0, <1>a DEF GuiInv, AnsweredOnce, Gui!Read
<1>19. RightChat'
  BY <1>0, <1>a DEF GuiInv, RightChat, Gui!window, Gui!Read
<1>20. QED
  BY <1>1, <1>2, <1>3, <1>4, <1>5, <1>6, <1>7, <1>8, <1>9, <1>10, <1>11, <1>12, <1>13, <1>14,
     <1>15, <1>16, <1>17, <1>18, <1>19
  DEF GuiInv

\* A round that ends before the paste leaves nothing.
LEMMA EndsStep ==
  ASSUME Gui!TypeOK, Held, Targeted, GuiInv, pc # "pasted", pc' = "idle",
         UNCHANGED <<Gui!window, handled, outgoing, sent, wrongSide, excused>>
  PROVE  GuiInv'
<1>1. Real'
  BY DEF GuiInv, Real, Gui!window
<1>2. Aimed'
  BY DEF GuiInv, Aimed
<1>3. MineAimed'
  BY DEF GuiInv, MineAimed, Mine
<1>4. MineRead'
  BY DEF GuiInv, MineRead, Mine
<1>5. DraftsAimed'
  BY DEF GuiInv, DraftsAimed, Gui!window
<1>6. OwnRemembered'
  BY DEF GuiInv, OwnRemembered, Words, Gui!window
<1>7. ReplyRemembered'
  BY DEF GuiInv, ReplyRemembered, Answering
<1>8. Pasted'
  BY DEF GuiInv, Pasted
<1>9. DraftsJustified'
  BY DEF GuiInv, DraftsJustified, Justified, Gui!window
<1>10. MineJustified'
  BY DEF GuiInv, MineJustified, Answering
<1>11. SentHandled'
  BY DEF GuiInv, SentHandled, Forgiven, Asked, Gui!window
<1>12. DraftHandled'
  BY DEF GuiInv, DraftHandled, Forgiven, Asked, Gui!window
<1>13. Unanswered'
  BY DEF GuiInv, Unanswered
<1>14. DraftOnce'
  BY DEF GuiInv, DraftOnce, Forgiven, Gui!window
<1>15. NotBoth'
  BY DEF GuiInv, NotBoth, Forgiven, Gui!window
<1>16. PeerAsked'
  BY DEF GuiInv, PeerAsked, Answering
<1>17. NoEcho'
  BY DEF GuiInv, NoEcho, Gui!window
<1>18. AnsweredOnce'
  BY DEF GuiInv, AnsweredOnce
<1>19. RightChat'
  BY DEF GuiInv, RightChat, Gui!window
<1>20. QED
  BY <1>1, <1>2, <1>3, <1>4, <1>5, <1>6, <1>7, <1>8, <1>9, <1>10, <1>11, <1>12, <1>13, <1>14,
     <1>15, <1>16, <1>17, <1>18, <1>19
  DEF GuiInv

\* A request that is not in the caches has no reply, and is not the bridge's own.
LEMMA AnswerStep ==
  ASSUME Gui!GuiAssumption, Gui!TypeOK, Held, Targeted, GuiInv, Gui!Answer
  PROVE  GuiInv'
<1>a. /\ excused \subseteq excused' /\ wrongSide' = wrongSide /\ bubbles' = bubbles
           /\ draft' = draft /\ sent' = sent
      /\ msg' = msg /\ target' = target /\ msg.id \in DOMAIN bubbles /\ Mine
  BY DEF Gui!Answer, Gui!window, Held, Mine
<1>b. msg.self = FALSE /\ ~Gui!Has(outgoing, <<target, msg.text>>)
        /\ ~Gui!Has(handled, Gui!RequestFingerprint)
  BY DEF Gui!Answer, Gui!NeedsAnswer, Gui!Echo, Gui!Recalls
<1>c. /\ msg.id \notin excused => msg.text = bubbles[msg.id].text
           /\ target = Target[bubbles[msg.id].chat]
      /\ msg.id \notin wrongSide => bubbles[msg.id].from # "bridge"
      /\ msg.id \notin Forgiven => msg.named = TRUE
  BY <1>a, <1>b DEF GuiInv, MineRead, MineAimed, Forgiven, Gui!TypeOK
<1>1. Real'
  BY DEF GuiInv, Real, Gui!window, Gui!Answer
<1>2. Aimed'
  BY DEF GuiInv, Aimed, Gui!Answer
<1>3. MineAimed'
  BY DEF GuiInv, MineAimed, Mine, Gui!window, Gui!Answer
<1>4. MineRead'
  BY DEF GuiInv, MineRead, Mine, Gui!window, Gui!Answer
<1>5. DraftsAimed'
  BY DEF GuiInv, DraftsAimed, Gui!window, Gui!Answer
<1>6. OwnRemembered'
  BY AnswerFacts DEF GuiInv, OwnRemembered, Gui!window, Gui!Answer
<1>7. ReplyRemembered'
  BY AnswerFacts DEF GuiInv, ReplyRemembered, Gui!Answer
<1>8. Pasted'
  BY DEF GuiInv, Pasted, Gui!Answer
<1>9. DraftsJustified'
  BY DEF GuiInv, DraftsJustified, Justified, Gui!window, Gui!Answer
<1>10. MineJustified'
  <2>1. Justified(msg.id)
    BY <1>a, <1>b, <1>c DEF GuiInv, Justified, OwnRemembered, Words
  <2>2. QED
    BY <1>a, <2>1 DEF MineJustified, Justified
<1>11. SentHandled'
  BY DEF GuiInv, SentHandled, Forgiven, Asked, Gui!window, Gui!Answer
<1>12. DraftHandled'
  BY DEF GuiInv, DraftHandled, Forgiven, Asked, Gui!window, Gui!Answer
<1>13. Unanswered'
  <2> SUFFICES ASSUME msg.id \notin Forgiven
               PROVE  /\ \A n \in DOMAIN sent : sent[n].req # msg.id
                      /\ \A c \in Chats : \A k \in DOMAIN draft[c] : draft[c][k].req # msg.id
    BY <1>a DEF Unanswered, Forgiven
  <2>1. Gui!RequestFingerprint = Asked(msg.id)
    BY <1>b, <1>c DEF Gui!RequestFingerprint, Asked, Forgiven
  <2>2. ~Gui!Has(handled, Asked(msg.id)) /\ pc # "pasted"
    BY <1>b, <2>1 DEF Gui!Answer
  <2>3. QED
    BY <2>2 DEF GuiInv, SentHandled, DraftHandled
<1>14. DraftOnce'
  BY DEF GuiInv, DraftOnce, Forgiven, Gui!window, Gui!Answer
<1>15. NotBoth'
  BY DEF GuiInv, NotBoth, Forgiven, Gui!window, Gui!Answer
<1>16. PeerAsked'
  BY <1>a, <1>b DEF PeerAsked
<1>17. NoEcho'
  BY DEF GuiInv, NoEcho, Gui!window, Gui!Answer
<1>18. AnsweredOnce'
  BY DEF GuiInv, AnsweredOnce, Gui!Answer
<1>19. RightChat'
  BY DEF GuiInv, RightChat, Gui!window, Gui!Answer
<1>20. QED
  BY <1>1, <1>2, <1>3, <1>4, <1>5, <1>6, <1>7, <1>8, <1>9, <1>10, <1>11, <1>12, <1>13, <1>14,
     <1>15, <1>16, <1>17, <1>18, <1>19
  DEF GuiInv

\* The title passes the check, or was misread.
LEMMA CheckedStep ==
  ASSUME Gui!TypeOK, Held, Targeted, GuiInv, pc = "ready", pc' = "checked",
         (Gui!TitleMatches /\ meddled' = meddled) \/ meddled' = TRUE,
         UNCHANGED <<Gui!window, Gui!caches, sent, wrongSide, excused, Gui!round>>
  PROVE  GuiInv'
<1>1. Real'
  BY DEF GuiInv, Real, Gui!window
<1>2. Aimed'
  BY DEF GuiInv, Aimed, Passes, Gui!window, Gui!round, Gui!TitleMatches
<1>3. MineAimed'
  BY DEF GuiInv, MineAimed, Mine, Gui!window, Gui!round
<1>4. MineRead'
  BY DEF GuiInv, MineRead, Mine, Gui!window, Gui!round
<1>5. DraftsAimed'
  BY DEF GuiInv, DraftsAimed, Gui!window
<1>6. OwnRemembered'
  BY DEF GuiInv, OwnRemembered, Words, Gui!window, Gui!caches
<1>7. ReplyRemembered'
  BY DEF GuiInv, ReplyRemembered, Answering, Gui!round, Gui!caches
<1>8. Pasted'
  BY DEF GuiInv, Pasted
<1>9. DraftsJustified'
  BY DEF GuiInv, DraftsJustified, Justified, Gui!window
<1>10. MineJustified'
  BY DEF GuiInv, MineJustified, Justified, Answering, Gui!window, Gui!round
<1>11. SentHandled'
  BY DEF GuiInv, SentHandled, Forgiven, Asked, Gui!window, Gui!caches
<1>12. DraftHandled'
  BY DEF GuiInv, DraftHandled, Forgiven, Asked, Gui!window, Gui!caches
<1>13. Unanswered'
  BY DEF GuiInv, Unanswered, Forgiven, Gui!window, Gui!round
<1>14. DraftOnce'
  BY DEF GuiInv, DraftOnce, Forgiven, Gui!window
<1>15. NotBoth'
  BY DEF GuiInv, NotBoth, Forgiven, Gui!window
<1>16. PeerAsked'
  BY DEF GuiInv, PeerAsked, Answering, Gui!round
<1>17. NoEcho'
  BY DEF GuiInv, NoEcho, Gui!window
<1>18. AnsweredOnce'
  BY DEF GuiInv, AnsweredOnce
<1>19. RightChat'
  BY DEF GuiInv, RightChat, Gui!window
<1>20. QED
  BY <1>1, <1>2, <1>3, <1>4, <1>5, <1>6, <1>7, <1>8, <1>9, <1>10, <1>11, <1>12, <1>13, <1>14,
     <1>15, <1>16, <1>17, <1>18, <1>19
  DEF GuiInv

\* The draft gets the only reply of the request.
LEMMA PasteStep ==
  ASSUME Gui!TypeOK, Held, Targeted, GuiInv, Gui!Paste
  PROVE  GuiInv'
<1>1. Real'
  BY DEF GuiInv, Real, Held, Mine, Gui!Paste
<1>2. Aimed'
  BY DEF GuiInv, Aimed, Gui!round, Gui!Paste, Gui!RoundEnds
<1>3. MineAimed'
  BY DEF GuiInv, MineAimed, Mine, Gui!round, Gui!Paste, Gui!RoundEnds
<1>4. MineRead'
  BY DEF GuiInv, MineRead, Mine, Gui!round, Gui!Paste, Gui!RoundEnds
<1>5. DraftsAimed'
  <2>1. /\ UNCHANGED shown /\ DraftsAimed /\ Aimed /\ MineAimed
        /\ pc = "checked" /\ UNCHANGED <<bubbles, misreads>>
    BY DEF GuiInv, Gui!Paste
  <2>2. QED
    BY <2>1, PasteFacts DEF DraftsAimed, MineAimed, Aimed, Mine
<1>6. OwnRemembered'
  BY DEF GuiInv, OwnRemembered, Words, Gui!caches, Gui!Paste
<1>7. ReplyRemembered'
  BY DEF GuiInv, ReplyRemembered, Answering, Gui!round, Gui!caches, Gui!Paste, Gui!RoundEnds
<1>8. Pasted'
  BY PasteFacts DEF GuiInv, Pasted, Gui!round, Gui!Paste, Gui!RoundEnds
<1>9. DraftsJustified'
  BY DEF GuiInv, DraftsJustified, Justified, MineJustified, Answering, Gui!Paste
<1>10. MineJustified'
  BY DEF GuiInv, MineJustified, Justified, Answering, Gui!round, Gui!Paste, Gui!RoundEnds
<1>11. SentHandled'
  BY DEF GuiInv, SentHandled, Forgiven, Asked, Gui!caches, Gui!Paste
<1>12. DraftHandled'
  <2> SUFFICES ASSUME NEW c \in Chats, NEW k \in DOMAIN draft'[c],
                      draft'[c][k].req \notin Forgiven',
                      ~(pc' = "pasted" /\ msg'.id = draft'[c][k].req)
               PROVE  Gui!Has(handled, Asked(draft[c][k].req))'
    BY DEF DraftHandled
  <2>1. excused \subseteq excused' /\ wrongSide' = wrongSide /\ bubbles' = bubbles
          /\ handled' = handled
        /\ pc = "checked" /\ (msg.id \in excused' \/ (pc' = "pasted" /\ msg' = msg))
    <3>1. wrongSide' = wrongSide /\ bubbles' = bubbles /\ handled' = handled /\ pc = "checked"
      BY DEF Gui!Paste, Gui!caches
    <3>2. excused \subseteq excused' /\ (msg.id \in excused' \/ (pc' = "pasted" /\ msg' = msg))
      BY DEF Gui!Paste, Gui!round
    <3>3. QED
      BY <3>1, <3>2
  <2>2. draft'[c][k].req # msg.id
    BY <2>1 DEF Forgiven
  <2>3. k \in DOMAIN draft[c] /\ draft'[c][k] = draft[c][k]
    BY <2>2, PasteFacts
  <2>4. Gui!Has(handled, Asked(draft[c][k].req))
    BY <2>1, <2>3 DEF GuiInv, DraftHandled, Forgiven
  <2>5. QED
    BY <2>1, <2>3, <2>4 DEF Asked
<1>13. Unanswered'
  BY DEF GuiInv, Unanswered, Gui!Paste, Gui!RoundEnds
<1>14. DraftOnce'
  BY DEF GuiInv, DraftOnce, Forgiven, Unanswered, Gui!Paste
<1>15. NotBoth'
  BY DEF GuiInv, NotBoth, Forgiven, Unanswered, Gui!Paste
<1>16. PeerAsked'
  BY DEF GuiInv, PeerAsked, Answering, Gui!round, Gui!Paste, Gui!RoundEnds
<1>17. NoEcho'
  BY DEF GuiInv, NoEcho, Gui!Paste
<1>18. AnsweredOnce'
  BY DEF GuiInv, AnsweredOnce, Gui!Paste
<1>19. RightChat'
  BY DEF GuiInv, RightChat, Gui!Paste
<1>20. QED
  BY <1>1, <1>2, <1>3, <1>4, <1>5, <1>6, <1>7, <1>8, <1>9, <1>10, <1>11, <1>12, <1>13, <1>14,
     <1>15, <1>16, <1>17, <1>18, <1>19
  DEF GuiInv

\* The draft is sent, and its last request remembered.
LEMMA PressStep ==
  ASSUME Gui!GuiAssumption, Gui!TypeOK, Held, Targeted, GuiInv, Gui!Press
  PROVE  GuiInv'
<1>a. \A c \in Chats : \A k \in DOMAIN draft'[c] : /\ c # shown /\ k \in DOMAIN draft[c]
        /\ draft'[c] = draft[c]
        /\ draft'[c][k] = draft[c][k] /\ draft[c][k].req \in DOMAIN bubbles
  BY PressFacts DEF GuiInv, Real
<1>b. \A i \in DOMAIN bubbles : bubbles'[i] = bubbles[i] /\ i \in DOMAIN bubbles'
  BY PressFacts
<1>c. \A n \in DOMAIN sent' :
        \/ n \in DOMAIN sent /\ sent'[n] = sent[n] /\ sent[n].req \in DOMAIN bubbles
        \/ \E k \in DOMAIN draft[shown] : Part(n, k) /\ draft[shown][k].req \in DOMAIN bubbles
             /\ n \notin DOMAIN sent
  <2>1. \A n, k : Part(n, k) /\ k \in DOMAIN draft[shown] => n \notin DOMAIN sent
    BY PressFacts, DraftFacts DEF Part
  <2>2. QED
    BY <2>1, PressFacts, SentParts DEF GuiInv, Real
<1>d. excused \subseteq excused' /\ wrongSide' = wrongSide
        /\ Target \in [Chats -> Chats \cup {NoTarget}]
      /\ pc = "pasted" /\ pc' = "idle" /\ outgoing' = outgoing /\ shown \in Chats
  BY PressFacts DEF Gui!Press, Gui!RoundEnds, Gui!GuiAssumption
<1>e. \A i \in DOMAIN bubbles : i \notin Forgiven' /\ Justified(i) /\ Gui!Has(handled, Asked(i))
        => Gui!Has(handled, Asked(i))'
  BY <1>d, PressRemembers, BubbleFacts DEF Forgiven, Justified
<1>f. \A i \in DOMAIN bubbles : msg.id = i /\ i \notin Forgiven' => Gui!Has(handled, Asked(i))'
  <2> SUFFICES ASSUME NEW i \in DOMAIN bubbles, msg.id = i, i \notin Forgiven'
               PROVE  Gui!Has(handled, Asked(i))'
    OBVIOUS
  <2>1. i \notin excused /\ i \notin wrongSide /\ Mine /\ Answering
    BY <1>d DEF Forgiven, Mine, Answering
  <2>2. msg.self = FALSE /\ msg.named = TRUE
        /\ msg.text = bubbles[i].text /\ target = Target[bubbles[i].chat]
    BY <2>1 DEF GuiInv, PeerAsked, MineRead, MineAimed, Gui!TypeOK
  <2>3. Gui!RequestFingerprint = Asked(i)
    BY <2>2 DEF Gui!RequestFingerprint, Asked
  <2>4. QED
    BY <1>b, <2>3, PressRemembers DEF Gui!Has, Asked
<1>1. Real'
  <2>1. Real
    BY DEF GuiInv
  <2>2. \A n \in DOMAIN sent' : sent'[n].req \in DOMAIN bubbles
    <3> SUFFICES ASSUME NEW n \in DOMAIN sent' PROVE sent'[n].req \in DOMAIN bubbles
      OBVIOUS
    <3>1. CASE n \in DOMAIN sent
      BY <2>1, <3>1, SentParts DEF Real
    <3>2. CASE \E k \in DOMAIN draft[shown] : Part(n, k)
      BY <2>1, <3>2, PressFacts DEF Real, Part
    <3>3. QED
      BY <3>1, <3>2, SentParts
  <2>3. \A c \in Chats : \A k \in DOMAIN draft'[c] :
          k \in DOMAIN draft[c] /\ draft'[c][k] = draft[c][k]
    BY PressFacts
  <2>4. QED
    BY <2>1, <2>2, <2>3, PressFacts DEF Real
<1>2. Aimed'
  BY DEF GuiInv, Aimed, Gui!Press, Gui!RoundEnds
<1>3. MineAimed'
  BY DEF GuiInv, MineAimed, Mine, Gui!Press, Gui!RoundEnds
<1>4. MineRead'
  BY DEF GuiInv, MineRead, Mine, Gui!Press, Gui!RoundEnds
<1>5. DraftsAimed'
  BY <1>a, <1>b DEF GuiInv, DraftsAimed
<1>6. OwnRemembered'
  <2> SUFFICES ASSUME NEW i \in DOMAIN bubbles', bubbles'[i].from = "bridge", i \notin excused',
                      bubbles'[i].text # "file"
               PROVE  Gui!Has(outgoing, Words(i))'
    BY DEF OwnRemembered
  <2>1. CASE i \in DOMAIN bubbles
    BY <1>b, <1>d, <2>1 DEF GuiInv, OwnRemembered, Words
  <2>2. CASE i \notin DOMAIN bubbles
    <3>1. i = Len(bubbles) + 1 /\ bubbles'[i] = Gui!Bubble(draft[shown]) /\ draft[shown] # <<>>
      BY <2>2, PressFacts
    <3>2. ~meddled /\ Target[shown] = target /\ ~(Len(draft[shown]) > 1)
      BY <3>1 DEF Gui!Press
    <3>3. Len(draft[shown]) = 1 /\ DOMAIN draft[shown] = {1}
      <4>1. draft[shown] \in Seq(DraftType) /\ Len(draft[shown]) \in Nat
              /\ DOMAIN draft[shown] = 1..Len(draft[shown])
        BY <1>d, DraftFacts
      <4>2. Len(draft[shown]) # 0
        BY <3>1, <4>1
      <4>3. Len(draft[shown]) = 1
        <5>1. Len(draft[shown]) \in Nat /\ Len(draft[shown]) # 0 /\ ~(Len(draft[shown]) > 1)
          BY <3>2, <4>1, <4>2
        <5>2. \A m \in Nat : m # 0 /\ ~(m > 1) => m = 1
          OBVIOUS
        <5>3. QED
          BY <5>1, <5>2
      <4>4. QED
        BY <4>1, <4>3
    <3>4. draft[shown][1].text = reply
      BY <1>d, <3>2, <3>3 DEF GuiInv, Pasted
    <3>5. bubbles'[i].text = reply /\ bubbles'[i].chat = shown
      BY <3>1, <3>3, <3>4 DEF Gui!Bubble
    <3>6. Gui!Has(outgoing, <<target, reply>>)
      BY <1>d, <3>5 DEF GuiInv, ReplyRemembered, Answering
    <3>7. QED
      BY <1>d, <3>2, <3>5, <3>6 DEF Words
  <2>3. QED
    BY <2>1, <2>2
<1>7. ReplyRemembered'
  BY DEF GuiInv, ReplyRemembered, Answering, Gui!Press, Gui!RoundEnds
<1>8. Pasted'
  BY DEF GuiInv, Pasted, Gui!Press, Gui!RoundEnds
<1>9. DraftsJustified'
  BY <1>a, <1>b, <1>d DEF GuiInv, DraftsJustified, Justified
<1>10. MineJustified'
  BY DEF GuiInv, MineJustified, Answering, Gui!Press, Gui!RoundEnds
<1>11. SentHandled'
  <2> SUFFICES ASSUME NEW n \in DOMAIN sent', sent'[n].req \notin Forgiven'
               PROVE  Gui!Has(handled, Asked(sent[n].req))'
    BY DEF SentHandled
  <2>1. CASE n \in DOMAIN sent /\ sent'[n] = sent[n] /\ sent[n].req \in DOMAIN bubbles
    <3>1. Justified(sent[n].req)
      BY <2>1 DEF GuiInv, NoEcho, Justified
    <3>2. sent[n].req \notin Forgiven
      BY <1>d, <2>1 DEF Forgiven
    <3>3. Gui!Has(handled, Asked(sent[n].req))
      BY <2>1, <3>2 DEF GuiInv, SentHandled
    <3>4. QED
      BY <1>e, <2>1, <3>1, <3>3
  <2>2. CASE \E k \in DOMAIN draft[shown] : Part(n, k) /\ draft[shown][k].req \in DOMAIN bubbles
    <3>1. PICK k \in DOMAIN draft[shown] : Part(n, k) /\ draft[shown][k].req \in DOMAIN bubbles
      BY <2>2
    <3>2. Justified(draft[shown][k].req) /\ sent'[n].req = draft[shown][k].req
      BY <1>d, <3>1 DEF GuiInv, DraftsJustified, Part
    <3>3. draft[shown][k].req \notin Forgiven
      BY <1>d, <3>2 DEF Forgiven
    <3>4. Gui!Has(handled, Asked(draft[shown][k].req)) \/ msg.id = draft[shown][k].req
      BY <1>d, <3>3 DEF GuiInv, DraftHandled
    <3>5. QED
      BY <1>e, <1>f, <3>1, <3>2, <3>4
  <2>3. QED
    BY <1>c, <2>1, <2>2
<1>12. DraftHandled'
  <2> SUFFICES ASSUME NEW c \in Chats, NEW k \in DOMAIN draft'[c], draft'[c][k].req \notin Forgiven'
               PROVE Gui!Has(handled, Asked(draft[c][k].req))'
    BY DEF DraftHandled
  <2>1. Justified(draft[c][k].req) /\ draft[c][k].req \in DOMAIN bubbles
          /\ draft'[c][k] = draft[c][k] /\ k \in DOMAIN draft[c]
    BY <1>a DEF GuiInv, DraftsJustified
  <2>2. draft[c][k].req \notin Forgiven
    BY <1>d, <2>1 DEF Forgiven
  <2>3. Gui!Has(handled, Asked(draft[c][k].req)) \/ msg.id = draft[c][k].req
    BY <2>1, <2>2 DEF GuiInv, DraftHandled
  <2>4. QED
    BY <1>e, <1>f, <2>1, <2>3
<1>13. Unanswered'
  BY DEF GuiInv, Unanswered, Gui!Press, Gui!RoundEnds
<1>14. DraftOnce'
  BY <1>a, <1>d DEF GuiInv, DraftOnce, Forgiven
<1>15. NotBoth'
  <2> SUFFICES ASSUME NEW n \in DOMAIN sent', NEW c \in Chats, NEW k \in DOMAIN draft'[c],
                      sent'[n].req = draft'[c][k].req
               PROVE  sent'[n].req \in Forgiven'
    BY DEF NotBoth
  <2>1. CASE n \in DOMAIN sent /\ sent'[n] = sent[n]
    BY <1>a, <1>d, <2>1 DEF GuiInv, NotBoth, Forgiven
  <2>2. CASE \E l \in DOMAIN draft[shown] : Part(n, l)
    BY <1>a, <1>d, <2>2 DEF GuiInv, DraftOnce, Part, Forgiven
  <2>3. QED
    BY <1>c, <2>1, <2>2
<1>16. PeerAsked'
  BY DEF GuiInv, PeerAsked, Answering, Gui!Press, Gui!RoundEnds
<1>17. NoEcho'
  <2>1. \A n \in DOMAIN sent' : Justified(sent'[n].req) /\ sent'[n].req \in DOMAIN bubbles
    BY <1>c, <1>d DEF GuiInv, NoEcho, DraftsJustified, Justified, Part
  <2>2. QED
    BY <1>b, <1>d, <2>1 DEF NoEcho, Justified
<1>18. AnsweredOnce'
  <2> SUFFICES ASSUME NEW n \in DOMAIN sent', NEW m \in DOMAIN sent',
                      sent'[n].req = sent'[m].req, n # m
               PROVE  sent'[n].req \in Forgiven'
    BY DEF AnsweredOnce, Forgiven
  <2>1. CASE n \in DOMAIN sent /\ sent'[n] = sent[n] /\ m \in DOMAIN sent /\ sent'[m] = sent[m]
    BY <1>d, <2>1 DEF GuiInv, AnsweredOnce, Forgiven
  <2>2. ASSUME NEW a \in DOMAIN sent, sent'[a] = sent[a], NEW b \in DOMAIN sent',
               NEW l \in DOMAIN draft[shown], Part(b, l),
               sent'[a].req = sent'[b].req
        PROVE  sent'[a].req \in Forgiven'
    BY <1>d, <2>2 DEF GuiInv, NotBoth, Part, Forgiven
  <2>3. ASSUME NEW k \in DOMAIN draft[shown], Part(n, k), NEW l \in DOMAIN draft[shown], Part(m, l)
        PROVE  sent'[n].req \in Forgiven'
    BY <1>d, <2>3 DEF GuiInv, DraftOnce, Part, Forgiven
  <2>4. QED
    BY <1>c, <2>1, <2>2, <2>3
<1>19. RightChat'
  <2> SUFFICES ASSUME NEW n \in DOMAIN sent'
               PROVE  (<<sent[n].to, Target[bubbles[sent[n].req].chat]>> \in Alike \/ sent[n].meddled)'
    BY DEF RightChat
  <2>1. CASE n \in DOMAIN sent /\ sent'[n] = sent[n] /\ sent[n].req \in DOMAIN bubbles
    BY <1>b, <2>1 DEF GuiInv, RightChat
  <2>2. CASE \E k \in DOMAIN draft[shown] : Part(n, k) /\ draft[shown][k].req \in DOMAIN bubbles
    <3>1. PICK k \in DOMAIN draft[shown] : Part(n, k) /\ draft[shown][k].req \in DOMAIN bubbles
      BY <2>2
    <3>2. \/ <<shown, Target[bubbles[draft[shown][k].req].chat]>> \in Alike
          \/ draft[shown][k].meddled
      BY <1>d DEF GuiInv, DraftsAimed, Passes
    <3>3. /\ sent'[n].to = shown /\ sent'[n].req = draft[shown][k].req
          /\ sent'[n].meddled = (meddled \/ draft[shown][k].meddled)
               /\ draft[shown][k].meddled \in BOOLEAN
      BY <1>d, <3>1, DraftFacts DEF Part
    <3>4. CASE draft[shown][k].meddled
      BY <3>3, <3>4
    <3>5. CASE ~draft[shown][k].meddled
      BY <1>b, <3>1, <3>2, <3>3, <3>5
    <3>6. QED
      BY <3>4, <3>5
  <2>3. QED
    BY <1>c, <2>1, <2>2
<1>20. QED
  BY <1>1, <1>2, <1>3, <1>4, <1>5, <1>6, <1>7, <1>8, <1>9, <1>10, <1>11, <1>12, <1>13, <1>14,
     <1>15, <1>16, <1>17, <1>18, <1>19
  DEF GuiInv

\* A restart forgets the caches, and excuses every bubble.
LEMMA RestartStep ==
  ASSUME Gui!TypeOK, Held, Targeted, GuiInv, Gui!Restart
  PROVE  GuiInv'
<1>1. Real'
  BY DEF GuiInv, Real, Gui!window, Gui!Restart
<1>2. Aimed'
  BY DEF GuiInv, Aimed, Gui!Restart, Gui!RoundEnds
<1>3. MineAimed'
  BY DEF GuiInv, MineAimed, Mine, Gui!Restart, Gui!RoundEnds
<1>4. MineRead'
  BY DEF GuiInv, MineRead, Mine, Gui!Restart, Gui!RoundEnds
<1>5. DraftsAimed'
  BY DEF GuiInv, DraftsAimed, Gui!window, Gui!Restart
<1>6. OwnRemembered'
  BY DEF GuiInv, OwnRemembered, Gui!window, Gui!Restart
<1>7. ReplyRemembered'
  BY DEF GuiInv, ReplyRemembered, Answering, Gui!Restart, Gui!RoundEnds
<1>8. Pasted'
  BY DEF GuiInv, Pasted, Gui!Restart, Gui!RoundEnds
<1>9. DraftsJustified'
  BY DEF GuiInv, DraftsJustified, Justified, Real, Gui!window, Gui!Restart
<1>10. MineJustified'
  BY DEF GuiInv, MineJustified, Answering, Gui!Restart, Gui!RoundEnds
<1>11. SentHandled'
  BY DEF GuiInv, SentHandled, Forgiven, Real, Gui!Restart
<1>12. DraftHandled'
  BY DEF GuiInv, DraftHandled, Forgiven, Real, Gui!window, Gui!Restart
<1>13. Unanswered'
  BY DEF GuiInv, Unanswered, Forgiven, Real, Gui!window, Gui!Restart
<1>14. DraftOnce'
  BY DEF GuiInv, DraftOnce, Forgiven, Real, Gui!window, Gui!Restart
<1>15. NotBoth'
  BY DEF GuiInv, NotBoth, Forgiven, Real, Gui!Restart
<1>16. PeerAsked'
  BY DEF GuiInv, PeerAsked, Answering, Gui!Restart, Gui!RoundEnds
<1>17. NoEcho'
  BY DEF GuiInv, NoEcho, Real, Gui!window, Gui!Restart
<1>18. AnsweredOnce'
  BY DEF GuiInv, AnsweredOnce, Real, Gui!Restart
<1>19. RightChat'
  BY DEF GuiInv, RightChat, Gui!window, Gui!Restart
<1>20. QED
  BY <1>1, <1>2, <1>3, <1>4, <1>5, <1>6, <1>7, <1>8, <1>9, <1>10, <1>11, <1>12, <1>13, <1>14,
     <1>15, <1>16, <1>17, <1>18, <1>19
  DEF GuiInv

(***************************************************************************)
(* The theorems about the GUI bridge.                                      *)
(***************************************************************************)
\* Nothing is written, read or sent at first.
LEMMA StartInv ==
  ASSUME Gui!GuiAssumption
  PROVE  Gui!Init => RoundInv /\ GuiInv
<1> SUFFICES ASSUME Gui!Init PROVE RoundInv /\ GuiInv
  OBVIOUS
<1>1. Gui!TypeOK
  <2>1. /\ shown \in Chats
             /\ bubbles \in Seq([chat : Chats, from : {"peer", "bridge"}, text : Gui!Written])
        /\ draft \in [Chats -> Seq([req : Nat \ {0}, text : Gui!Replies, meddled : BOOLEAN])]
    BY DEF Gui!Init
  <2>2. pc = "idle" /\ target \in Chats \cup {NoTarget} /\ reply \in Gui!Replies
        /\ msg \in [id : Nat, text : Gui!Written, self : BOOLEAN, named : BOOLEAN, pos : Positions \cup {0}]
    BY DEF Gui!Init, Gui!NoMessage, Gui!Written, Gui!Replies
  <2>3. /\ seen \in Seq(Chats \X Gui!Written \X BOOLEAN \X BOOLEAN \X Positions)
        /\ handled \in Seq(Chats \X Gui!Written \X BOOLEAN \X BOOLEAN)
             /\ outgoing \in Seq(Chats \X Gui!Replies)
    BY DEF Gui!Init
  <2>4. {Len(seen), Len(handled), Len(outgoing)} \subseteq 0..Capacity
    BY DEF Gui!GuiAssumption, Gui!Init
  <2>5. /\ misreads \in Nat /\ faults \in Nat /\ switches \in Nat
        /\ meddled \in BOOLEAN /\ wrongSide \subseteq Nat /\ excused \subseteq Nat
    BY DEF Gui!Init
  <2>6. sent \in Seq(SentType)
    BY DEF Gui!Init
  <2>7. QED
    BY <2>1, <2>2, <2>3, <2>4, <2>5, <2>6 DEF Gui!TypeOK, SentType
<1>2. Held /\ Targeted
  BY DEF Gui!Init, Held, Targeted, Mine
<1>3. GuiInv
  BY
  DEF Gui!Init, GuiInv, Real, Aimed, MineAimed, MineRead, DraftsAimed, OwnRemembered,
      ReplyRemembered, Pasted, DraftsJustified, MineJustified, SentHandled, DraftHandled,
      Unanswered, DraftOnce, NotBoth, PeerAsked, NoEcho, AnsweredOnce, RightChat,
      Mine, Answering
<1>4. QED
  BY <1>1, <1>2, <1>3 DEF RoundInv

\* Every step keeps the types.
LEMMA RoundStep ==
  ASSUME Gui!GuiAssumption, RoundInv, [Gui!Next]_(Gui!vars) PROVE RoundInv'
<1> USE DEF RoundInv
<1>1. ASSUME NEW c \in Chats, NEW text \in Texts, Gui!PeerWrites(c, text) PROVE RoundInv'
  BY <1>1, PeerWritesType
<1>2. ASSUME NEW c \in Chats, Gui!Switch(c) PROVE RoundInv'
  BY <1>2, SwitchType
<1>3. CASE Gui!Loop
  BY <1>3, LookType, ReadType, NothingToReadType, SkipType, AnswerType, AnswerFailsType,
     CheckType, PasteType, PressType
  DEF Gui!Loop
<1>4. CASE Gui!Restart
  BY <1>4, RestartType
<1>5. CASE UNCHANGED Gui!vars
  BY <1>5
  DEF Gui!vars, Gui!window, Gui!round, Gui!caches, Gui!limits, Gui!history, Gui!TypeOK, Held,
      Targeted, Mine
<1>6. QED
  BY <1>1, <1>2, <1>3, <1>4, <1>5 DEF Gui!Next, Gui!People

\* Every step keeps the invariant.
LEMMA GuiStep ==
  ASSUME Gui!GuiAssumption, RoundInv, GuiInv, [Gui!Next]_(Gui!vars) PROVE GuiInv'
<1> USE DEF RoundInv
<1>1. ASSUME NEW c \in Chats, NEW text \in Texts, Gui!PeerWrites(c, text) PROVE GuiInv'
  BY <1>1, PeerWritesStep
<1>2. ASSUME NEW c \in Chats, Gui!Switch(c) PROVE GuiInv'
  BY <1>2, SwitchStep
<1>3. CASE Gui!NothingToRead \/ Gui!Skip \/ Gui!AnswerFails
  <2>1. pc # "pasted" /\ pc' = "idle"
          /\ UNCHANGED <<Gui!window, handled, outgoing, sent, wrongSide, excused>>
    BY <1>3 DEF Gui!NothingToRead, Gui!Skip, Gui!AnswerFails, Gui!RoundEnds, Gui!caches
  <2>2. QED
    BY <2>1, EndsStep
<1>4. CASE Gui!Check
  <2>1. pc = "ready" /\ UNCHANGED <<Gui!window, Gui!caches, sent, wrongSide, excused>>
    BY <1>4 DEF Gui!Check
  <2>2. \/ /\ pc' = "checked" /\ UNCHANGED Gui!round
           /\ (Gui!TitleMatches /\ meddled' = meddled) \/ meddled' = TRUE
        \/ Gui!RoundEnds
    BY <1>4, Zenon DEF Gui!Check
  <2>3. CASE /\ pc' = "checked" /\ UNCHANGED Gui!round
             /\ (Gui!TitleMatches /\ meddled' = meddled) \/ meddled' = TRUE
    BY <2>1, <2>3, CheckedStep
  <2>4. CASE Gui!RoundEnds
    BY <2>1, <2>4, EndsStep DEF Gui!RoundEnds, Gui!caches
  <2>5. QED
    BY <2>2, <2>3, <2>4
<1>5. CASE Gui!Look \/ Gui!Read \/ Gui!Answer \/ Gui!Paste \/ Gui!Press \/ Gui!Restart
  BY <1>5, LookStep, ReadStep, AnswerStep, PasteStep, PressStep, RestartStep
<1>6. CASE UNCHANGED Gui!vars
  <2>1. Real'
    BY <1>6 DEF Gui!vars, Gui!window, Gui!history, GuiInv, Real
  <2>2. Aimed'
    BY <1>6 DEF Gui!vars, Gui!window, Gui!round, Gui!history, GuiInv, Aimed
  <2>3. MineAimed'
    BY <1>6 DEF Gui!vars, Gui!window, Gui!round, Gui!history, GuiInv, MineAimed, Mine
  <2>4. MineRead'
    BY <1>6 DEF Gui!vars, Gui!window, Gui!round, Gui!history, GuiInv, MineRead, Mine
  <2>5. DraftsAimed'
    BY <1>6 DEF Gui!vars, Gui!window, GuiInv, DraftsAimed
  <2>6. OwnRemembered'
    BY <1>6 DEF Gui!vars, Gui!window, Gui!caches, Gui!history, GuiInv, OwnRemembered, Words
  <2>7. ReplyRemembered'
    BY <1>6 DEF Gui!vars, Gui!round, Gui!caches, GuiInv, ReplyRemembered, Answering
  <2>8. Pasted'
    BY <1>6 DEF Gui!vars, Gui!window, Gui!round, Gui!history, GuiInv, Pasted
  <2>9. DraftsJustified'
    BY <1>6 DEF Gui!vars, Gui!window, Gui!history, GuiInv, DraftsJustified, Justified
  <2>10. MineJustified'
    BY <1>6
    DEF Gui!vars, Gui!window, Gui!round, Gui!history, GuiInv, MineJustified, Answering,
        Justified
  <2>11. SentHandled'
    BY <1>6 DEF Gui!vars, Gui!window, Gui!caches, Gui!history, GuiInv, SentHandled, Forgiven, Asked
  <2>12. DraftHandled'
    BY <1>6
    DEF Gui!vars, Gui!window, Gui!round, Gui!caches, Gui!history, GuiInv, DraftHandled,
        Forgiven, Asked
  <2>13. Unanswered'
    BY <1>6 DEF Gui!vars, Gui!window, Gui!round, Gui!history, GuiInv, Unanswered, Forgiven
  <2>14. DraftOnce'
    BY <1>6 DEF Gui!vars, Gui!window, Gui!history, GuiInv, DraftOnce, Forgiven
  <2>15. NotBoth'
    BY <1>6 DEF Gui!vars, Gui!window, Gui!history, GuiInv, NotBoth, Forgiven
  <2>16. PeerAsked'
    BY <1>6 DEF Gui!vars, Gui!round, GuiInv, PeerAsked, Answering
  <2>17. NoEcho'
    BY <1>6 DEF Gui!vars, Gui!window, Gui!history, GuiInv, NoEcho
  <2>18. AnsweredOnce'
    BY <1>6 DEF Gui!vars, Gui!history, GuiInv, AnsweredOnce
  <2>19. RightChat'
    BY <1>6 DEF Gui!vars, Gui!window, Gui!history, GuiInv, RightChat
  <2>20. QED
    BY <2>1, <2>2, <2>3, <2>4, <2>5, <2>6, <2>7, <2>8, <2>9, <2>10, <2>11, <2>12, <2>13,
       <2>14, <2>15, <2>16, <2>17, <2>18, <2>19
    DEF GuiInv
<1>7. QED
  BY <1>1, <1>2, <1>3, <1>4, <1>5, <1>6 DEF Gui!Next, Gui!People, Gui!Loop

\* Every variable keeps its type, and the rounds, drafts, caches and sent replies agree,
\* whatever people write, the OCR misreads, the user shows and the caches forget.
THEOREM GuiCorrect ==
  ASSUME Gui!GuiAssumption
  PROVE  Gui!Spec => [](RoundInv /\ GuiInv)
<1>1. RoundInv /\ GuiInv /\ [Gui!Next]_(Gui!vars) => (RoundInv /\ GuiInv)'
  BY RoundStep, GuiStep
<1>2. QED
  BY <1>1, StartInv, PTL DEF Gui!Spec

\* The bridge answers a message of its own only if its side was misread and its text is
\* not among those that it remembers.
THEOREM EchoCorrect ==
  ASSUME Gui!GuiAssumption
  PROVE  Gui!Spec => []NoEcho
<1>1. GuiInv => NoEcho
  BY DEF GuiInv
<1>2. QED
  BY <1>1, GuiCorrect, PTL

\* A message has one answer, unless it was misread, evicted from a cache, or in the draft
\* that an exception left.
THEOREM AnswerCorrect ==
  ASSUME Gui!GuiAssumption
  PROVE  Gui!Spec => []AnsweredOnce
<1>1. GuiInv => AnsweredOnce
  BY DEF GuiInv
<1>2. QED
  BY <1>1, GuiCorrect, PTL

\* An answer goes to the target of its message, unless the user switched chats after the
\* title was read.
THEOREM ChatCorrect ==
  ASSUME Gui!GuiAssumption
  PROVE  Gui!Spec => []RightChat
<1>1. GuiInv => RightChat
  BY DEF GuiInv
<1>2. QED
  BY <1>1, GuiCorrect, PTL
=============================================================================
