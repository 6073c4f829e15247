------------------------ MODULE ConnectionSwitch_proofs ------------------------
(***************************************************************************)
(* Proofs about ConnectionSwitch.tla, for any connections, administrators, *)
(* edits, switches and faults.                                             *)
(***************************************************************************)
EXTENDS ConnectionSwitch, FiniteSetTheorems, TLAPS

(***************************************************************************)
(* The inductive invariant.                                                *)
(***************************************************************************)
\* What is selected is listed, and goes back to what was confirmed before.
Selection ==
  /\ \A c \in active : listed[c] = "listed"
  /\ pending # NoPending =>
       /\ pending.cand \in Connections /\ pending.prev = confirmed
       /\ active = {pending.cand}
       /\ pending.prev # NoConnection => listed[pending.prev] = "listed"
  /\ pending = NoPending => active = IF confirmed = NoConnection THEN {} ELSE {confirmed}

\* A bridge that is about to import or to report has read a connection.
BridgeReads == bridge.at \in {"starting", "up"} => bridge.conn \in Connections

\* A version that is the probed one stands for the probed credentials.
ProbeFresh ==
  \A a \in Admins :
    probe[a].at = "probing" =>
      /\ probe[a].conn \in Connections /\ listed[probe[a].conn] # "absent"
      /\ probe[a].version <= version[probe[a].conn]
      /\ version[probe[a].conn] = probe[a].version /\ ~probe[a].imported =>
           cred[probe[a].conn] = probe[a].cred

SwitchInv == Selection /\ BridgeReads /\ ProbeFresh /\ ActivatedAsProbed

(***************************************************************************)
(* Types.                                                                  *)
(***************************************************************************)
\* Sets of commands are finite.
LEMMA CountIsNat ==
  ASSUME NEW S \in SUBSET CommandIds
  PROVE  Cardinality(S) \in Nat
<1>1. IsFiniteSet(CommandIds)
  BY SwitchAssumption, FS_Interval DEF CommandIds
<1>2. QED
  BY <1>1, FS_Subset, FS_CardinalityType

\* The number of an activation.
LEMMA LastActivationType == LastActivation \in Nat
<1>1. {k \in Issued : queue[k].reason = "activation"} \in SUBSET CommandIds
  BY DEF Issued
<1>2. QED
  BY <1>1, CountIsNat DEF LastActivation

\* The types of what a switch writes.
PendingType ==
  [cand : Connections \cup {NoConnection}, prev : Connections \cup {NoConnection}, id : Nat]
BridgeType ==
  [at : {"down", "reading", "starting", "up"}, conn : Connections \cup {NoConnection},
   cred : Credentials, bot : Bots \cup {NoBot}, blind : BOOLEAN, aside : BOOLEAN]
QueueType == [CommandIds -> [reason : {"none", "activation", "rollback"}, id : Nat]]
RowType == [CommandIds -> {"none", "PENDING", "RUNNING", "SUCCEEDED", "FAILED"}]

\* The null values have their types.
LEMMA NullTypes ==
  /\ Down \in BridgeType /\ [Down EXCEPT !.at = "reading"] \in BridgeType
  /\ NoPending \in PendingType
<1>1. 0 \in Credentials
  BY SwitchAssumption DEF Credentials
<1>2. QED
  BY <1>1 DEF Down, NoPending, BridgeType, PendingType

\* Issuing a command adds one row.
LEMMA IssueType ==
  ASSUME TypeOK, NEW reason \in {"activation", "rollback"}, NEW id \in Nat,
         NEW rest \in RowType, Issue(reason, id, rest)
  PROVE  queue' \in QueueType /\ row' \in RowType
<1> DEFINE n == Cardinality(Issued) + 1
<1>1. /\ queue' = [queue EXCEPT ![n] = [reason |-> reason, id |-> id]]
      /\ row' = [rest EXCEPT ![n] = "PENDING"]
  BY DEF Issue
<1>2. queue \in QueueType
  BY DEF TypeOK, QueueType
<1>3. [reason |-> reason, id |-> id] \in [reason : {"none", "activation", "rollback"}, id : Nat]
  OBVIOUS
<1> HIDE DEF n
<1>4. queue' \in QueueType
  BY <1>1, <1>2, <1>3 DEF QueueType
<1>5. row' \in RowType
  BY <1>1 DEF RowType
<1>6. QED
  BY <1>4, <1>5

\* Undoing a switch keeps the types.
LEMMA RollBackType ==
  ASSUME TypeOK, NEW c \in Connections, NEW rest \in RowType, RollBack(c, rest),
         probe' = probe, work' = work, bridge' = bridge, faults' \in Nat
  PROVE  TypeOK'
<1>1. active' \subseteq Connections
  BY DEF RollBack
<1>2. version' \in [Connections -> Nat]
  BY DEF RollBack, TypeOK
<1>3. pending' \in PendingType
  BY NullTypes DEF RollBack
<1>4. queue' \in QueueType /\ row' \in RowType
  <2>1. pending.id \in Nat
    BY DEF TypeOK
  <2>2. Issue("rollback", pending.id, rest)
    BY DEF RollBack, RollbackRestart
  <2>3. QED
    BY <2>1, <2>2, IssueType
<1>5. QED
  BY <1>1, <1>2, <1>3, <1>4 DEF RollBack, TypeOK, PendingType, QueueType, RowType

\* Initial types.
LEMMA InitType == Init => TypeOK
BY SwitchAssumption DEF Init, TypeOK, NoPending, Idle, Down, NoCommand, Credentials

\* What a bridge that boots has read.
LEMMA ReadEffect ==
  ASSUME ReadSelection
  PROVE  /\ bridge'.at = "starting" /\ UNCHANGED <<rows, selection, probe, commands>>
         /\ \/ \E c \in Connections :
                 Credentialed(c) /\ bridge'.conn = c /\ bridge'.cred = cred[c]
            \/ (~\E c \in Connections : Credentialed(c)) /\ bridge'.cred = 0
            \/ bridge'.blind /\ bridge'.cred = 0
<1>1. ASSUME NEW c, NEW x, NEW b
      PROVE  /\ Reads(c, x, b).at = "starting" /\ Reads(c, x, b).conn = c /\ Reads(c, x, b).cred = x
             /\ LET y == [Reads(c, x, b) EXCEPT !.blind = TRUE] IN
                y.at = "starting" /\ y.blind /\ y.cred = x
  BY DEF Reads, Down
<1>2. CASE \E c \in Connections : Credentialed(c) /\ bridge' = Reads(c, cred[c], bot[c])
  BY <1>1, <1>2 DEF ReadSelection
<1>3. CASE (~\E c \in Connections : Credentialed(c)) /\ bridge' = Reads(Env, 0, EnvBot)
  BY <1>1, <1>3 DEF ReadSelection
<1>4. CASE bridge' = [Reads(Env, 0, EnvBot) EXCEPT !.blind = TRUE]
  BY <1>1, <1>4 DEF ReadSelection
<1>5. QED
  BY <1>2, <1>3, <1>4, Zenon DEF ReadSelection

\* Every step keeps the types.
LEMMA NextType ==
  ASSUME TypeOK, BridgeReads, ProbeFresh, [Next]_vars
  PROVE  TypeOK'
<1>1. ASSUME NEW c \in Connections, Create(c) PROVE TypeOK'
  BY <1>1, SwitchAssumption DEF Create, Unused, TypeOK, Credentials, selection, commands
<1>2. ASSUME NEW c \in Connections, Edit(c) PROVE TypeOK'
  BY <1>2, SwitchAssumption DEF Edit, Unused, TypeOK, Credentials, selection, commands
<1>3. ASSUME NEW c \in Connections, Rename(c) PROVE TypeOK'
  BY <1>3 DEF Rename, TypeOK, selection, commands
<1>4. ASSUME NEW c \in Connections, Delete(c) PROVE TypeOK'
  BY <1>4 DEF Delete, MayDelete, TypeOK, selection, commands
<1>5. ASSUME NEW a \in Admins, NEW c \in Connections, Probe(a, c) PROVE TypeOK'
  BY <1>5 DEF Probe, TypeOK, rows, selection, commands
<1>6. ASSUME NEW a \in Admins, ProbeEnds(a) PROVE TypeOK'
  BY <1>6, SwitchAssumption DEF ProbeEnds, Idle, TypeOK, Credentials, rows, selection, commands
<1>7. ASSUME NEW a \in Admins, Activate(a) PROVE TypeOK'
  <2> DEFINE c == probe[a].conn
  <2>1. LastActivation + 1 \in Nat
    BY LastActivationType
  <2>2. PICK prev \in Previous : pending' = [cand |-> c, prev |-> prev, id |-> LastActivation + 1]
    BY <1>7 DEF Activate
  <2>3. prev \in Connections \cup {NoConnection}
    BY <2>2 DEF Previous
  <2>4. c \in Connections
    BY <1>7 DEF Activate, ProbeFresh
  <2>5. pending' \in PendingType
    BY <2>1, <2>2, <2>3, <2>4 DEF PendingType
  <2>6. queue' \in QueueType /\ row' \in RowType
    <3>1. row \in RowType
      BY DEF TypeOK, RowType
    <3>2. QED
      BY <1>7, <2>1, <3>1, IssueType DEF Activate
  <2>7. active' \subseteq Connections /\ version' \in [Connections -> Nat]
    BY <1>7, <2>4 DEF Activate, TypeOK
  <2>8. tested' \subseteq Credentials
    BY <1>7 DEF Activate, TypeOK
  <2>9. probe' \in [Admins -> [at : {"none", "probing"}, conn : Connections \cup {NoConnection},
                              cred : Credentials, version : Nat, imported : BOOLEAN]]
    BY <1>7, SwitchAssumption DEF Activate, Idle, TypeOK, Credentials
  <2>10. QED
    BY <1>7, <2>5, <2>6, <2>7, <2>8, <2>9 DEF Activate, TypeOK, PendingType, QueueType, RowType
<1>8. ASSUME NEW a \in Admins, NotActivated(a) PROVE TypeOK'
  BY <1>8, SwitchAssumption DEF NotActivated, Idle, TypeOK, Credentials, rows, selection, commands
<1>9. ASSUME NEW k \in CommandIds, Claim(k) PROVE TypeOK'
  BY <1>9 DEF Claim, Fault, TypeOK, rows, selection
<1>10. ASSUME NEW k \in CommandIds, StopBridge(k) PROVE TypeOK'
  <2>1. bridge' \in BridgeType
    BY <1>10, NullTypes DEF StopBridge, TypeOK, BridgeType
  <2>2. work' \in [CommandIds -> {"none", "asked", "stopped", "done", "failed"}] /\ faults' \in Nat
    <3>1. faults' \in Nat
      BY <1>10 DEF StopBridge, Fault, TypeOK
    <3>2. \E w \in {"stopped", "failed"} : work' = [work EXCEPT ![k] = w]
      BY <1>10, Zenon DEF StopBridge
    <3>3. QED
      BY <3>1, <3>2 DEF TypeOK
  <2>3. QED
    BY <1>10, <2>1, <2>2 DEF StopBridge, TypeOK, BridgeType, rows, selection
<1>11. ASSUME NEW k \in CommandIds, StartBridge(k) PROVE TypeOK'
  <2>1. bridge' \in BridgeType
    <3>1. bridge' = [Down EXCEPT !.at = "reading"] \/ bridge' = bridge
      BY <1>11, Zenon DEF StartBridge
    <3>2. QED
      BY <3>1, NullTypes DEF TypeOK, BridgeType
  <2>2. work' \in [CommandIds -> {"none", "asked", "stopped", "done", "failed"}] /\ faults' \in Nat
    <3>1. faults' \in Nat
      BY <1>11 DEF StartBridge, Fault, TypeOK
    <3>2. \E w \in {"done", "failed"} : work' = [work EXCEPT ![k] = w]
      BY <1>11, Zenon DEF StartBridge
    <3>3. QED
      BY <3>1, <3>2 DEF TypeOK
  <2>3. QED
    BY <1>11, <2>1, <2>2 DEF StartBridge, TypeOK, BridgeType, rows, selection
<1>12. ASSUME NEW k \in CommandIds, Succeed(k) PROVE TypeOK'
  BY <1>12 DEF Succeed, TypeOK, rows, selection
<1>13. ASSUME NEW k \in CommandIds, Fail(k) PROVE TypeOK'
  BY <1>13 DEF Fail, RestartFailed, Fault, TypeOK, rows, selection
<1>14. ASSUME NEW k \in CommandIds, FailAndUndo(k) PROVE TypeOK'
  <2>1. [row EXCEPT ![k] = "FAILED"] \in RowType
    BY DEF TypeOK, RowType
  <2>2. faults' \in Nat
    BY <1>14 DEF FailAndUndo, RestartFailed, Fault, TypeOK
  <2>3. pending.cand \in Connections
    BY <1>14 DEF FailAndUndo, MustUndo, MayRollBack, Selected, TypeOK
  <2>4. QED
    BY <1>14, <2>1, <2>2, <2>3, RollBackType DEF FailAndUndo
<1>15. ASSUME StartByHand PROVE TypeOK'
  <2>1. bridge' \in BridgeType
    BY <1>15, NullTypes DEF StartByHand
  <2>2. QED
    BY <1>15, <2>1 DEF StartByHand, TypeOK, BridgeType, rows, selection, commands
<1>16. ASSUME ReadSelection PROVE TypeOK'
  <2>1. 0 \in Credentials /\ Env \in Connections
    BY SwitchAssumption DEF Credentials
  <2>2. bridge' \in BridgeType
    <3>1. ASSUME NEW c \in Connections, NEW x \in Credentials, NEW b \in Bots \cup {NoBot}
          PROVE  /\ Reads(c, x, b) \in BridgeType
                 /\ [Reads(c, x, b) EXCEPT !.blind = TRUE] \in BridgeType
      BY DEF Reads, Down, BridgeType
    <3>2. EnvBot \in Bots \cup {NoBot}
      BY SwitchAssumption
    <3>3. \A c \in Connections : cred[c] \in Credentials /\ bot[c] \in Bots \cup {NoBot}
      BY DEF TypeOK
    <3>4. \/ \E c \in Connections : bridge' = Reads(c, cred[c], bot[c])
          \/ bridge' = Reads(Env, 0, EnvBot)
          \/ bridge' = [Reads(Env, 0, EnvBot) EXCEPT !.blind = TRUE]
      BY <1>16, Zenon DEF ReadSelection
    <3>5. ASSUME NEW c \in Connections, bridge' = Reads(c, cred[c], bot[c])
          PROVE  bridge' \in BridgeType
      BY <3>1, <3>3, <3>5
    <3>6. CASE bridge' = Reads(Env, 0, EnvBot)
      BY <2>1, <3>1, <3>2, <3>6
    <3>7. CASE bridge' = [Reads(Env, 0, EnvBot) EXCEPT !.blind = TRUE]
      BY <2>1, <3>1, <3>2, <3>7
    <3>8. QED
      BY <3>4, <3>5, <3>6, <3>7, Zenon
  <2>3. faults' \in Nat
    BY <1>16 DEF ReadSelection, Fault, TypeOK
  <2>4. QED
    BY <1>16, <2>2, <2>3 DEF ReadSelection, TypeOK, BridgeType, rows, selection, commands
<1>17. ASSUME NEW r \in Connections, Import(r) PROVE TypeOK'
  <2>1. bridge.conn \in Connections /\ bridge.cred \in Credentials /\ bridge.bot \in Bots
    BY <1>17 DEF Import, Unused, BridgeReads, TypeOK
  <2>2. bridge' \in BridgeType
    BY <1>17 DEF Import, TypeOK, BridgeType
  <2>3. /\ active' \subseteq Connections /\ confirmed' \in Connections
        /\ listed' \in [Connections -> {"absent", "listed", "deleted"}]
        /\ cred' \in [Connections -> Credentials]
        /\ bot' \in [Connections -> Bots \cup {NoBot}]
    BY <1>17, <2>1 DEF Import, TypeOK
  <2>4. probe' \in [Admins -> [at : {"none", "probing"}, conn : Connections \cup {NoConnection},
                              cred : Credentials, version : Nat, imported : BOOLEAN]]
    <3>1. \A a \in Admins : probe'[a] = probe[a] \/ probe'[a] = [probe[a] EXCEPT !.imported = TRUE]
      BY <1>17 DEF Import
    <3>2. probe' = [a \in Admins |-> probe'[a]]
      BY <1>17 DEF Import
    <3>3. ASSUME NEW a \in Admins
          PROVE  probe'[a] \in [at : {"none", "probing"}, conn : Connections \cup {NoConnection},
                               cred : Credentials, version : Nat, imported : BOOLEAN]
      <4>1. probe[a] \in [at : {"none", "probing"}, conn : Connections \cup {NoConnection},
                          cred : Credentials, version : Nat, imported : BOOLEAN]
        BY DEF TypeOK
      <4>2. QED
        BY <3>1, <4>1
    <3>4. QED
      BY <3>2, <3>3
  <2>5. QED
    BY <1>17, <2>2, <2>3, <2>4 DEF Import, TypeOK, BridgeType, commands
<1>18. ASSUME NoImport PROVE TypeOK'
  <2>1. bridge' \in BridgeType /\ faults' \in Nat
    <3>1. faults' \in Nat
      BY <1>18 DEF NoImport, Fault, TypeOK
    <3>2. \/ bridge' = [bridge EXCEPT !.at = "up"]
          \/ bridge' = [bridge EXCEPT !.at = "up", !.aside = TRUE]
          \/ bridge' = [bridge EXCEPT !.at = "up", !.blind = TRUE]
      BY <1>18, Zenon DEF NoImport
    <3>3. bridge \in BridgeType
      BY DEF TypeOK, BridgeType
    <3>4. bridge' \in BridgeType
      BY <3>2, <3>3 DEF BridgeType
    <3>5. QED
      BY <3>1, <3>4
  <2>2. listed' \in [Connections -> {"absent", "listed", "deleted"}]
    BY <1>18 DEF NoImport, TypeOK
  <2>3. QED
    BY <1>18, <2>1, <2>2 DEF NoImport, TypeOK, BridgeType, selection, commands
<1>19. ASSUME Authenticated PROVE TypeOK'
  BY <1>19 DEF Authenticated, TypeOK, NoPending, rows, commands
<1>20. ASSUME AuthenticationFails PROVE TypeOK'
  <2>1. row \in RowType /\ faults' \in Nat
    BY <1>20 DEF AuthenticationFails, TypeOK, RowType
  <2>2. bridge.conn \in Connections
    BY <1>20 DEF AuthenticationFails, BridgeReads
  <2>3. QED
    BY <1>20, <2>1, <2>2, RollBackType DEF AuthenticationFails
<1>21. ASSUME Crash PROVE TypeOK'
  BY <1>21, SwitchAssumption DEF Crash, Fault, Down, TypeOK, Credentials, rows, selection, commands
<1>22. CASE UNCHANGED vars
  BY <1>22 DEF vars, TypeOK, rows, selection, commands
<1>23. QED
  BY <1>1, <1>2, <1>3, <1>4, <1>5, <1>6, <1>7, <1>8, <1>9, <1>10, <1>11, <1>12, <1>13, <1>14,
     <1>15, <1>16, <1>17, <1>18, <1>19, <1>20, <1>21, <1>22
  DEF Next, Console, Restarts, Bridge

\* The selection stays consistent.
LEMMA NextSelection ==
  ASSUME TypeOK, SwitchInv, [Next]_vars
  PROVE  Selection'
<1>1. ASSUME NEW c \in Connections, Create(c) PROVE Selection'
  BY <1>1 DEF Create, SwitchInv, Selection, selection
<1>2. ASSUME NEW c \in Connections, Edit(c) PROVE Selection'
  BY <1>2 DEF Edit, SwitchInv, Selection, selection
<1>3. ASSUME NEW c \in Connections, Rename(c) PROVE Selection'
  BY <1>3 DEF Rename, SwitchInv, Selection, selection
<1>4. ASSUME NEW c \in Connections, Delete(c) PROVE Selection'
  BY <1>4 DEF Delete, MayDelete, SwitchInv, Selection, selection
<1>5. ASSUME NEW a \in Admins, NEW c \in Connections, Probe(a, c) PROVE Selection'
  BY <1>5 DEF Probe, SwitchInv, Selection, rows, selection
<1>6. ASSUME NEW a \in Admins, ProbeEnds(a) PROVE Selection'
  BY <1>6 DEF ProbeEnds, SwitchInv, Selection, rows, selection
<1>7. ASSUME NEW a \in Admins, Activate(a) PROVE Selection'
  <2> DEFINE c == probe[a].conn
  <2>1. c \in Connections /\ listed[c] = "listed" /\ c # NoConnection
    BY <1>7, SwitchAssumption DEF Activate, Fresh, SwitchInv, ProbeFresh
  <2>2. PICK prev \in Previous : pending' = [cand |-> c, prev |-> prev, id |-> LastActivation + 1]
    BY <1>7 DEF Activate
  <2>3. active' = {c} /\ listed' = listed /\ confirmed' = confirmed
    BY <1>7 DEF Activate
  <2>4. active = IF confirmed = NoConnection THEN {} ELSE {confirmed}
    BY <1>7 DEF Activate, Free, SwitchInv, Selection
  <2>5. prev = confirmed /\ (prev # NoConnection => listed[prev] = "listed")
    BY <2>2, <2>4 DEF Previous, Selected, SwitchInv, Selection, TypeOK
  <2>6. pending'.cand = c /\ pending'.prev = prev /\ pending' # NoPending
    BY <2>1, <2>2 DEF NoPending
  <2>7. QED
    BY <2>1, <2>3, <2>5, <2>6 DEF Selection
<1>8. ASSUME NEW a \in Admins, NotActivated(a) PROVE Selection'
  BY <1>8 DEF NotActivated, SwitchInv, Selection, rows, selection
<1>9. ASSUME NEW k \in CommandIds, Claim(k) PROVE Selection'
  BY <1>9 DEF Claim, SwitchInv, Selection, rows, selection
<1>10. ASSUME NEW k \in CommandIds, StopBridge(k) PROVE Selection'
  BY <1>10 DEF StopBridge, SwitchInv, Selection, rows, selection
<1>11. ASSUME NEW k \in CommandIds, StartBridge(k) PROVE Selection'
  BY <1>11 DEF StartBridge, SwitchInv, Selection, rows, selection
<1>12. ASSUME NEW k \in CommandIds, Succeed(k) PROVE Selection'
  BY <1>12 DEF Succeed, SwitchInv, Selection, rows, selection
<1>13. ASSUME NEW k \in CommandIds, Fail(k) PROVE Selection'
  BY <1>13 DEF Fail, RestartFailed, SwitchInv, Selection, rows, selection
<1>14. ASSUME NEW k \in CommandIds, FailAndUndo(k) PROVE Selection'
  BY <1>14
  DEF FailAndUndo, RestartFailed, MustUndo, MayRollBack, RollBack, RollbackRestart, TypeOK,
      SwitchInv, Selection, NoPending
<1>15. ASSUME StartByHand PROVE Selection'
  BY <1>15 DEF StartByHand, SwitchInv, Selection, rows, selection
<1>16. ASSUME ReadSelection PROVE Selection'
  BY <1>16 DEF ReadSelection, SwitchInv, Selection, rows, selection
<1>17. ASSUME NEW r \in Connections, Import(r) PROVE Selection'
  BY <1>17, SwitchAssumption DEF Import, Selected, TypeOK, SwitchInv, Selection, BridgeReads
<1>18. ASSUME NoImport PROVE Selection'
  BY <1>18 DEF NoImport, SwitchInv, Selection, selection
<1>19. ASSUME Authenticated PROVE Selection'
  BY <1>19, SwitchAssumption DEF Authenticated, SwitchInv, Selection, BridgeReads, NoPending, rows
<1>20. ASSUME AuthenticationFails PROVE Selection'
  BY <1>20, SwitchAssumption
  DEF AuthenticationFails, MayRollBack, RollBack, RollbackRestart, Selected, TypeOK,
      SwitchInv, Selection, NoPending
<1>21. ASSUME Crash PROVE Selection'
  BY <1>21 DEF Crash, SwitchInv, Selection, rows, selection
<1>22. CASE UNCHANGED vars
  BY <1>22 DEF vars, SwitchInv, Selection, rows, selection
<1>23. QED
  BY <1>1, <1>2, <1>3, <1>4, <1>5, <1>6, <1>7, <1>8, <1>9, <1>10, <1>11, <1>12, <1>13, <1>14,
     <1>15, <1>16, <1>17, <1>18, <1>19, <1>20, <1>21, <1>22
  DEF Next, Console, Restarts, Bridge

\* The bridge has read a connection.
LEMMA NextReads ==
  ASSUME TypeOK, SwitchInv, [Next]_vars
  PROVE  BridgeReads'
<1>1. ASSUME NEW c \in Connections, Create(c) PROVE BridgeReads'
  BY <1>1 DEF Create, SwitchInv, BridgeReads
<1>2. ASSUME NEW c \in Connections, Edit(c) PROVE BridgeReads'
  BY <1>2 DEF Edit, SwitchInv, BridgeReads
<1>3. ASSUME NEW c \in Connections, Rename(c) PROVE BridgeReads'
  BY <1>3 DEF Rename, SwitchInv, BridgeReads
<1>4. ASSUME NEW c \in Connections, Delete(c) PROVE BridgeReads'
  BY <1>4 DEF Delete, MayDelete, SwitchInv, BridgeReads
<1>5. ASSUME NEW a \in Admins, NEW c \in Connections, Probe(a, c) PROVE BridgeReads'
  BY <1>5 DEF Probe, SwitchInv, BridgeReads
<1>6. ASSUME NEW a \in Admins, ProbeEnds(a) PROVE BridgeReads'
  BY <1>6 DEF ProbeEnds, SwitchInv, BridgeReads
<1>7. ASSUME NEW a \in Admins, Activate(a) PROVE BridgeReads'
  BY <1>7 DEF Activate, Fresh, Free, SwitchInv, BridgeReads
<1>8. ASSUME NEW a \in Admins, NotActivated(a) PROVE BridgeReads'
  BY <1>8 DEF NotActivated, SwitchInv, BridgeReads
<1>9. ASSUME NEW k \in CommandIds, Claim(k) PROVE BridgeReads'
  BY <1>9 DEF Claim, SwitchInv, BridgeReads
<1>10. ASSUME NEW k \in CommandIds, StopBridge(k) PROVE BridgeReads'
  BY <1>10 DEF StopBridge, Down, SwitchInv, BridgeReads
<1>11. ASSUME NEW k \in CommandIds, StartBridge(k) PROVE BridgeReads'
  BY <1>11 DEF StartBridge, Down, SwitchInv, BridgeReads
<1>12. ASSUME NEW k \in CommandIds, Succeed(k) PROVE BridgeReads'
  BY <1>12 DEF Succeed, SwitchInv, BridgeReads
<1>13. ASSUME NEW k \in CommandIds, Fail(k) PROVE BridgeReads'
  BY <1>13 DEF Fail, RestartFailed, SwitchInv, BridgeReads
<1>14. ASSUME NEW k \in CommandIds, FailAndUndo(k) PROVE BridgeReads'
  BY <1>14 DEF FailAndUndo, SwitchInv, BridgeReads
<1>15. ASSUME StartByHand PROVE BridgeReads'
  BY <1>15 DEF StartByHand, BridgeReads
<1>16. ASSUME ReadSelection PROVE BridgeReads'
  BY <1>16, SwitchAssumption DEF ReadSelection, Reads, Down, Credentialed, BridgeReads
<1>17. ASSUME NEW r \in Connections, Import(r) PROVE BridgeReads'
  BY <1>17 DEF Import, SwitchInv, BridgeReads
<1>18. ASSUME NoImport PROVE BridgeReads'
  <2>1. bridge.at = "starting"
    BY <1>18 DEF NoImport
  <2>2. bridge'.conn = bridge.conn
    <3>1. bridge \in BridgeType
      BY DEF TypeOK, BridgeType
    <3>2. \/ bridge' = [bridge EXCEPT !.at = "up"]
          \/ bridge' = [bridge EXCEPT !.at = "up", !.aside = TRUE]
          \/ bridge' = [bridge EXCEPT !.at = "up", !.blind = TRUE]
      BY <1>18, Zenon DEF NoImport
    <3>3. QED
      BY <3>1, <3>2 DEF BridgeType
  <2>3. QED
    BY <2>1, <2>2 DEF SwitchInv, BridgeReads
<1>19. ASSUME Authenticated PROVE BridgeReads'
  BY <1>19 DEF Authenticated, SwitchInv, BridgeReads
<1>20. ASSUME AuthenticationFails PROVE BridgeReads'
  BY <1>20 DEF AuthenticationFails, MayRollBack, RollBack, RollbackRestart, SwitchInv, BridgeReads
<1>21. ASSUME Crash PROVE BridgeReads'
  BY <1>21 DEF Crash, Down, BridgeReads
<1>22. CASE UNCHANGED vars
  BY <1>22 DEF vars, SwitchInv, BridgeReads
<1>23. QED
  BY <1>1, <1>2, <1>3, <1>4, <1>5, <1>6, <1>7, <1>8, <1>9, <1>10, <1>11, <1>12, <1>13, <1>14,
     <1>15, <1>16, <1>17, <1>18, <1>19, <1>20, <1>21, <1>22
  DEF Next, Console, Restarts, Bridge

\* Probes stay fresh, or can tell that they are not.
LEMMA NextProbe ==
  ASSUME TypeOK, SwitchInv, [Next]_vars
  PROVE  ProbeFresh'
<1>1. ASSUME NEW c \in Connections, Create(c) PROVE ProbeFresh'
  BY <1>1 DEF Create, SwitchInv, ProbeFresh
<1>2. ASSUME NEW c \in Connections, Edit(c) PROVE ProbeFresh'
  BY <1>2 DEF Edit, TypeOK, SwitchInv, ProbeFresh
<1>3. ASSUME NEW c \in Connections, Rename(c) PROVE ProbeFresh'
  BY <1>3 DEF Rename, TypeOK, SwitchInv, ProbeFresh
<1>4. ASSUME NEW c \in Connections, Delete(c) PROVE ProbeFresh'
  BY <1>4 DEF Delete, MayDelete, SwitchInv, ProbeFresh
<1>5. ASSUME NEW a \in Admins, NEW c \in Connections, Probe(a, c) PROVE ProbeFresh'
  BY <1>5 DEF Probe, TypeOK, SwitchInv, ProbeFresh, rows
<1>6. ASSUME NEW a \in Admins, ProbeEnds(a) PROVE ProbeFresh'
  BY <1>6 DEF ProbeEnds, Idle, SwitchInv, ProbeFresh, rows
<1>7. ASSUME NEW a \in Admins, Activate(a) PROVE ProbeFresh'
  BY <1>7 DEF Activate, Fresh, Free, Idle, TypeOK, SwitchInv, ProbeFresh
<1>8. ASSUME NEW a \in Admins, NotActivated(a) PROVE ProbeFresh'
  BY <1>8 DEF NotActivated, Idle, SwitchInv, ProbeFresh, rows
<1>9. ASSUME NEW k \in CommandIds, Claim(k) PROVE ProbeFresh'
  BY <1>9 DEF Claim, SwitchInv, ProbeFresh, rows
<1>10. ASSUME NEW k \in CommandIds, StopBridge(k) PROVE ProbeFresh'
  BY <1>10 DEF StopBridge, SwitchInv, ProbeFresh, rows
<1>11. ASSUME NEW k \in CommandIds, StartBridge(k) PROVE ProbeFresh'
  BY <1>11 DEF StartBridge, SwitchInv, ProbeFresh, rows
<1>12. ASSUME NEW k \in CommandIds, Succeed(k) PROVE ProbeFresh'
  BY <1>12 DEF Succeed, SwitchInv, ProbeFresh, rows
<1>13. ASSUME NEW k \in CommandIds, Fail(k) PROVE ProbeFresh'
  BY <1>13 DEF Fail, RestartFailed, SwitchInv, ProbeFresh, rows
<1>14. ASSUME NEW k \in CommandIds, FailAndUndo(k) PROVE ProbeFresh'
  BY <1>14
  DEF FailAndUndo, RestartFailed, MustUndo, MayRollBack, RollBack, RollbackRestart, TypeOK,
      SwitchInv, ProbeFresh
<1>15. ASSUME StartByHand PROVE ProbeFresh'
  BY <1>15 DEF StartByHand, SwitchInv, ProbeFresh, rows
<1>16. ASSUME ReadSelection PROVE ProbeFresh'
  BY <1>16 DEF ReadSelection, SwitchInv, ProbeFresh, rows
<1>17. ASSUME NEW r \in Connections, Import(r) PROVE ProbeFresh'
  BY <1>17 DEF Import, SwitchInv, ProbeFresh
<1>18. ASSUME NoImport PROVE ProbeFresh'
  BY <1>18 DEF NoImport, SwitchInv, ProbeFresh
<1>19. ASSUME Authenticated PROVE ProbeFresh'
  BY <1>19 DEF Authenticated, SwitchInv, ProbeFresh, rows
<1>20. ASSUME AuthenticationFails PROVE ProbeFresh'
  BY <1>20
  DEF AuthenticationFails, MayRollBack, RollBack, RollbackRestart, TypeOK, SwitchInv,
      ProbeFresh
<1>21. ASSUME Crash PROVE ProbeFresh'
  BY <1>21 DEF Crash, SwitchInv, ProbeFresh, rows
<1>22. CASE UNCHANGED vars
  BY <1>22 DEF vars, SwitchInv, ProbeFresh, rows
<1>23. QED
  BY <1>1, <1>2, <1>3, <1>4, <1>5, <1>6, <1>7, <1>8, <1>9, <1>10, <1>11, <1>12, <1>13, <1>14,
     <1>15, <1>16, <1>17, <1>18, <1>19, <1>20, <1>21, <1>22
  DEF Next, Console, Restarts, Bridge

\* The candidate keeps the credentials that were probed.
LEMMA NextProbed ==
  ASSUME TypeOK, SwitchInv, [Next]_vars
  PROVE  ActivatedAsProbed'
<1>1. ASSUME NEW c \in Connections, Create(c) PROVE ActivatedAsProbed'
  BY <1>1 DEF Create, SwitchInv, Selection, ActivatedAsProbed, selection
<1>2. ASSUME NEW c \in Connections, Edit(c) PROVE ActivatedAsProbed'
  BY <1>2 DEF Edit, SwitchInv, Selection, ActivatedAsProbed, selection
<1>3. ASSUME NEW c \in Connections, Rename(c) PROVE ActivatedAsProbed'
  BY <1>3 DEF Rename, SwitchInv, ActivatedAsProbed, selection
<1>4. ASSUME NEW c \in Connections, Delete(c) PROVE ActivatedAsProbed'
  BY <1>4 DEF Delete, MayDelete, SwitchInv, ActivatedAsProbed, selection
<1>5. ASSUME NEW a \in Admins, NEW c \in Connections, Probe(a, c) PROVE ActivatedAsProbed'
  BY <1>5 DEF Probe, SwitchInv, ActivatedAsProbed, rows, selection
<1>6. ASSUME NEW a \in Admins, ProbeEnds(a) PROVE ActivatedAsProbed'
  BY <1>6 DEF ProbeEnds, SwitchInv, ActivatedAsProbed, rows, selection
<1>7. ASSUME NEW a \in Admins, Activate(a) PROVE ActivatedAsProbed'
  BY <1>7 DEF Activate, Fresh, Free, SwitchInv, ProbeFresh, ActivatedAsProbed
<1>8. ASSUME NEW a \in Admins, NotActivated(a) PROVE ActivatedAsProbed'
  BY <1>8 DEF NotActivated, SwitchInv, ActivatedAsProbed, rows, selection
<1>9. ASSUME NEW k \in CommandIds, Claim(k) PROVE ActivatedAsProbed'
  BY <1>9 DEF Claim, SwitchInv, ActivatedAsProbed, rows, selection
<1>10. ASSUME NEW k \in CommandIds, StopBridge(k) PROVE ActivatedAsProbed'
  BY <1>10 DEF StopBridge, SwitchInv, ActivatedAsProbed, rows, selection
<1>11. ASSUME NEW k \in CommandIds, StartBridge(k) PROVE ActivatedAsProbed'
  BY <1>11 DEF StartBridge, SwitchInv, ActivatedAsProbed, rows, selection
<1>12. ASSUME NEW k \in CommandIds, Succeed(k) PROVE ActivatedAsProbed'
  BY <1>12 DEF Succeed, SwitchInv, ActivatedAsProbed, rows, selection
<1>13. ASSUME NEW k \in CommandIds, Fail(k) PROVE ActivatedAsProbed'
  BY <1>13 DEF Fail, RestartFailed, SwitchInv, ActivatedAsProbed, rows, selection
<1>14. ASSUME NEW k \in CommandIds, FailAndUndo(k) PROVE ActivatedAsProbed'
  BY <1>14
  DEF FailAndUndo, RestartFailed, MustUndo, MayRollBack, RollBack, RollbackRestart,
      ActivatedAsProbed
<1>15. ASSUME StartByHand PROVE ActivatedAsProbed'
  BY <1>15 DEF StartByHand, SwitchInv, ActivatedAsProbed, rows, selection
<1>16. ASSUME ReadSelection PROVE ActivatedAsProbed'
  BY <1>16 DEF ReadSelection, SwitchInv, ActivatedAsProbed, rows, selection
<1>17. ASSUME NEW r \in Connections, Import(r) PROVE ActivatedAsProbed'
  BY <1>17 DEF Import, Selected, SwitchInv, Selection, ActivatedAsProbed
<1>18. ASSUME NoImport PROVE ActivatedAsProbed'
  BY <1>18 DEF NoImport, SwitchInv, ActivatedAsProbed, selection
<1>19. ASSUME Authenticated PROVE ActivatedAsProbed'
  BY <1>19 DEF Authenticated, ActivatedAsProbed
<1>20. ASSUME AuthenticationFails PROVE ActivatedAsProbed'
  BY <1>20 DEF AuthenticationFails, MayRollBack, RollBack, RollbackRestart, ActivatedAsProbed
<1>21. ASSUME Crash PROVE ActivatedAsProbed'
  BY <1>21 DEF Crash, SwitchInv, ActivatedAsProbed, rows, selection
<1>22. CASE UNCHANGED vars
  BY <1>22 DEF vars, SwitchInv, ActivatedAsProbed, rows, selection
<1>23. QED
  BY <1>1, <1>2, <1>3, <1>4, <1>5, <1>6, <1>7, <1>8, <1>9, <1>10, <1>11, <1>12, <1>13, <1>14,
     <1>15, <1>16, <1>17, <1>18, <1>19, <1>20, <1>21, <1>22
  DEF Next, Console, Restarts, Bridge

(***************************************************************************)
(* The theorems.                                                           *)
(***************************************************************************)
\* The invariant holds at first: nothing is selected, nobody probes.
LEMMA InitInv == Init => SwitchInv
BY DEF Init, SwitchInv, Selection, BridgeReads, ProbeFresh, ActivatedAsProbed, Idle, Down

\* The types and the invariant, in every behaviour: edits, probes, switches, restarts that
\* fail, authentication events and the boots of the bridge, in any order and number.
THEOREM SwitchCorrect == Spec => [](TypeOK /\ SwitchInv)
<1>1. Init => TypeOK /\ SwitchInv
  BY InitType, InitInv
<1>2. TypeOK /\ SwitchInv /\ [Next]_vars => (TypeOK /\ SwitchInv)'
  <2> SUFFICES ASSUME TypeOK, SwitchInv, [Next]_vars PROVE (TypeOK /\ SwitchInv)'
    OBVIOUS
  <2>1. TypeOK'
    BY NextType DEF SwitchInv
  <2>2. QED
    BY <2>1, NextSelection, NextReads, NextProbe, NextProbed DEF SwitchInv
<1>3. QED
  BY <1>1, <1>2, PTL DEF Spec

\* SelectionConfirmed: a switch is confirmed or undone, never left half way (store.py).
THEOREM SelectionCorrect == Spec => []SelectionConfirmed
<1>1. TypeOK /\ SwitchInv => SelectionConfirmed
  <2> SUFFICES ASSUME SwitchInv PROVE SelectionConfirmed
    OBVIOUS
  <2>1. CASE pending # NoPending
    BY <2>1 DEF SwitchInv, Selection, SelectionConfirmed
  <2>2. CASE pending = NoPending
    BY <2>2 DEF SwitchInv, Selection, SelectionConfirmed
  <2>3. QED
    BY <2>1, <2>2
<1>2. QED
  BY <1>1, SwitchCorrect, PTL

\* ActivatedAsProbed: the bridge is switched to the credentials that the probe tested.
THEOREM ProbedCorrect == Spec => []ActivatedAsProbed
<1>1. TypeOK /\ SwitchInv => ActivatedAsProbed
  BY DEF SwitchInv
<1>2. QED
  BY <1>1, SwitchCorrect, PTL

(***************************************************************************)
(* The restarts.  The commands are numbered in the order of their issue,   *)
(* an activation has at most one rollback, and the last restart that was   *)
(* done is younger than every change of the selection.                     *)
(***************************************************************************)
Switches == {k \in Issued : queue[k].reason = "activation"}
Rollbacks == {k \in Issued : queue[k].reason = "rollback"}

\* The rows are numbered without a gap, and the table has room for the next one.
Numbered ==
  /\ Issued = 1..Cardinality(Issued)
  /\ Cardinality(Issued) = Cardinality(Switches) + Cardinality(Rollbacks)
  /\ Cardinality(Switches) <= MaxActivations
  /\ Cardinality(Rollbacks) <= Cardinality(Switches)
  /\ pending # NoPending => Cardinality(Rollbacks) < Cardinality(Switches)

\* Only an issued command has a row; one that succeeded has restarted the bridge.
Served ==
  \A k \in CommandIds :
    /\ k \notin Issued => row[k] = "none" /\ work[k] = "none"
    /\ row[k] = "SUCCEEDED" => work[k] = "done"

\* What is selected, may come back, is probed or is served has credentials.
Equipped ==
  /\ \A c \in active : cred[c] # NoCredentials
  /\ pending.prev # NoConnection => cred[pending.prev] # NoCredentials
  /\ \A a \in Admins : probe[a].at = "probing" => cred[probe[a].conn] # NoCredentials
  /\ bridge.at \in {"starting", "up"} => bridge.cred # NoCredentials

\* The restart that the last change of the selection asked for has started the bridge.
Restarted == Issued # {} => work[Cardinality(Issued)] = "done"

\* A bridge that has read the selection since serves it, or is about to import its own.
Follows ==
  bridge.at \in {"starting", "up"} /\ ~bridge.blind /\ ~bridge.aside /\ Restarted =>
    \/ Selected(bridge.conn) /\ cred[bridge.conn] = bridge.cred
    \/ bridge.at = "starting" /\ active = {}

RestartInv == Numbered /\ Served /\ Equipped /\ Follows

\* What is counted is finite.
LEMMA CountsAreNat ==
  /\ Cardinality(Issued) \in Nat /\ IsFiniteSet(Issued)
  /\ Cardinality(Switches) \in Nat /\ IsFiniteSet(Switches)
  /\ Cardinality(Rollbacks) \in Nat /\ IsFiniteSet(Rollbacks)
<1>1. IsFiniteSet(CommandIds)
  BY SwitchAssumption, FS_Interval DEF CommandIds
<1>2. /\ Issued \in SUBSET CommandIds
      /\ Switches \in SUBSET CommandIds /\ Rollbacks \in SUBSET CommandIds
  BY DEF Issued, Switches, Rollbacks
<1>3. QED
  BY <1>1, <1>2, FS_Subset, FS_CardinalityType

\* The last command is one of those issued.
LEMMA LastIsIssued ==
  ASSUME Numbered
  PROVE  Issued # {} => Cardinality(Issued) \in Issued /\ Cardinality(Issued) \in CommandIds
<1>1. Cardinality(Issued) \in Nat /\ Issued = 1..Cardinality(Issued)
  BY CountsAreNat DEF Numbered
<1>2. Issued # {} => Cardinality(Issued) \in Issued
  BY <1>1
<1>3. QED
  BY <1>2 DEF Issued

\* The effect of issuing a command: one more row, at the end.
LEMMA IssueEffect ==
  ASSUME TypeOK, Numbered, NEW reason \in {"activation", "rollback"}, NEW id \in Nat, NEW rest,
         Issue(reason, id, rest), Cardinality(Issued) < 2 * MaxActivations
  PROVE  LET n == Cardinality(Issued) + 1 IN
         /\ n \in CommandIds /\ n \notin Issued
         /\ Issued' = Issued \cup {n} /\ Issued' = 1..n /\ Cardinality(Issued') = n
         /\ Switches' = (IF reason = "activation" THEN Switches \cup {n} ELSE Switches)
         /\ Rollbacks' = (IF reason = "rollback" THEN Rollbacks \cup {n} ELSE Rollbacks)
<1> DEFINE n == Cardinality(Issued) + 1
<1>1. n \in CommandIds /\ n \in Nat \ {0} /\ n - 1 = Cardinality(Issued)
  BY CountsAreNat, SwitchAssumption DEF CommandIds
<1>2. queue' = [queue EXCEPT ![n] = [reason |-> reason, id |-> id]]
  BY DEF Issue
<1>3. Issued = 1..(n - 1)
  BY <1>1 DEF Numbered
<1> HIDE DEF n
<1>4. n \notin Issued
  BY <1>1, <1>3
<1>5. queue'[n].reason = reason /\ \A k \in CommandIds \ {n} : queue'[k] = queue[k]
  BY <1>1, <1>2 DEF TypeOK
<1>6. Issued' = Issued \cup {n}
  BY <1>1, <1>5 DEF Issued
<1>7. Issued' = 1..n
  <2>1. 1..n = 1..(n - 1) \cup {n}
    BY <1>1
  <2>2. QED
    BY <1>3, <1>6, <2>1
<1>8. Cardinality(Issued') = n
  BY <1>1, <1>7, FS_Interval
<1>9. Switches' = (IF reason = "activation" THEN Switches \cup {n} ELSE Switches)
  BY <1>1, <1>4, <1>5, <1>6 DEF Switches, Issued
<1>10. Rollbacks' = (IF reason = "rollback" THEN Rollbacks \cup {n} ELSE Rollbacks)
  BY <1>1, <1>4, <1>5, <1>6 DEF Rollbacks, Issued
<1>11. QED
  BY <1>1, <1>4, <1>6, <1>7, <1>8, <1>9, <1>10 DEF n

\* An activation finds room, and counts as one.
LEMMA ActivateEffect ==
  ASSUME TypeOK, Numbered, NEW a \in Admins, Activate(a)
  PROVE  LET n == Cardinality(Issued) + 1 IN
         /\ Issue("activation", LastActivation + 1, row) /\ Cardinality(Issued) < 2 * MaxActivations
         /\ n \in CommandIds /\ n \notin Issued /\ Issued' = Issued \cup {n}
         /\ Cardinality(Issued') = n /\ row' = [row EXCEPT ![n] = "PENDING"] /\ work' = work
         /\ Numbered'
<1> DEFINE n == Cardinality(Issued) + 1
<1>1. /\ Issue("activation", LastActivation + 1, row) /\ LastActivation + 1 \in Nat
      /\ LastActivation = Cardinality(Switches) /\ LastActivation < MaxActivations
      /\ pending = NoPending
  BY LastActivationType DEF Activate, Free, Switches, LastActivation
<1>2. Cardinality(Issued) < 2 * MaxActivations
  BY <1>1, CountsAreNat, SwitchAssumption DEF Numbered
<1>3. /\ n \in CommandIds /\ n \notin Issued /\ Issued' = Issued \cup {n} /\ Issued' = 1..n
      /\ Cardinality(Issued') = n /\ Switches' = Switches \cup {n} /\ Rollbacks' = Rollbacks
  BY <1>1, <1>2, IssueEffect
<1>4. Cardinality(Switches') = Cardinality(Switches) + 1
  <2>1. n \notin Switches
    BY <1>3 DEF Switches
  <2>2. QED
    BY <1>3, <2>1, CountsAreNat, FS_AddElement
<1>5. Numbered'
  <2>1. Cardinality(Rollbacks') = Cardinality(Rollbacks)
    BY <1>3
  <2>2. QED
    BY <1>1, <1>3, <1>4, <2>1, CountsAreNat, SwitchAssumption DEF Numbered
<1>6. row' = [row EXCEPT ![n] = "PENDING"] /\ work' = work
  BY <1>1 DEF Issue, Activate
<1>7. QED
  BY <1>1, <1>2, <1>3, <1>5, <1>6

\* So does the rollback of a pending switch: it is the only one for it.
LEMMA RollBackEffect ==
  ASSUME TypeOK, Numbered, NEW c \in Connections, NEW rest, RollBack(c, rest), pending.cand = c
  PROVE  LET n == Cardinality(Issued) + 1 IN
         /\ n \in CommandIds /\ n \notin Issued /\ Issued' = Issued \cup {n}
         /\ Cardinality(Issued') = n /\ row' = [rest EXCEPT ![n] = "PENDING"]
         /\ Numbered'
<1> DEFINE n == Cardinality(Issued) + 1
<1>1. /\ Issue("rollback", pending.id, rest) /\ pending.id \in Nat
      /\ pending # NoPending /\ pending' = NoPending
  BY SwitchAssumption DEF RollBack, RollbackRestart, NoPending, TypeOK
<1>2. /\ Cardinality(Issued) < 2 * MaxActivations
      /\ Cardinality(Rollbacks) < Cardinality(Switches)
  BY <1>1, CountsAreNat, SwitchAssumption DEF Numbered
<1>3. /\ n \in CommandIds /\ n \notin Issued /\ Issued' = Issued \cup {n} /\ Issued' = 1..n
      /\ Cardinality(Issued') = n /\ Switches' = Switches /\ Rollbacks' = Rollbacks \cup {n}
  BY <1>1, <1>2, IssueEffect
<1>4. Cardinality(Rollbacks') = Cardinality(Rollbacks) + 1
  <2>1. n \notin Rollbacks
    BY <1>3 DEF Rollbacks
  <2>2. QED
    BY <1>3, <2>1, CountsAreNat, FS_AddElement
<1>5. Numbered'
  <2>1. Cardinality(Switches') = Cardinality(Switches)
    BY <1>3
  <2>2. Cardinality(Issued') = Cardinality(Issued) + 1
    BY <1>3
  <2>3. Issued' = 1..Cardinality(Issued')
    BY <1>3
  <2>4. /\ Cardinality(Issued') = Cardinality(Switches') + Cardinality(Rollbacks')
        /\ Cardinality(Switches') <= MaxActivations
    BY <1>4, <2>1, <2>2, CountsAreNat DEF Numbered
  <2>5. Cardinality(Rollbacks') <= Cardinality(Switches') /\ pending' = NoPending
    BY <1>1, <1>2, <1>4, <2>1, CountsAreNat
  <2>6. QED
    BY <2>3, <2>4, <2>5 DEF Numbered
<1>6. row' = [rest EXCEPT ![n] = "PENDING"]
  BY <1>1 DEF Issue
<1>7. QED
  BY <1>3, <1>5, <1>6

\* A step that issues nothing leaves the count alone.
LEMMA NothingIssued ==
  ASSUME queue' = queue
  PROVE  Issued' = Issued /\ Switches' = Switches /\ Rollbacks' = Rollbacks
<1>1. Issued' = Issued
  BY DEF Issued
<1>2. QED
  BY <1>1 DEF Switches, Rollbacks

\* ... and keeps the numbering, unless a switch becomes pending.
LEMMA NumberedStays ==
  ASSUME Numbered, queue' = queue, pending' \in {pending, NoPending}
  PROVE  Numbered'
BY NothingIssued DEF Numbered

\* The connection whose switch is undone.
LEMMA UndoneIsConnection ==
  ASSUME TypeOK, SwitchInv
  PROVE  /\ \A k \in CommandIds : FailAndUndo(k) =>
              pending.cand \in Connections /\ RollBack(pending.cand, [row EXCEPT ![k] = "FAILED"])
         /\ AuthenticationFails =>
              /\ bridge.conn \in Connections /\ pending.cand = bridge.conn
              /\ RollBack(bridge.conn, row)
BY DEF FailAndUndo, MustUndo, AuthenticationFails, MayRollBack, Selected, TypeOK

\* The numbering stays.
LEMMA NextNumbered ==
  ASSUME TypeOK, SwitchInv, Numbered, [Next]_vars
  PROVE  Numbered'
<1>1. ASSUME NEW c \in Connections, Create(c) PROVE Numbered'
  BY <1>1, NumberedStays DEF Create, selection, commands
<1>2. ASSUME NEW c \in Connections, Edit(c) PROVE Numbered'
  BY <1>2, NumberedStays DEF Edit, selection, commands
<1>3. ASSUME NEW c \in Connections, Rename(c) PROVE Numbered'
  BY <1>3, NumberedStays DEF Rename, selection, commands
<1>4. ASSUME NEW c \in Connections, Delete(c) PROVE Numbered'
  BY <1>4, NumberedStays DEF Delete, selection, commands
<1>5. ASSUME NEW a \in Admins, NEW c \in Connections, Probe(a, c) PROVE Numbered'
  BY <1>5, NumberedStays DEF Probe, selection, commands
<1>6. ASSUME NEW a \in Admins, ProbeEnds(a) PROVE Numbered'
  BY <1>6, NumberedStays DEF ProbeEnds, selection, commands
<1>7. ASSUME NEW a \in Admins, Activate(a) PROVE Numbered'
  BY <1>7, ActivateEffect
<1>8. ASSUME NEW a \in Admins, NotActivated(a) PROVE Numbered'
  BY <1>8, NumberedStays DEF NotActivated, selection, commands
<1>9. ASSUME NEW k \in CommandIds, Claim(k) PROVE Numbered'
  BY <1>9, NumberedStays DEF Claim, selection
<1>10. ASSUME NEW k \in CommandIds, StopBridge(k) PROVE Numbered'
  BY <1>10, NumberedStays DEF StopBridge, selection
<1>11. ASSUME NEW k \in CommandIds, StartBridge(k) PROVE Numbered'
  BY <1>11, NumberedStays DEF StartBridge, selection
<1>12. ASSUME NEW k \in CommandIds, Succeed(k) PROVE Numbered'
  BY <1>12, NumberedStays DEF Succeed, selection
<1>13. ASSUME NEW k \in CommandIds, Fail(k) PROVE Numbered'
  BY <1>13, NumberedStays DEF Fail, selection
<1>14. ASSUME NEW k \in CommandIds, FailAndUndo(k) PROVE Numbered'
  BY <1>14, UndoneIsConnection, RollBackEffect
<1>15. ASSUME StartByHand PROVE Numbered'
  BY <1>15, NumberedStays DEF StartByHand, selection, commands
<1>16. ASSUME ReadSelection PROVE Numbered'
  BY <1>16, NumberedStays DEF ReadSelection, Reads, Down, selection, commands
<1>17. ASSUME NEW r \in Connections, Import(r) PROVE Numbered'
  BY <1>17, NumberedStays DEF Import, commands
<1>18. ASSUME NoImport PROVE Numbered'
  BY <1>18, NumberedStays DEF NoImport, selection, commands
<1>19. ASSUME Authenticated PROVE Numbered'
  BY <1>19, NumberedStays DEF Authenticated, commands
<1>20. ASSUME AuthenticationFails PROVE Numbered'
  BY <1>20, UndoneIsConnection, RollBackEffect
<1>21. ASSUME Crash PROVE Numbered'
  BY <1>21, NumberedStays DEF Crash, selection, commands
<1>22. CASE UNCHANGED vars
  BY <1>22, NumberedStays DEF vars, selection, commands
<1>23. QED
  BY <1>1, <1>2, <1>3, <1>4, <1>5, <1>6, <1>7, <1>8, <1>9, <1>10, <1>11, <1>12, <1>13, <1>14,
     <1>15, <1>16, <1>17, <1>18, <1>19, <1>20, <1>21, <1>22
  DEF Next, Console, Restarts, Bridge

\* The rows keep to their commands.
LEMMA NextServed ==
  ASSUME TypeOK, SwitchInv, Numbered, Served, [Next]_vars
  PROVE  Served'
<1>1. ASSUME NEW c \in Connections, Create(c) PROVE Served'
  BY <1>1, NothingIssued DEF Create, commands, Served
<1>2. ASSUME NEW c \in Connections, Edit(c) PROVE Served'
  BY <1>2, NothingIssued DEF Edit, commands, Served
<1>3. ASSUME NEW c \in Connections, Rename(c) PROVE Served'
  BY <1>3, NothingIssued DEF Rename, commands, Served
<1>4. ASSUME NEW c \in Connections, Delete(c) PROVE Served'
  BY <1>4, NothingIssued DEF Delete, commands, Served
<1>5. ASSUME NEW a \in Admins, NEW c \in Connections, Probe(a, c) PROVE Served'
  BY <1>5, NothingIssued DEF Probe, commands, Served
<1>6. ASSUME NEW a \in Admins, ProbeEnds(a) PROVE Served'
  BY <1>6, NothingIssued DEF ProbeEnds, commands, Served
<1>7. ASSUME NEW a \in Admins, Activate(a) PROVE Served'
  <2> DEFINE n == Cardinality(Issued) + 1
  <2>1. /\ n \in CommandIds /\ Issued' = Issued \cup {n} /\ work' = work
        /\ row' = [row EXCEPT ![n] = "PENDING"]
    BY <1>7, ActivateEffect DEF Activate
  <2>2. QED
    BY <2>1 DEF Served
<1>8. ASSUME NEW a \in Admins, NotActivated(a) PROVE Served'
  BY <1>8, NothingIssued DEF NotActivated, commands, Served
<1>9. ASSUME NEW k \in CommandIds, Claim(k) PROVE Served'
  BY <1>9, NothingIssued DEF Claim, Served, TypeOK
<1>10. ASSUME NEW k \in CommandIds, StopBridge(k) PROVE Served'
  BY <1>10, NothingIssued DEF StopBridge, Served, TypeOK
<1>11. ASSUME NEW k \in CommandIds, StartBridge(k) PROVE Served'
  BY <1>11, NothingIssued DEF StartBridge, Served, TypeOK
<1>12. ASSUME NEW k \in CommandIds, Succeed(k) PROVE Served'
  BY <1>12, NothingIssued DEF Succeed, Served
<1>13. ASSUME NEW k \in CommandIds, Fail(k) PROVE Served'
  BY <1>13, NothingIssued DEF Fail, Served
<1>14. ASSUME NEW k \in CommandIds, FailAndUndo(k) PROVE Served'
  <2> DEFINE n == Cardinality(Issued) + 1
  <2>1. /\ n \in CommandIds /\ Issued' = Issued \cup {n} /\ work' = work
        /\ row' = [[row EXCEPT ![k] = "FAILED"] EXCEPT ![n] = "PENDING"]
    BY <1>14, UndoneIsConnection, RollBackEffect DEF FailAndUndo
  <2>2. QED
    BY <2>1, <1>14 DEF Served, TypeOK, FailAndUndo
<1>15. ASSUME StartByHand PROVE Served'
  BY <1>15, NothingIssued DEF StartByHand, commands, Served
<1>16. ASSUME ReadSelection PROVE Served'
  BY <1>16, NothingIssued DEF ReadSelection, Reads, Down, commands, Served
<1>17. ASSUME NEW r \in Connections, Import(r) PROVE Served'
  BY <1>17, NothingIssued DEF Import, commands, Served
<1>18. ASSUME NoImport PROVE Served'
  BY <1>18, NothingIssued DEF NoImport, commands, Served
<1>19. ASSUME Authenticated PROVE Served'
  BY <1>19, NothingIssued DEF Authenticated, commands, Served
<1>20. ASSUME AuthenticationFails PROVE Served'
  <2> DEFINE n == Cardinality(Issued) + 1
  <2>1. /\ n \in CommandIds /\ Issued' = Issued \cup {n} /\ work' = work
        /\ row' = [row EXCEPT ![n] = "PENDING"]
    BY <1>20, UndoneIsConnection, RollBackEffect DEF AuthenticationFails
  <2>2. QED
    BY <2>1 DEF Served
<1>21. ASSUME Crash PROVE Served'
  BY <1>21, NothingIssued DEF Crash, commands, Served
<1>22. CASE UNCHANGED vars
  BY <1>22, NothingIssued DEF vars, commands, Served
<1>23. QED
  BY <1>1, <1>2, <1>3, <1>4, <1>5, <1>6, <1>7, <1>8, <1>9, <1>10, <1>11, <1>12, <1>13, <1>14,
     <1>15, <1>16, <1>17, <1>18, <1>19, <1>20, <1>21, <1>22
  DEF Next, Console, Restarts, Bridge

\* Credentials are not lost.
LEMMA NextEquipped ==
  ASSUME TypeOK, SwitchInv, Equipped, [Next]_vars
  PROVE  Equipped'
<1>1. ASSUME NEW c \in Connections, Create(c) PROVE Equipped'
  BY <1>1 DEF Create, NoPending, Equipped, SwitchInv, Selection, ProbeFresh, selection
<1>2. ASSUME NEW c \in Connections, Edit(c) PROVE Equipped'
  BY <1>2, SwitchAssumption DEF Edit, Equipped, TypeOK, selection
<1>3. ASSUME NEW c \in Connections, Rename(c) PROVE Equipped'
  BY <1>3 DEF Rename, Equipped, selection
<1>4. ASSUME NEW c \in Connections, Delete(c) PROVE Equipped'
  BY <1>4 DEF Delete, MayDelete, Equipped, selection
<1>5. ASSUME NEW a \in Admins, NEW c \in Connections, Probe(a, c) PROVE Equipped'
  BY <1>5 DEF Probe, Equipped, rows, selection
<1>6. ASSUME NEW a \in Admins, ProbeEnds(a) PROVE Equipped'
  BY <1>6 DEF ProbeEnds, Idle, Equipped, rows, selection
<1>7. ASSUME NEW a \in Admins, Activate(a) PROVE Equipped'
  BY <1>7 DEF Activate, Fresh, Free, Idle, Previous, Selected, Equipped
<1>8. ASSUME NEW a \in Admins, NotActivated(a) PROVE Equipped'
  BY <1>8 DEF NotActivated, Idle, Equipped, rows, selection
<1>9. ASSUME NEW k \in CommandIds, Claim(k) PROVE Equipped'
  BY <1>9 DEF Claim, Equipped, rows, selection
<1>10. ASSUME NEW k \in CommandIds, StopBridge(k) PROVE Equipped'
  BY <1>10 DEF StopBridge, Down, Equipped, rows, selection
<1>11. ASSUME NEW k \in CommandIds, StartBridge(k) PROVE Equipped'
  BY <1>11 DEF StartBridge, Down, Equipped, rows, selection
<1>12. ASSUME NEW k \in CommandIds, Succeed(k) PROVE Equipped'
  BY <1>12 DEF Succeed, Equipped, rows, selection
<1>13. ASSUME NEW k \in CommandIds, Fail(k) PROVE Equipped'
  BY <1>13 DEF Fail, RestartFailed, Equipped, rows, selection
<1>14. ASSUME NEW k \in CommandIds, FailAndUndo(k) PROVE Equipped'
  BY <1>14, UndoneIsConnection
  DEF FailAndUndo, RestartFailed, RollBack, NoPending, MustUndo, Equipped
<1>15. ASSUME StartByHand PROVE Equipped'
  BY <1>15 DEF StartByHand, Equipped, rows, selection
<1>16. ASSUME ReadSelection PROVE Equipped'
  BY <1>16, ReadEffect, SwitchAssumption DEF Credentialed, Equipped, rows, selection
<1>17. ASSUME NEW r \in Connections, Import(r) PROVE Equipped'
  BY <1>17 DEF Import, Equipped, TypeOK, SwitchInv, BridgeReads
<1>18. ASSUME NoImport PROVE Equipped'
  <2>1. /\ bridge.at = "starting" /\ bridge'.cred = bridge.cred
        /\ cred' = cred /\ active' = active /\ pending' = pending /\ probe' = probe
    <3>1. \/ bridge' = [bridge EXCEPT !.at = "up"]
          \/ bridge' = [bridge EXCEPT !.at = "up", !.aside = TRUE]
          \/ bridge' = [bridge EXCEPT !.at = "up", !.blind = TRUE]
      BY <1>18, Zenon DEF NoImport
    <3>2. QED
      BY <1>18, <3>1 DEF NoImport, TypeOK, selection
  <2>2. QED
    BY <2>1 DEF Equipped
<1>19. ASSUME Authenticated PROVE Equipped'
  BY <1>19 DEF Authenticated, NoPending, Equipped, rows
<1>20. ASSUME AuthenticationFails PROVE Equipped'
  BY <1>20, SwitchAssumption, UndoneIsConnection
  DEF AuthenticationFails, RollBack, NoPending, Equipped
<1>21. ASSUME Crash PROVE Equipped'
  BY <1>21 DEF Crash, Down, Equipped, rows, selection
<1>22. CASE UNCHANGED vars
  BY <1>22 DEF vars, Equipped, rows, selection
<1>23. QED
  BY <1>1, <1>2, <1>3, <1>4, <1>5, <1>6, <1>7, <1>8, <1>9, <1>10, <1>11, <1>12, <1>13, <1>14,
     <1>15, <1>16, <1>17, <1>18, <1>19, <1>20, <1>21, <1>22
  DEF Next, Console, Restarts, Bridge

\* The bridge follows the selection.
LEMMA NextFollows ==
  ASSUME TypeOK, SwitchInv, Numbered, Served, Equipped, Follows, [Next]_vars
  PROVE  Follows'
<1>1. ASSUME NEW c \in Connections, Create(c) PROVE Follows'
  BY <1>1, NothingIssued DEF Create, Follows, Restarted, Selected, selection, commands
<1>2. ASSUME NEW c \in Connections, Edit(c) PROVE Follows'
  BY <1>2, NothingIssued DEF Edit, Follows, Restarted, Selected, selection, commands
<1>3. ASSUME NEW c \in Connections, Rename(c) PROVE Follows'
  BY <1>3, NothingIssued DEF Rename, Follows, Restarted, Selected, selection, commands
<1>4. ASSUME NEW c \in Connections, Delete(c) PROVE Follows'
  BY <1>4, NothingIssued DEF Delete, MayDelete, Follows, Restarted, Selected, selection, commands
<1>5. ASSUME NEW a \in Admins, NEW c \in Connections, Probe(a, c) PROVE Follows'
  BY <1>5, NothingIssued DEF Probe, Follows, Restarted, Selected, rows, selection, commands
<1>6. ASSUME NEW a \in Admins, ProbeEnds(a) PROVE Follows'
  BY <1>6, NothingIssued DEF ProbeEnds, Follows, Restarted, Selected, rows, selection, commands
<1>7. ASSUME NEW a \in Admins, Activate(a) PROVE Follows'
  <2> DEFINE n == Cardinality(Issued) + 1
  <2>1. n \in CommandIds /\ n \notin Issued /\ Issued' = Issued \cup {n} /\ Cardinality(Issued') = n
    BY <1>7, ActivateEffect
  <2>2. work' = work
    BY <1>7 DEF Activate
  <2>3. ~Restarted'
    BY <2>1, <2>2 DEF Restarted, Served
  <2>4. QED
    BY <2>3 DEF Follows
<1>8. ASSUME NEW a \in Admins, NotActivated(a) PROVE Follows'
  BY <1>8, NothingIssued DEF NotActivated, Follows, Restarted, Selected, rows, selection, commands
<1>9. ASSUME NEW k \in CommandIds, Claim(k) PROVE Follows'
  <2>1. Restarted' => Restarted
    <3>1. Issued' = Issued /\ (work' = [work EXCEPT ![k] = "asked"] \/ work' = work)
      BY <1>9, NothingIssued DEF Claim
    <3>2. QED
      BY <3>1, LastIsIssued DEF Restarted, TypeOK
  <2>2. QED
    BY <1>9, <2>1 DEF Claim, Follows, Selected, rows, selection
<1>10. ASSUME NEW k \in CommandIds, StopBridge(k) PROVE Follows'
  <2>1. Restarted' => Restarted
    <3>1. Issued' = Issued /\ \E w \in {"stopped", "failed"} : work' = [work EXCEPT ![k] = w]
      BY <1>10, NothingIssued DEF StopBridge
    <3>2. QED
      BY <3>1, LastIsIssued DEF Restarted
  <2>2. CASE bridge' = Down
    BY <2>2 DEF Down, Follows
  <2>3. CASE bridge' = bridge
    BY <1>10, <2>1, <2>3 DEF StopBridge, Follows, Selected, rows, selection
  <2>4. QED
    BY <1>10, <2>2, <2>3 DEF StopBridge
<1>11. ASSUME NEW k \in CommandIds, StartBridge(k) PROVE Follows'
  <2>1. CASE bridge' = [Down EXCEPT !.at = "reading"]
    BY <2>1 DEF Follows
  <2>2. CASE bridge' = bridge /\ work' = [work EXCEPT ![k] = "failed"]
    <3>1. Restarted' => Restarted
      <4>1. Issued' = Issued
        BY <1>11, NothingIssued DEF StartBridge
      <4>2. QED
        BY <2>2, <4>1, LastIsIssued DEF Restarted
    <3>2. QED
      BY <1>11, <2>2, <3>1 DEF StartBridge, Follows, Selected, rows, selection
  <2>3. QED
    BY <1>11, <2>1, <2>2, Zenon DEF StartBridge
<1>12. ASSUME NEW k \in CommandIds, Succeed(k) PROVE Follows'
  BY <1>12, NothingIssued DEF Succeed, Follows, Restarted, Selected, rows, selection
<1>13. ASSUME NEW k \in CommandIds, Fail(k) PROVE Follows'
  BY <1>13, NothingIssued DEF Fail, RestartFailed, Follows, Restarted, Selected, rows, selection
<1>14. ASSUME NEW k \in CommandIds, FailAndUndo(k) PROVE Follows'
  <2> DEFINE n == Cardinality(Issued) + 1
  <2>1. n \in CommandIds /\ n \notin Issued /\ Issued' = Issued \cup {n} /\ Cardinality(Issued') = n
    BY <1>14, UndoneIsConnection, RollBackEffect
  <2>2. work' = work
    BY <1>14 DEF FailAndUndo
  <2>3. ~Restarted'
    BY <2>1, <2>2 DEF Restarted, Served
  <2>4. QED
    BY <2>3 DEF Follows
<1>15. ASSUME StartByHand PROVE Follows'
  BY <1>15 DEF StartByHand, Follows
<1>16. ASSUME ReadSelection PROVE Follows'
  BY <1>16, ReadEffect
  DEF Credentialed, Selected, Follows, Equipped, TypeOK, SwitchInv, Selection, rows, selection
<1>17. ASSUME NEW r \in Connections, Import(r) PROVE Follows'
  BY <1>17 DEF Import, Selected, Follows, TypeOK, SwitchInv, BridgeReads
<1>18. ASSUME NoImport PROVE Follows'
  <2>1. CASE bridge'.blind \/ bridge'.aside
    BY <2>1 DEF Follows
  <2>2. CASE ~bridge'.blind /\ ~bridge'.aside
    <3>1. bridge' = [bridge EXCEPT !.at = "up"] /\ \E c \in Connections : Selected(c)
      <4>1. \/ bridge' = [bridge EXCEPT !.at = "up"] /\ \E c \in Connections : Selected(c)
            \/ bridge' = [bridge EXCEPT !.at = "up", !.aside = TRUE]
            \/ bridge' = [bridge EXCEPT !.at = "up", !.blind = TRUE]
        BY <1>18, Zenon DEF NoImport
      <4>2. QED
        BY <2>2, <4>1 DEF TypeOK
    <3>2. /\ bridge.at = "starting" /\ bridge'.conn = bridge.conn /\ bridge'.cred = bridge.cred
          /\ ~bridge.blind /\ ~bridge.aside /\ active # {}
      BY <1>18, <2>2, <3>1 DEF NoImport, Selected
    <3>3. Restarted' => Restarted
      BY <1>18, NothingIssued DEF NoImport, commands, Restarted
    <3>4. Restarted => Selected(bridge.conn) /\ cred[bridge.conn] = bridge.cred
      BY <3>2 DEF Follows
    <3>5. QED
      BY <1>18, <3>2, <3>3, <3>4 DEF NoImport, Follows, Selected, selection
  <2>3. QED
    BY <2>1, <2>2
<1>19. ASSUME Authenticated PROVE Follows'
  BY <1>19, NothingIssued DEF Authenticated, Follows, Restarted, Selected, rows, commands
<1>20. ASSUME AuthenticationFails PROVE Follows'
  <2> DEFINE n == Cardinality(Issued) + 1
  <2>1. n \in CommandIds /\ n \notin Issued /\ Issued' = Issued \cup {n} /\ Cardinality(Issued') = n
    BY <1>20, UndoneIsConnection, RollBackEffect
  <2>2. work' = work
    BY <1>20 DEF AuthenticationFails
  <2>3. ~Restarted'
    BY <2>1, <2>2 DEF Restarted, Served
  <2>4. QED
    BY <2>3 DEF Follows
<1>21. ASSUME Crash PROVE Follows'
  BY <1>21 DEF Crash, Down, Follows
<1>22. CASE UNCHANGED vars
  BY <1>22, NothingIssued DEF vars, Follows, Restarted, Selected, rows, selection, commands
<1>23. QED
  BY <1>1, <1>2, <1>3, <1>4, <1>5, <1>6, <1>7, <1>8, <1>9, <1>10, <1>11, <1>12, <1>13, <1>14,
     <1>15, <1>16, <1>17, <1>18, <1>19, <1>20, <1>21, <1>22
  DEF Next, Console, Restarts, Bridge

\* At first nothing is issued, selected or read.
LEMMA InitRestart == Init => RestartInv
<1> SUFFICES ASSUME Init PROVE RestartInv
  OBVIOUS
<1>1. Issued = {} /\ Switches = {} /\ Rollbacks = {}
  BY DEF Init, Issued, Switches, Rollbacks, NoCommand
<1>2. Cardinality(Issued) = 0 /\ Cardinality(Switches) = 0 /\ Cardinality(Rollbacks) = 0
  BY <1>1, FS_EmptySet
<1>3. QED
  BY <1>1, <1>2, SwitchAssumption
  DEF Init, RestartInv, Numbered, Served, Equipped, Follows, NoPending, Idle, Down

\* The types and the numbering, the credentials and the restarts, in every behaviour.
THEOREM RestartCorrect == Spec => [](TypeOK /\ SwitchInv /\ RestartInv)
<1>1. Init => RestartInv
  BY InitRestart
<1>2. TypeOK /\ SwitchInv /\ RestartInv /\ [Next]_vars => RestartInv'
  BY NextNumbered, NextServed, NextEquipped, NextFollows DEF RestartInv
<1>3. QED
  BY <1>1, <1>2, SwitchCorrect, PTL DEF Spec

\* BridgeFollows: once every restart has ended and the last succeeded, the bridge serves the
\* selected connection with its stored credentials (runtime_worker.py, config.py).
THEOREM FollowsCorrect == Spec => []BridgeFollows
<1>1. TypeOK /\ SwitchInv /\ RestartInv => BridgeFollows
  <2> SUFFICES ASSUME TypeOK, RestartInv, bridge.at = "up", ~bridge.blind, ~bridge.aside,
                      Cardinality(Issued) > 0 => row[Cardinality(Issued)] = "SUCCEEDED"
               PROVE  Selected(bridge.conn) /\ cred[bridge.conn] = bridge.cred
    BY DEF BridgeFollows
  <2>1. Restarted
    <3>1. CASE Issued = {}
      BY <3>1 DEF Restarted
    <3>2. CASE Issued # {}
      <4>1. Cardinality(Issued) \in Issued /\ Cardinality(Issued) \in Nat \ {0}
        BY <3>2, CountsAreNat DEF RestartInv, Numbered
      <4>2. QED
        BY <4>1 DEF RestartInv, Served, Restarted, Issued
    <3>3. QED
      BY <3>1, <3>2
  <2>2. QED
    BY <2>1 DEF RestartInv, Follows
<1>2. QED
  BY <1>1, RestartCorrect, PTL

=============================================================================
