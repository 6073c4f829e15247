------------------------- MODULE ConnectionSwitch -------------------------
(***************************************************************************)
(* Switching the bridge to another connection: an administrator probes a   *)
(* candidate (admin/api.py, connection_probe.py), the store selects it,    *)
(* keeps what a rollback needs and queues a restart (admin/store.py); the  *)
(* worker of the service commands has the Local Supervisor restart the     *)
(* bridge (admin/runtime_worker.py, LocalSupervisor.ps1), which reads the  *)
(* selection when it boots (config.py, __main__.py); its authentication    *)
(* events confirm or undo the switch.  CommandQueue has the leases of the  *)
(* queue; here one worker takes the commands in order.                     *)
(***************************************************************************)
EXTENDS Integers, FiniteSets

CONSTANTS
  Connections,    \* ids of channel_connections
  Env,            \* the id that _environment_connection_id derives from the .env file
  Bots,           \* bot ids of the platform
  EnvBot,         \* the one in the .env file
  Admins,         \* the requests of administrators that may be under way together
  NoConnection,
  NoBot,          \* bot_id IS NULL
  NoCredentials,  \* of a row that only an event of the bridge created
  MaxEdits,       \* edits of connections in the console
  MaxActivations,
  MaxFaults       \* failures of the store, the Supervisor and the process

ASSUME SwitchAssumption ==
  /\ Env \in Connections /\ NoConnection \notin Connections
  /\ EnvBot \in Bots /\ NoBot \notin Bots
  /\ NoCredentials \notin Nat
  /\ MaxEdits \in Nat /\ MaxActivations \in Nat /\ MaxFaults \in Nat

VARIABLES
  listed,   \* of a connection: absent, listed or deleted
  cred,     \* its credentials; 0 are those of the .env file
  bot,      \* its bot_id, which is UNIQUE
  version,  \* its version
  active,   \* the connections with is_active
  pending,  \* pending_connection_activation
  probe,    \* what an administrator's request has read and is probing; history: whether an
            \* import has replaced the credentials since
  queue,    \* the restart commands issued so far: reason and activation
  row,      \* control_commands.status of each
  work,     \* what the Supervisor has done about each
  bridge,   \* the process, and the connection it has read; history: whether the store failed
            \* while it booted (blind), whether its bot id was another row's (aside)
  edits,
  faults,
  confirmed,  \* history: the last connection imported, or confirmed by an authenticated event
  tested      \* history: the credentials probed for the activation that is pending, if no import
              \* has replaced them meanwhile

rows == <<listed, cred, bot, version, edits>>
selection == <<active, pending, confirmed, tested>>
commands == <<queue, row, work>>
vars == <<rows, selection, probe, commands, bridge, faults>>

Activations == 1..MaxActivations
CommandIds == 1..(2 * MaxActivations)    \* an activation has at most one rollback
Credentials == 0..MaxEdits \cup {NoCredentials}
Idle == [at |-> "none", conn |-> NoConnection, cred |-> 0, version |-> 0, imported |-> FALSE]
NoPending == [cand |-> NoConnection, prev |-> NoConnection, id |-> 0]
Down == [at |-> "down", conn |-> NoConnection, cred |-> 0, bot |-> NoBot,
         blind |-> FALSE, aside |-> FALSE]
NoCommand == [reason |-> "none", id |-> 0]

TypeOK ==
  /\ listed \in [Connections -> {"absent", "listed", "deleted"}]
  /\ cred \in [Connections -> Credentials]
  /\ bot \in [Connections -> Bots \cup {NoBot}]
  /\ version \in [Connections -> Nat]
  /\ active \subseteq Connections
  /\ pending \in [cand : Connections \cup {NoConnection}, prev : Connections \cup {NoConnection}, id : Nat]
  /\ probe \in [Admins -> [at : {"none", "probing"}, conn : Connections \cup {NoConnection},
                         cred : Credentials, version : Nat, imported : BOOLEAN]]
  /\ queue \in [CommandIds -> [reason : {"none", "activation", "rollback"}, id : Nat]]
  /\ row \in [CommandIds -> {"none", "PENDING", "RUNNING", "SUCCEEDED", "FAILED"}]
  /\ work \in [CommandIds -> {"none", "asked", "stopped", "done", "failed"}]
  /\ bridge \in [at : {"down", "reading", "starting", "up"}, conn : Connections \cup {NoConnection},
                 cred : Credentials, bot : Bots \cup {NoBot}, blind : BOOLEAN, aside : BOOLEAN]
  /\ edits \in Nat /\ faults \in Nat
  /\ confirmed \in Connections \cup {NoConnection}
  /\ tested \subseteq Credentials

Init ==
  /\ listed = [c \in Connections |-> "absent"]
  /\ cred = [c \in Connections |-> NoCredentials]
  /\ bot = [c \in Connections |-> NoBot]
  /\ version = [c \in Connections |-> 1]
  /\ active = {} /\ pending = NoPending
  /\ probe = [a \in Admins |-> Idle]
  /\ queue = [k \in CommandIds |-> NoCommand]
  /\ row = [k \in CommandIds |-> "none"]
  /\ work = [k \in CommandIds |-> "none"]
  /\ bridge = Down /\ edits = 0 /\ faults = 0
  /\ confirmed = NoConnection /\ tested = {}

Fault == faults < MaxFaults /\ faults' = faults + 1
Selected(c) == c \in active /\ listed[c] = "listed"
-----------------------------------------------------------------------------
\* The administrators' edits.  A bot_id that another row has, deleted or not, is refused.
Unused(c) == {b \in Bots : \A d \in Connections \ {c} : bot[d] # b}

Create(c) ==
  /\ c # Env /\ listed[c] = "absent" /\ edits < MaxEdits
  /\ edits' = edits + 1
  /\ listed' = [listed EXCEPT ![c] = "listed"]
  /\ cred' = [cred EXCEPT ![c] = edits + 1]
  /\ \E b \in Unused(c) : bot' = [bot EXCEPT ![c] = b]
  /\ UNCHANGED <<version, selection, probe, commands, bridge, faults>>

Edit(c) ==
  /\ listed[c] = "listed" /\ c \notin active /\ edits < MaxEdits
  /\ edits' = edits + 1
  /\ cred' = [cred EXCEPT ![c] = edits + 1]
  /\ \E b \in Unused(c) : bot' = [bot EXCEPT ![c] = b]
  /\ version' = [version EXCEPT ![c] = @ + 1]
  /\ UNCHANGED <<listed, selection, probe, commands, bridge, faults>>

\* An edit of the name, the notes or the status, of any connection.
Rename(c) ==
  /\ listed[c] = "listed" /\ edits < MaxEdits
  /\ edits' = edits + 1
  /\ version' = [version EXCEPT ![c] = @ + 1]
  /\ UNCHANGED <<listed, cred, bot, selection, probe, commands, bridge, faults>>

MayDelete(c) == listed[c] = "listed" /\ c \notin active /\ pending.prev # c
Delete(c) ==
  /\ MayDelete(c)
  /\ listed' = [listed EXCEPT ![c] = "deleted"]
  /\ UNCHANGED <<cred, bot, version, edits, selection, probe, commands, bridge, faults>>

\* get_connection_probe_target, then the probe of what it returned: the other
\* requests of the console go on while it waits for the platform.
Probe(a, c) ==
  /\ probe[a].at = "none"
  /\ listed[c] = "listed" /\ cred[c] # NoCredentials /\ c \notin active
  /\ probe' = [probe EXCEPT ![a] =
       [at |-> "probing", conn |-> c, cred |-> cred[c], version |-> version[c], imported |-> FALSE]]
  /\ UNCHANGED <<rows, selection, commands, bridge, faults>>

\* The probe fails, or was only a test of the connection.
ProbeEnds(a) ==
  /\ probe[a].at = "probing"
  /\ probe' = [probe EXCEPT ![a] = Idle]
  /\ UNCHANGED <<rows, selection, commands, bridge, faults>>
-----------------------------------------------------------------------------
Issued == {k \in CommandIds : queue[k].reason # "none"}
Open(k) == row[k] \in {"PENDING", "RUNNING"}

\* The next command; "rest" are the rows of the others.
Issue(reason, id, rest) ==
  LET k == Cardinality(Issued) + 1 IN
  /\ queue' = [queue EXCEPT ![k] = [reason |-> reason, id |-> id]]
  /\ row' = [rest EXCEPT ![k] = "PENDING"]

\* FAULT: a version that changed while the probe ran is not noticed.
UnchangedRow(a) == listed[probe[a].conn] = "listed"

Fresh(a) == listed[probe[a].conn] = "listed" /\ version[probe[a].conn] = probe[a].version

\* FAULT: a second switch begins while one is pending.
FreeAlways == TRUE

Free == pending = NoPending

Previous == IF \E c \in Connections : Selected(c)
              THEN {c \in Connections : Selected(c)} ELSE {NoConnection}
LastActivation == Cardinality({k \in Issued : queue[k].reason = "activation"})

\* The probe passes: activate_connection_after_probe, one transaction.
Activate(a) ==
  LET c == probe[a].conn IN
  /\ probe[a].at = "probing"
  /\ c \notin active /\ Fresh(a) /\ Free
  /\ LastActivation < MaxActivations
  /\ \E prev \in Previous :
       pending' = [cand |-> c, prev |-> prev, id |-> LastActivation + 1]
  /\ active' = {c}
  /\ version' = [version EXCEPT ![c] = @ + 1]
  /\ tested' = IF probe[a].imported THEN {} ELSE {probe[a].cred}
  /\ probe' = [probe EXCEPT ![a] = Idle]
  /\ Issue("activation", LastActivation + 1, row)
  /\ UNCHANGED <<listed, cred, bot, edits, confirmed, work, bridge, faults>>

\* Already active, changed since the probe, another switch is pending, or a key that a
\* command has: nothing happens.
NotActivated(a) ==
  /\ probe[a].at = "probing"
  /\ \/ probe[a].conn \in active \/ ~Fresh(a) \/ ~Free
     \/ Issued # {}
  /\ probe' = [probe EXCEPT ![a] = Idle]
  /\ UNCHANGED <<rows, selection, commands, bridge, faults>>
-----------------------------------------------------------------------------
\* FAULT: the bridge is not restarted after a rollback.
NoRestart(rest) == row' = rest /\ UNCHANGED queue

\* One restart for the rollback: its key is the activation's.
RollbackRestart(rest) == Issue("rollback", pending.id, rest)

\* _rollback_connection_activation_in_transaction, when the pending switch is c's.
MayRollBack(c) == pending.cand = c /\ Selected(c)

RollBack(c, rest) ==
  /\ active' = {d \in Connections : d = pending.prev /\ listed[d] = "listed"}
  /\ version' = [d \in Connections |-> IF d = c \/ d \in active' THEN version[d] + 1 ELSE version[d]]
  /\ pending' = NoPending /\ tested' = {}
  /\ RollbackRestart(rest)
  /\ UNCHANGED <<listed, cred, bot, edits, confirmed>>

\* connection.authenticated, as the store projects it.
Authenticated ==
  /\ bridge.at = "up" /\ pending.cand = bridge.conn
  /\ confirmed' = pending.cand /\ pending' = NoPending /\ tested' = {}
  /\ UNCHANGED <<rows, active, probe, commands, bridge, faults>>

\* connection.authentication_failed.
AuthenticationFails ==
  /\ bridge.at = "up" /\ MayRollBack(bridge.conn)
  /\ RollBack(bridge.conn, row)
  /\ UNCHANGED <<probe, work, bridge, faults>>
-----------------------------------------------------------------------------
\* The worker of the service commands: one at a time, the oldest first.
Claim(k) ==
  /\ row[k] = "PENDING" /\ \A j \in CommandIds : Open(j) => j >= k
  /\ row' = [row EXCEPT ![k] = "RUNNING"]
  /\ \/ work' = [work EXCEPT ![k] = "asked"] /\ UNCHANGED faults
     \/ Fault /\ UNCHANGED work              \* the Supervisor's status is stale
  /\ UNCHANGED <<rows, selection, probe, queue, bridge>>

\* The Supervisor takes one request at a time; a restart stops, then starts.
Busy == \E k \in CommandIds : work[k] = "stopped"

StopBridge(k) ==
  /\ work[k] = "asked" /\ ~Busy
  /\ \/ /\ work' = [work EXCEPT ![k] = "stopped"]
        /\ bridge' = Down /\ UNCHANGED faults
     \/ Fault /\ work' = [work EXCEPT ![k] = "failed"] /\ UNCHANGED bridge
  /\ UNCHANGED <<rows, selection, probe, queue, row>>

StartBridge(k) ==
  /\ work[k] = "stopped"
  /\ \/ /\ work' = [work EXCEPT ![k] = "done"]
        /\ bridge' = [Down EXCEPT !.at = "reading"] /\ UNCHANGED faults
     \/ Fault /\ work' = [work EXCEPT ![k] = "failed"] /\ UNCHANGED bridge
  /\ UNCHANGED <<rows, selection, probe, queue, row>>

Succeed(k) ==
  /\ row[k] = "RUNNING" /\ work[k] = "done"
  /\ row' = [row EXCEPT ![k] = "SUCCEEDED"]
  /\ UNCHANGED <<rows, selection, probe, queue, work, bridge, faults>>

\* The work failed, was not asked for, or did not end in time (a fault): the row is
\* FAILED, and the switch it belongs to is undone if there is something to restore.
RestartFailed(k) ==
  \/ work[k] \in {"none", "failed"} /\ UNCHANGED faults
  \/ work[k] \in {"asked", "stopped"} /\ Fault

MustUndo(k) ==
  /\ queue[k].reason = "activation" /\ pending.id = queue[k].id
  /\ pending.prev # NoConnection /\ MayRollBack(pending.cand)

Fail(k) ==
  /\ row[k] = "RUNNING" /\ RestartFailed(k) /\ ~MustUndo(k)
  /\ row' = [row EXCEPT ![k] = "FAILED"]
  /\ UNCHANGED <<rows, selection, probe, queue, work, bridge>>

FailAndUndo(k) ==
  /\ row[k] = "RUNNING" /\ RestartFailed(k) /\ MustUndo(k)
  /\ RollBack(pending.cand, [row EXCEPT ![k] = "FAILED"])
  /\ UNCHANGED <<probe, work, bridge>>
-----------------------------------------------------------------------------
\* The Supervisor's own start command, when no bridge runs.
StartByHand ==
  /\ bridge.at = "down" /\ ~Busy
  /\ bridge' = [Down EXCEPT !.at = "reading"]
  /\ UNCHANGED <<rows, selection, probe, commands, faults>>

\* Settings.from_environment: the selected connection, or the .env file's when there is
\* none or the store cannot be read.
Credentialed(c) == Selected(c) /\ cred[c] # NoCredentials

Reads(c, x, b) == [Down EXCEPT !.at = "starting", !.conn = c, !.cred = x, !.bot = b]

ReadSelection ==
  /\ bridge.at = "reading"
  /\ \/ \E c \in Connections :
          /\ Credentialed(c) /\ bridge' = Reads(c, cred[c], bot[c])
          /\ UNCHANGED faults
     \/ /\ ~\E c \in Connections : Credentialed(c)
        /\ bridge' = Reads(Env, 0, EnvBot)
        /\ UNCHANGED faults
     \/ Fault /\ bridge' = [Reads(Env, 0, EnvBot) EXCEPT !.blind = TRUE]
  /\ UNCHANGED <<rows, selection, probe, commands>>

\* ensure_environment_connection: the row of that id, or the one with that bot_id.
Existing == IF listed[bridge.conn] # "absent" THEN {bridge.conn}
            ELSE {r \in Connections : bot[r] = bridge.bot}
ImportRow(r) == r \in Existing \/ (Existing = {} /\ r = bridge.conn)

\* It is imported if nothing is selected; the version stays.  The process goes on under the
\* id it has read, and its events make a row of that id.
Import(r) ==
  /\ bridge.at = "starting" /\ ~\E c \in Connections : Selected(c)
  /\ ImportRow(r) /\ bridge.bot \in Unused(r)
  /\ bridge' = [bridge EXCEPT !.at = "up", !.aside = r # bridge.conn]
  /\ active' = active \cup {r}
  /\ listed' = [c \in Connections |-> IF c \in {r, bridge.conn} THEN "listed" ELSE listed[c]]
  /\ cred' = [cred EXCEPT ![r] = bridge.cred]
  /\ bot' = [bot EXCEPT ![r] = bridge.bot]
  /\ confirmed' = r
  /\ probe' = [a \in Admins |->
       IF probe[a].conn = r THEN [probe[a] EXCEPT !.imported = TRUE] ELSE probe[a]]
  /\ UNCHANGED <<version, edits, pending, tested, commands, faults>>

\* ... or there is a selection, or the bot_id is another row's, or the store fails.
NoImport ==
  /\ bridge.at = "starting"
  /\ \/ /\ \E c \in Connections : Selected(c)
        /\ bridge' = [bridge EXCEPT !.at = "up"] /\ UNCHANGED faults
     \/ /\ ~\E c \in Connections : Selected(c)
        /\ listed[bridge.conn] # "absent" /\ bridge.bot \notin Unused(bridge.conn)
        /\ bridge' = [bridge EXCEPT !.at = "up", !.aside = TRUE] /\ UNCHANGED faults
     \/ Fault /\ bridge' = [bridge EXCEPT !.at = "up", !.blind = TRUE]
  /\ listed' = [listed EXCEPT ![bridge.conn] = IF @ = "absent" THEN "listed" ELSE @]
  /\ UNCHANGED <<cred, bot, version, edits, selection, probe, commands>>

Crash ==
  /\ bridge.at # "down" /\ Fault /\ bridge' = Down
  /\ UNCHANGED <<rows, selection, probe, commands>>
-----------------------------------------------------------------------------
Console ==
  \/ \E c \in Connections : Create(c) \/ Edit(c) \/ Rename(c) \/ Delete(c)
  \/ \E a \in Admins :
       (\E c \in Connections : Probe(a, c)) \/ ProbeEnds(a) \/ Activate(a) \/ NotActivated(a)

Restarts ==
  \E k \in CommandIds :
    Claim(k) \/ StopBridge(k) \/ StartBridge(k) \/ Succeed(k) \/ Fail(k) \/ FailAndUndo(k)

Bridge ==
  \/ StartByHand \/ ReadSelection \/ NoImport \/ \E r \in Connections : Import(r)
  \/ Authenticated \/ AuthenticationFails \/ Crash

Next == Console \/ Restarts \/ Bridge

Spec == Init /\ [][Next]_vars
-----------------------------------------------------------------------------
\* The credentials that the bridge is switched to are the ones the probe tested:
\* "closing the gap where an admin could edit credentials while an older probe was still
\* running", whatever edits, deletions and other switches come in between; only the import
\* of the .env file, which keeps the version, goes unnoticed.
ActivatedAsProbed == pending # NoPending => tested \subseteq {cred[pending.cand]}

\* Exactly the candidate is selected while a switch is pending, and the connection to go
\* back to is still there (delete_connection's refusal); otherwise the last connection that
\* was confirmed (or imported): a switch is confirmed or undone, never left half way.
SelectionConfirmed ==
  IF pending # NoPending
    THEN /\ active = {pending.cand} /\ listed[pending.cand] = "listed"
         /\ pending.prev # NoConnection => listed[pending.prev] = "listed"
    ELSE active = IF confirmed = NoConnection THEN {} ELSE {confirmed}

\* When every restart has ended and the last one succeeded, the bridge serves the selected
\* connection with its stored credentials, unless the store failed while it booted, or it
\* booted with the .env file while another row had the .env file's bot id: that row is then
\* selected (or none is), and the process keeps the id it has read until it is restarted.
BridgeFollows ==
  LET last == Cardinality(Issued) IN
  /\ bridge.at = "up" /\ ~bridge.blind /\ ~bridge.aside
  /\ \A k \in Issued : ~Open(k) /\ work[k] \notin {"asked", "stopped"}
  /\ last > 0 => row[last] = "SUCCEEDED"
  => Selected(bridge.conn) /\ cred[bridge.conn] = bridge.cred
=============================================================================
