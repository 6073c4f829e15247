--------------------------- MODULE SessionMemory ---------------------------
(***************************************************************************)
(* What the agent remembers of a chat: the journal's facts and summaries,  *)
(* the generation in the registry's file, and the native sessions of the   *)
(* runtime, while turns run, fail, are stopped, the chat is ended, another *)
(* chat breaks the shared runtime, files fail and the process restarts.    *)
(***************************************************************************)
EXTENDS Naturals, Sequences, FiniteSetsExt

CONSTANTS
  Budget,     \* of a recovery, in facts: max_bytes; a summary takes the room of one
  Batches,    \* summaries per turn
  MaxTurns, MaxStops, MaxEnds, MaxFaults, MaxBoots

ASSUME SessionMemoryAssumption ==
  /\ Budget \in Nat \ {0} /\ Batches \in Nat
  /\ {MaxTurns, MaxStops, MaxEnds, MaxFaults, MaxBoots} \subseteq Nat

VARIABLES
  turns,      \* replies so far
  stops,      \* stops and ends of the chat so far
  faults,     \* failures of the registry's file so far
  boots,      \* restarts so far
  facts,      \* the journal: a sequence of [epoch, kind]
  epoch,      \* the chat's epoch in the journal
  checkpoint, \* through_seq of an epoch's latest summary, 0 for none
  file,       \* the chat's record in the registry: [generation, state]
  offset,     \* _history_offsets, 0 for none
  native,     \* what the runtime's sessions know: pairs <<generation, seq>>
  phase,      \* of the turn: idle, recovering, summarizing, cancelled, running, ran, failing
  own,        \* the epoch that the turn started in
  after,      \* from where it recovers
  batch,      \* its summaries so far
  prefix,     \* the summary it makes: [previous, through]
  lease,      \* the generation it runs in
  shown,      \* the facts that its run knows at its start
  told,       \* the epoch of a reply whose delivery fact is still to come, 0 for none
  flag,       \* _interrupt_requested_for has the chat
  control,    \* stop_session or end_session: [does, at]
  damaged     \* history: the registry's file failed in this runtime, or the close of an earlier
              \* stop, or of another chat's, hit a turn

journal == <<facts, epoch, checkpoint>>
runtime == <<offset, native, damaged>>
turn == <<turns, phase, own, after, batch, prefix, lease, shown>>
bounds == <<stops, faults, boots>>
vars == <<bounds, journal, file, runtime, turn, told, flag, control>>

Epochs == 1..(MaxEnds + 1)
Kinds == {"user", "note", "assistant", "failed", "delivery"}
Free == [does |-> "none", at |-> "none"]

TypeOK ==
  /\ turns \in 0..MaxTurns /\ stops \in 0..MaxStops /\ faults \in 0..MaxFaults /\ boots \in 0..MaxBoots
  /\ facts \in Seq([epoch : Epochs, kind : Kinds]) /\ epoch \in Epochs
  /\ checkpoint \in [Epochs -> Nat] /\ offset \in [Epochs -> Nat]
  /\ file \in [generation : Nat, state : {"idle", "running"}]
  /\ native \subseteq Nat \X Nat /\ shown \subseteq Nat
  /\ phase \in {"idle", "recovering", "summarizing", "cancelled", "running", "ran", "failing"}
  /\ own \in Epochs \cup {0} /\ told \in Epochs \cup {0}
  /\ {after, batch, lease} \subseteq Nat
  /\ prefix \in [previous : Nat, through : Nat]
  /\ flag \in BOOLEAN /\ damaged \in BOOLEAN
  /\ control \in [does : {"none", "stop", "end"}, at : {"none", "waiting", "closing", "acting"}]

Unused == [previous |-> 0, through |-> 0]

Init ==
  /\ turns = 0 /\ stops = 0 /\ faults = 0 /\ boots = 0
  /\ facts = <<>> /\ epoch = 1 /\ checkpoint = [e \in Epochs |-> 0]
  /\ file = [generation |-> 1, state |-> "idle"]
  /\ offset = [e \in Epochs |-> 0] /\ native = {} /\ damaged = FALSE
  /\ phase = "idle" /\ own = 0 /\ after = 0 /\ batch = 0 /\ prefix = Unused
  /\ lease = 0 /\ shown = {} /\ told = 0
  /\ flag = FALSE /\ control = Free
-----------------------------------------------------------------------------
\* The journal.
Of(e) == {i \in DOMAIN facts : facts[i].epoch = e}
Append1(kind) == facts' = Append(facts, [epoch |-> own, kind |-> kind])

\* context(): the latest summary, if it is newer, and every fact after it.
Summary(e, since) == IF checkpoint[e] > since THEN Of(e) \cap 1..checkpoint[e] ELSE {}
Later(e, since) == {i \in Of(e) : i > since /\ i > checkpoint[e]}
Recovered(e, since) == Summary(e, since) \cup {i \in Of(e) : i > since}
Size(e, since) ==
  IF checkpoint[e] > since THEN 1 + Cardinality(Later(e, since))
                           ELSE Cardinality({i \in Of(e) : i > since})

\* summary_batch(): the facts after the latest summary in groups that begin with a user's
\* message.  The newest groups stay, as many as fit in half a budget and at least one;
\* of the others, the oldest that fit in a budget with the summary so far.
Pending == {i \in Of(own) : i > checkpoint[own]}
Starts == {i \in Pending : i = Min(Pending) \/ facts[i].kind = "user"}
Kept == {s \in Starts \ {Min(Pending)} :
           s = Max(Starts) \/ 2 * Cardinality({i \in Pending : i >= s}) <= Budget}
Cuts == {s \in Starts \ {Min(Pending)} :
           /\ s <= Min(Kept)
           /\ Cardinality({i \in Pending : i < s}) + (IF checkpoint[own] > 0 THEN 1 ELSE 0) <= Budget}
CanSummarize ==
  /\ Cardinality(Pending) <= (Batches + 1) * Budget
  /\ Cardinality(Starts) > 1 /\ Cuts # {}
Batch == [previous |-> checkpoint[own], through |-> Max({i \in Pending : i < Max(Cuts)})]
-----------------------------------------------------------------------------
\* The runtime, which all chats share.

\* FAULT: the next turn believes that the new runtime knows the history.
ForgetNative == native' = {} /\ UNCHANGED offset

\* _close_runtime_sync: the next runtime has another nonce, and no session of this one.
Forget == native' = {} /\ offset' = [e \in Epochs |-> 0]
Fresh == native = {} /\ \A e \in Epochs : offset[e] = 0

\* rotate() and finish(), in the registry's file.
Rotated(f) == [generation |-> f.generation + 1, state |-> "idle"]
Finished(f) == IF f.generation = lease THEN [f EXCEPT !.state = "idle"] ELSE f

EndTurn == /\ phase' = "idle" /\ own' = 0 /\ after' = 0 /\ batch' = 0
           /\ prefix' = Unused /\ lease' = 0 /\ shown' = {} /\ UNCHANGED turns
-----------------------------------------------------------------------------
\* reply(): one turn at a time.  The next task of the chat waits for its delivery
\* fact and for a stop, and is not admitted while the chat is being ended.
Start ==
  /\ phase = "idle" /\ told = 0 /\ control.does = "none" /\ turns < MaxTurns
  /\ turns' = turns + 1
  /\ phase' = "recovering" /\ own' = epoch /\ after' = offset[epoch] /\ batch' = 0
  /\ damaged' = (damaged /\ ~Fresh)
  /\ UNCHANGED <<prefix, lease, shown>>
  /\ UNCHANGED <<bounds, journal, file, offset, native, told, flag, control>>

\* recover_context is one step up to a summary, which it waits for.
Summarize ==
  /\ phase = "recovering" /\ Size(own, after) > Budget
  /\ batch < Batches /\ CanSummarize
  /\ prefix' = Batch /\ phase' = "summarizing"
  /\ UNCHANGED <<turns, own, after, batch, lease, shown>>
  /\ UNCHANGED <<bounds, journal, file, runtime, told, flag, control>>

\* save_checkpoint and the next round.
Summarized ==
  /\ phase = "summarizing"
  /\ checkpoint' = [checkpoint EXCEPT ![own] = prefix.through]
  /\ phase' = "recovering" /\ after' = 0 /\ batch' = batch + 1 /\ prefix' = Unused
  /\ UNCHANGED <<turns, own, lease, shown, facts, epoch>>
  /\ UNCHANGED <<bounds, file, runtime, told, flag, control>>

\* The history does not fit, a summary fails, or it is cancelled, by a stop or otherwise:
\* nothing is run.
NotRecovered ==
  /\ \/ /\ phase = "recovering" /\ Size(own, after) > Budget /\ (batch = Batches \/ ~CanSummarize)
        /\ UNCHANGED flag
     \/ phase = "summarizing" /\ flag' \in {flag, FALSE}
     \/ phase = "cancelled" /\ flag' = FALSE
  /\ EndTurn
  /\ UNCHANGED <<bounds, journal, file, runtime, told, control>>

\* begin(): a generation that is still marked as running is left.
Begun(f) ==
  [generation |-> IF f.state = "running" THEN f.generation + 1 ELSE f.generation, state |-> "running"]

Run ==
  /\ phase = "recovering" /\ Size(own, after) <= Budget
  /\ Append1("user")
  /\ file' = Begun(file) /\ lease' = file'.generation
  /\ shown' = Recovered(own, after) \cup {i \in DOMAIN facts : <<lease', i>> \in native}
  /\ native' = native \cup ({lease'} \X (Recovered(own, after) \cup {Len(facts')}))
  /\ phase' = "running"
  /\ UNCHANGED <<turns, own, after, batch, prefix, epoch, checkpoint, offset, damaged>>
  /\ UNCHANGED <<bounds, told, flag, control>>

Alive == \E i \in shown \cup {Len(facts)} : <<lease, i>> \in native

\* A file delivered or a confirmation asked for by a tool, which the run hears of.
Note ==
  /\ phase = "running" /\ Alive /\ facts[Len(facts)].kind = "user"
  /\ Append1("note") /\ native' = native \cup {<<lease, Len(facts')>>}
  /\ UNCHANGED <<epoch, checkpoint, offset, damaged>>
  /\ UNCHANGED <<bounds, file, turn, told, flag, control>>

Completes ==
  /\ phase = "running" /\ Alive /\ phase' = "ran"
  /\ UNCHANGED <<turns, own, after, batch, prefix, lease, shown>>
  /\ UNCHANGED <<bounds, journal, file, runtime, told, flag, control>>

Succeed ==
  /\ phase = "ran" /\ ~flag
  /\ Append1("assistant")
  /\ native' = IF Alive THEN native \cup {<<lease, Len(facts')>>} ELSE native
  /\ offset' = [offset EXCEPT ![own] = Len(facts')]
  /\ file' = Finished(file)
  /\ told' = own /\ EndTurn
  /\ UNCHANGED <<bounds, epoch, checkpoint, damaged, flag, control>>

\* record_delivery, in the epoch of its turn.
Deliver ==
  /\ told # 0
  /\ facts' = Append(facts, [epoch |-> told, kind |-> "delivery"]) /\ told' = 0
  /\ UNCHANGED <<bounds, epoch, checkpoint, file, runtime, turn, flag, control>>

Interrupted ==
  /\ phase \in {"running", "ran"} /\ flag
  /\ Append1("failed") /\ flag' = FALSE
  /\ file' = Finished(file) /\ EndTurn
  /\ UNCHANGED <<bounds, epoch, checkpoint, runtime, told, control>>

\* A failed run finds no stop and loses its runtime; it waits for that, and a stop may come
\* meanwhile, whose flag the next turn finds ...
Fails ==
  /\ phase \in {"running", "ran"} /\ ~flag
  /\ Forget /\ damaged' = FALSE
  /\ phase' = "failing"
  /\ UNCHANGED <<turns, own, after, batch, prefix, lease, shown>>
  /\ UNCHANGED <<bounds, journal, file, told, flag, control>>

Fault == faults < MaxFaults /\ faults' = faults + 1

\* ... then it gives up its generation, unless the file cannot be written.
FailEnds ==
  /\ phase = "failing"
  /\ Append1("failed") /\ EndTurn
  /\ \/ file' = Rotated(file) /\ UNCHANGED faults
     \/ file' = Finished(file) /\ Fault
  /\ UNCHANGED <<stops, boots, epoch, checkpoint, runtime, told, flag, control>>

\* The turn of another chat fails before this one's begins, or a stop of the other chat
\* closes the runtime in a thread of its own, perhaps late: in a turn of this chat.
OtherFails ==
  /\ native # {}
  /\ Forget /\ damaged' = (phase # "idle")
  /\ UNCHANGED <<bounds, journal, file, turn, told, flag, control>>
-----------------------------------------------------------------------------
\* stop_session and end_session.

\* A second stop cancels the first: a close that has begun goes on in its own thread.
StopCut ==
  /\ control.does = "stop" /\ control.at \in {"waiting", "closing"}
  /\ phase # "recovering"
  /\ control' = IF control.at = "closing" THEN [control EXCEPT !.does = "none"] ELSE Free
  /\ UNCHANGED <<bounds, journal, file, runtime, turn, told, flag>>

\* FAULT: the end does not wait for a recovery that it has cancelled.
WaitsNotAtAll == TRUE
Waited == phase = "idle"

\* A recovery is cancelled, unless the flag is set already, and waited for.
Stop(does) ==
  /\ stops < MaxStops /\ stops' = stops + 1
  /\ control = Free /\ (does = "end" => epoch <= MaxEnds)
  /\ \/ /\ phase \in {"summarizing", "cancelled"} /\ flag' = TRUE
        /\ phase' = IF flag THEN phase ELSE "cancelled"
        /\ control' = [does |-> does, at |-> "waiting"]
     \/ /\ phase \in {"running", "ran", "failing"} /\ flag' = TRUE /\ UNCHANGED phase
        /\ control' = [does |-> does, at |-> "closing"]
     \/ /\ phase = "idle" /\ does = "end" /\ UNCHANGED <<phase, flag>>
        /\ control' = [does |-> does, at |-> "acting"]
  /\ UNCHANGED <<faults, boots, journal, file, runtime, turns, own, after, batch, prefix, lease, shown, told>>

Wait ==
  /\ control.at = "waiting" /\ Waited
  /\ control' = [control EXCEPT !.at = "acting"]
  /\ UNCHANGED <<bounds, journal, file, runtime, turn, told, flag>>

\* The thread that closes the runtime, perhaps late: in the next turn.
Close ==
  /\ control.at = "closing" /\ Forget
  /\ damaged' = (phase # "idle" /\ (damaged \/ ~flag))
  /\ control' = IF control.does = "none" THEN Free ELSE [control EXCEPT !.at = "acting"]
  /\ UNCHANGED <<bounds, journal, file, turn, told, flag>>

\* FAULT: the ended chat keeps its generation.
EndKeptGeneration ==
  /\ phase # "recovering" /\ control = [does |-> "end", at |-> "acting"]
  /\ epoch' = epoch + 1
  /\ control' = Free
  /\ UNCHANGED <<bounds, facts, checkpoint, file, runtime, turn, told, flag>>

\* The journal's epoch, then the generation: if the file cannot be written, it is kept.
End ==
  /\ phase # "recovering" /\ control = [does |-> "end", at |-> "acting"]
  /\ epoch' = epoch + 1
  /\ \/ file' = Rotated(file) /\ UNCHANGED <<faults, damaged>>
     \/ Fault /\ damaged' = TRUE /\ UNCHANGED file
  /\ control' = Free
  /\ UNCHANGED <<stops, boots, facts, checkpoint, offset, native, turn, told, flag>>

Stopped ==
  /\ phase # "recovering" /\ control = [does |-> "stop", at |-> "acting"]
  /\ \/ file' = Rotated(file) /\ UNCHANGED faults
     \/ Fault /\ UNCHANGED file
  /\ control' = Free
  /\ UNCHANGED <<stops, boots, journal, runtime, turn, told, flag>>
-----------------------------------------------------------------------------
\* An unreadable file counts as an empty one.
FileLost ==
  /\ Fault /\ file.generation > 1
  /\ file' = [generation |-> 1, state |-> "idle"]
  /\ damaged' = TRUE
  /\ UNCHANGED <<stops, boots, journal, offset, native, turn, told, flag, control>>

\* finish() cannot write the file: the reply fails, and the generation stays running.
FinishFails ==
  /\ phase = "ran" /\ ~flag /\ Fault
  /\ Append1("failed") /\ EndTurn
  /\ damaged' = TRUE
  /\ UNCHANGED <<stops, boots, epoch, checkpoint, file, offset, native, told, flag, control>>

Restart ==
  /\ boots < MaxBoots /\ boots' = boots + 1
  /\ Forget /\ damaged' = FALSE
  /\ EndTurn /\ told' = 0 /\ flag' = FALSE /\ control' = Free
  /\ UNCHANGED <<stops, faults, journal, file>>

Next ==
  \/ Start \/ Summarize \/ Summarized \/ NotRecovered \/ Run \/ Note \/ Completes \/ Succeed
  \/ Deliver \/ Interrupted \/ Fails \/ FailEnds \/ OtherFails
  \/ Stop("stop") \/ Stop("end") \/ StopCut \/ Wait \/ Close \/ End \/ Stopped
  \/ FileLost \/ FinishFails \/ Restart

Spec == Init /\ [][Next]_vars
-----------------------------------------------------------------------------
\* A run starts with every fact of its epoch: in its native session, in a summary, or in
\* the recovered context, whatever closed the runtime before.
HistoryComplete ==
  phase = "running" /\ ~damaged =>
    {i \in Of(own) : \E j \in Of(own) : i < j /\ facts[j].kind = "user"} \subseteq shown

\* A run knows nothing of an epoch that has ended.
HistoryOwn ==
  phase = "running" /\ ~damaged => \A i \in shown : facts[i].epoch = own

\* A summary is published against the epoch and the summary that it was made from: the
\* check of save_checkpoint never fails within one process.
SummaryStillValid ==
  phase = "summarizing" =>
    epoch = own /\ checkpoint[own] = prefix.previous /\ prefix.through > prefix.previous
=============================================================================
