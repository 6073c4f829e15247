-------------------------- MODULE SessionMemory_proofs --------------------------
(***************************************************************************)
(* Proofs about SessionMemory.tla, for any budget, any number of summaries *)
(* per turn, turns, stops, ends, faults and restarts.                      *)
(***************************************************************************)
EXTENDS SessionMemory, FiniteSetTheorems, SequenceTheorems, TLAPS

(***************************************************************************)
(* The inductive invariant.                                                *)
(***************************************************************************)
InRun == phase \in {"running", "ran"}

\* Positions are of facts that are there.
Positioned == \A e \in Epochs : checkpoint[e] <= Len(facts) /\ offset[e] <= Len(facts)

\* What the sessions know, and what a run was shown, is in the journal.
Known ==
  /\ \A g, i \in Nat : <<g, i>> \in native => i \in 1..Len(facts)
  /\ phase = "running" => shown \subseteq 1..Len(facts)

\* An epoch to come has no history.
NewEpochs == \A e \in Epochs : e > epoch => offset[e] = 0

\* A summary that is being made is of facts that are there.
SummaryThere == phase = "summarizing" => prefix.through \in 1..Len(facts)

\* A turn has an epoch, and the delivery fact of the one before it.
InTurn == phase # "idle" => own \in Epochs /\ own <= epoch /\ told = 0

\* What a stop or an end may be doing in which phase of the turn.
Controlled ==
  /\ control.does = "none" => control.at \in {"none", "closing"}
  /\ control.at = "none" => control.does = "none"
  /\ control.does = "end" => epoch <= MaxEnds
  /\ phase # "idle" /\ control.does # "none" => flag
  /\ phase \in {"recovering", "summarizing", "cancelled"} => control.at # "acting"
  /\ phase \in {"recovering", "summarizing"} /\ control.at = "closing" => control.does = "none"
  /\ phase = "cancelled" => flag /\ control.at # "closing"
  /\ phase = "failing" => control.at # "waiting"

\* No end of the chat comes into a recovery.
OwnEpoch == phase \in {"recovering", "summarizing", "cancelled"} => own = epoch

\* The file's generation, and what its sessions know, is of the epoch, unless the file was lost.
Generations ==
  ~damaged =>
    \A g, i \in Nat :
      <<g, i>> \in native =>
        g <= file.generation /\ (g = file.generation => facts[i].epoch = epoch)

\* So is the run in it.
LeaseEpoch ==
  ~damaged /\ InRun => lease <= file.generation /\ (lease = file.generation => own = epoch)

\* A stopped run has no runtime that a later turn could take over, or will lose it.
StoppedRun ==
  InRun /\ flag => control.at = "closing" \/ \A e \in Epochs : offset[e] = 0

\* A failed run has no runtime; nor is there one while the flag of a stop that came too late
\* for it is left.
FailedRun ==
  phase = "failing" \/ (flag /\ phase \in {"idle", "recovering", "summarizing"}) => Fresh

\* The latest fact is of the run.
LastFact == InRun => Len(facts) > 0 /\ facts[Len(facts)].epoch = own

\* The session of a run knows all of its epoch.
RunKnows ==
  InRun /\ ~damaged /\ (~flag \/ offset[epoch] # 0) =>
    /\ lease = file.generation /\ own = epoch
    /\ \A i \in Of(epoch) : <<lease, i>> \in native

\* Between two runs the session that the file names knows the facts up to the offset.
RestKnows ==
  ~InRun /\ ~damaged /\ offset[epoch] # 0 =>
    /\ file.state = "idle"
    /\ \A i \in Of(epoch) : i <= offset[epoch] => <<file.generation, i>> \in native

\* After the offset there is a delivery at most, unless a stopped runtime is still to close.
Beyond == {i \in Of(epoch) : i > offset[epoch]}
FewBeyond ==
  phase \in {"idle", "recovering"} /\ ~damaged /\ offset[epoch] # 0 /\ control.at # "closing" =>
    /\ checkpoint[epoch] <= offset[epoch]
    /\ \A i, j \in Beyond : i = j
    /\ told = epoch => Beyond = {}

\* A recovery starts at the offset; a summary is only ever made from the first fact on.
RecoversFrom ==
  ~damaged =>
    /\ phase = "recovering" =>
         after = offset[own] \/ (after = 0 /\ (offset[own] = 0 \/ control.at = "closing"))
    /\ phase \in {"summarizing", "cancelled"} => offset[own] = 0 \/ control.at = "closing"

\* A stop gives up a generation that the next turn does not count on.
StopForgets ==
  ~damaged /\ control.does = "stop" /\ control.at \in {"waiting", "acting"} => offset[epoch] = 0

MemoryInv ==
  /\ Positioned /\ Known /\ NewEpochs /\ SummaryThere /\ InTurn /\ Controlled
  /\ OwnEpoch /\ Generations /\ LeaseEpoch /\ StoppedRun /\ FailedRun
  /\ LastFact /\ RunKnows /\ RestKnows /\ FewBeyond /\ RecoversFrom /\ StopForgets
  /\ SummaryStillValid /\ HistoryOwn /\ HistoryComplete

(***************************************************************************)
(* Smallest and largest elements.                                          *)
(***************************************************************************)
\* Every set of naturals with an element has a smallest one.
LEMMA Smallest ==
  ASSUME NEW S \in SUBSET Nat, S # {}
  PROVE  \E x \in S : \A y \in S : x <= y
<1>1. PICK x \in S : \A y \in S : <<y, x>> \notin OpToRel(<, Nat)
  BY NatLessThanWellFounded, WFMin, Zenon
<1>2. \A y \in S : ~(y < x)
  BY <1>1 DEF OpToRel
<1>3. QED
  BY <1>2

\* Min is in its set.
LEMMA MinOf ==
  ASSUME NEW S \in SUBSET Nat, S # {}
  PROVE  Min(S) \in S /\ \A y \in S : Min(S) <= y
BY Smallest DEF Min

\* Max is in its set, if the set is bounded.
LEMMA MaxOf ==
  ASSUME NEW n \in Nat, NEW S \in SUBSET (0..n), S # {}
  PROVE  Max(S) \in S /\ \A y \in S : Max(S) >= y
<1> DEFINE T == {n - x : x \in S}
<1>1. \A x \in S : n - x \in Nat
  OBVIOUS
<1>2. T \in SUBSET Nat
  BY <1>1
<1>3. T # {}
  OBVIOUS
<1>4. PICK t \in T : \A y \in T : t <= y
  BY <1>2, <1>3, Smallest
<1>5. PICK x \in S : t = n - x
  BY <1>4
<1>6. \A y \in S : x >= y
  BY <1>4, <1>5
<1>7. QED
  BY <1>6 DEF Max

(***************************************************************************)
(* The journal and its summaries.                                          *)
(***************************************************************************)
FactType == [epoch : Epochs, kind : Kinds]
FileType == [generation : Nat, state : {"idle", "running"}]
ControlType ==
  [does : {"none", "stop", "end"}, at : {"none", "waiting", "closing", "acting"}]

\* The constants are naturals.
LEMMA Limits ==
  /\ MaxTurns \in Nat /\ MaxStops \in Nat /\ MaxEnds \in Nat /\ MaxFaults \in Nat
  /\ MaxBoots \in Nat /\ Batches \in Nat /\ Budget \in Nat /\ Budget >= 1
  /\ \A e \in Epochs : e \in Nat /\ e # 0
BY SessionMemoryAssumption DEF Epochs

\* The journal has one fact more.
Grown(e, k) ==
  /\ facts' \in Seq(FactType)
  /\ Len(facts') = Len(facts) + 1 /\ DOMAIN facts' = 1..(Len(facts) + 1)
  /\ \A i \in 1..Len(facts) : facts'[i] = facts[i]
  /\ facts'[Len(facts) + 1].epoch = e /\ facts'[Len(facts) + 1].kind = k

\* Positions in the journal, and other types that the steps below use.
LEMMA Positions ==
  ASSUME TypeOK
  PROVE  /\ Len(facts) \in Nat /\ DOMAIN facts = 1..Len(facts)
         /\ \A e \in Epochs : Of(e) \subseteq 1..Len(facts)
         /\ \A i \in 1..Len(facts) : facts[i].epoch \in Epochs
         /\ offset \in [Epochs -> Nat] /\ checkpoint \in [Epochs -> Nat]
         /\ native \in SUBSET (Nat \X Nat)
         /\ epoch \in Epochs /\ lease \in Nat /\ after \in Nat /\ file.generation \in Nat
<1>1. facts \in Seq(FactType)
  BY DEF TypeOK, FactType
<1>2. /\ Len(facts) \in Nat /\ DOMAIN facts = 1..Len(facts)
      /\ \A i \in 1..Len(facts) : facts[i] \in FactType
  BY <1>1, LenProperties, ElementOfSeq
<1>3. \A e \in Epochs : Of(e) \subseteq 1..Len(facts)
  BY <1>2 DEF Of
<1>4. \A i \in 1..Len(facts) : facts[i].epoch \in Epochs
  BY <1>2 DEF FactType
<1>5. QED
  BY <1>2, <1>3, <1>4 DEF TypeOK

\* What Append does.
LEMMA Appended ==
  ASSUME TypeOK, NEW e \in Epochs, NEW k \in Kinds,
         facts' = Append(facts, [epoch |-> e, kind |-> k])
  PROVE  Grown(e, k)
<1> DEFINE fact == [epoch |-> e, kind |-> k]
<1>1. facts \in Seq(FactType) /\ fact \in FactType
  BY DEF TypeOK, FactType
<1>2. /\ facts' \in Seq(FactType) /\ Len(facts') = Len(facts) + 1
      /\ \A i \in 1..Len(facts) : facts'[i] = facts[i]
      /\ facts'[Len(facts) + 1] = fact
  BY <1>1, AppendProperties
<1>3. DOMAIN facts' = 1..Len(facts')
  BY <1>2, LenProperties
<1>4. QED
  BY <1>2, <1>3 DEF Grown

\* What the registry's operations make of the chat's record.
LEMMA FileAfter ==
  ASSUME TypeOK
  PROVE  /\ /\ Rotated(file) \in FileType
            /\ Rotated(file).generation = file.generation + 1 /\ Rotated(file).state = "idle"
         /\ /\ Begun(file) \in FileType /\ Begun(file).state = "running"
            /\ Begun(file).generation \in {file.generation, file.generation + 1}
            /\ file.state = "idle" => Begun(file).generation = file.generation
         /\ /\ Finished(file) \in FileType /\ Finished(file).generation = file.generation
            /\ file.generation = lease => Finished(file).state = "idle"
            /\ file.generation # lease => Finished(file).state = file.state
         /\ file \in FileType
<1>1. file \in FileType
  BY DEF TypeOK, FileType
<1>2. PICK g \in Nat, s \in {"idle", "running"} : file = [generation |-> g, state |-> s]
  BY <1>1 DEF FileType
<1>3. QED
  BY <1>2 DEF Rotated, Begun, Finished, FileType

\* The steps of a stop.
LEMMA StopCutEffect ==
  ASSUME TypeOK, StopCut
  PROVE  /\ control.does = "stop" /\ control.at \in {"waiting", "closing"}
         /\ phase # "recovering"
         /\ control' \in ControlType /\ control'.does = "none"
         /\ control'.at = IF control.at = "closing" THEN "closing" ELSE "none"
         /\ UNCHANGED <<bounds, journal, file, runtime, turn, told, flag>>
<1>1. control \in ControlType
  BY DEF TypeOK, ControlType
<1>2. PICK d \in {"none", "stop", "end"}, a \in {"none", "waiting", "closing", "acting"} :
        control = [does |-> d, at |-> a]
  BY <1>1 DEF ControlType
<1>3. QED
  BY <1>2 DEF StopCut, Free, ControlType

\* It waits for the recovery that it has cancelled ...
LEMMA WaitEffect ==
  ASSUME TypeOK, Wait
  PROVE  /\ control.at = "waiting" /\ phase = "idle"
         /\ control' \in ControlType /\ control'.does = control.does /\ control'.at = "acting"
         /\ UNCHANGED <<bounds, journal, file, runtime, turn, told, flag>>
<1>1. control \in ControlType
  BY DEF TypeOK, ControlType
<1>2. PICK d \in {"none", "stop", "end"}, a \in {"none", "waiting", "closing", "acting"} :
        control = [does |-> d, at |-> a]
  BY <1>1 DEF ControlType
<1>3. QED
  BY <1>2 DEF Wait, Waited, ControlType

\* ... or closes the runtime.
LEMMA CloseEffect ==
  ASSUME TypeOK, Close
  PROVE  /\ control.at = "closing" /\ control' \in ControlType
         /\ IF control.does = "none" THEN control' = Free
                                     ELSE control'.does = control.does /\ control'.at = "acting"
         /\ native' = {} /\ offset' \in [Epochs -> {0}]
         /\ damaged' = (phase # "idle" /\ (damaged \/ ~flag))
         /\ UNCHANGED <<bounds, journal, file, turn, told, flag>>
<1>1. control \in ControlType
  BY DEF TypeOK, ControlType
<1>2. PICK d \in {"none", "stop", "end"}, a \in {"none", "waiting", "closing", "acting"} :
        control = [does |-> d, at |-> a]
  BY <1>1 DEF ControlType
<1>3. /\ control' \in ControlType
      /\ control.does # "none" => control'.does = control.does /\ control'.at = "acting"
  BY <1>2 DEF Close, Free, ControlType
<1>4. QED
  BY <1>3 DEF Close, Forget

\* A run in the runtime's session of its generation.
LEMMA RunEffect ==
  ASSUME TypeOK, InTurn, Run
  PROVE  /\ own \in Epochs /\ Grown(own, "user")
         /\ file' = Begun(file) /\ lease' = Begun(file).generation
         /\ \A i \in Of(own) : i > after \/ checkpoint[own] > after => i \in Recovered(own, after)
         /\ Recovered(own, after) \subseteq Of(own)
         /\ shown' \subseteq DOMAIN facts
         /\ \A i \in DOMAIN facts :
              i \in shown' <=> i \in Recovered(own, after) \/ <<lease', i>> \in native
         /\ native' \in SUBSET (Nat \X Nat)
         /\ \A g, i \in Nat :
              <<g, i>> \in native' <=>
                \/ <<g, i>> \in native
                \/ g = lease' /\ (i \in Recovered(own, after) \/ i = Len(facts) + 1)
         /\ phase = "recovering" /\ phase' = "running"
         /\ UNCHANGED <<turns, own, after, batch, prefix, epoch, checkpoint, offset, damaged>>
         /\ UNCHANGED <<bounds, told, flag, control>>
<1>1. own \in Epochs /\ Grown(own, "user")
  BY Appended DEF Run, Append1, InTurn, Kinds
<1>2. Len(facts) \in Nat /\ DOMAIN facts = 1..Len(facts) /\ Of(own) \subseteq 1..Len(facts)
  BY <1>1, Positions
<1>3. checkpoint[own] \in Nat /\ after \in Nat
  BY <1>1 DEF TypeOK
<1>4. /\ Recovered(own, after) \subseteq Of(own)
      /\ \A i \in Of(own) : i > after \/ checkpoint[own] > after => i \in Recovered(own, after)
  BY <1>2, <1>3 DEF Recovered, Summary
<1>5. file' = Begun(file) /\ lease' = Begun(file).generation /\ lease' \in Nat
  BY FileAfter DEF Run, FileType
<1>6. /\ shown' = Recovered(own, after) \cup {i \in DOMAIN facts : <<lease', i>> \in native}
      /\ native' = native \cup ({lease'} \X (Recovered(own, after) \cup {Len(facts) + 1}))
  BY <1>1 DEF Run, Grown
<1>7. native \in SUBSET (Nat \X Nat)
  BY DEF TypeOK
<1> HIDE DEF Recovered
<1>8. /\ native' \in SUBSET (Nat \X Nat)
      /\ \A g, i \in Nat :
           <<g, i>> \in native' <=>
             \/ <<g, i>> \in native
             \/ g = lease' /\ (i \in Recovered(own, after) \/ i = Len(facts) + 1)
  BY <1>2, <1>4, <1>5, <1>6, <1>7
<1>9. /\ shown' \subseteq DOMAIN facts
      /\ \A i \in DOMAIN facts :
           i \in shown' <=> i \in Recovered(own, after) \/ <<lease', i>> \in native
  BY <1>2, <1>4, <1>6
<1>10. QED
  BY <1>1, <1>4, <1>5, <1>8, <1>9 DEF Run

\* A session that is told of the latest fact.
LEMMA Tell ==
  ASSUME TypeOK, native' = native \cup {<<lease, Len(facts) + 1>>}
  PROVE  /\ native' \in SUBSET (Nat \X Nat)
         /\ \A g, i \in Nat :
              <<g, i>> \in native' <=> <<g, i>> \in native \/ (g = lease /\ i = Len(facts) + 1)
<1>1. lease \in Nat /\ native \in SUBSET (Nat \X Nat) /\ Len(facts) \in Nat
  BY DEF TypeOK
<1>2. <<lease, Len(facts) + 1>> \in Nat \X Nat
  BY <1>1
<1>3. native' \in SUBSET (Nat \X Nat)
  BY <1>1, <1>2
<1>4. \A g, i \in Nat :
        <<g, i>> \in native' <=> <<g, i>> \in native \/ <<g, i>> = <<lease, Len(facts) + 1>>
  OBVIOUS
<1>5. QED
  BY <1>3, <1>4

\* A summary covers at least one fact more than the one that it is made from.
LEMMA BatchGrows ==
  ASSUME TypeOK, own \in Epochs, CanSummarize
  PROVE  /\ Batch \in [previous : Nat, through : Nat]
         /\ Batch.previous = checkpoint[own] /\ Batch.through > checkpoint[own]
         /\ Batch.through \in 1..Len(facts)
<1>1. /\ Len(facts) \in Nat /\ checkpoint[own] \in Nat
      /\ Pending \in SUBSET (1..Len(facts)) /\ \A i \in Pending : i > checkpoint[own]
  BY Positions DEF Pending
<1>2. /\ Cuts # {} /\ Cuts \subseteq Pending \ {Min(Pending)}
  BY DEF CanSummarize, Cuts, Starts
<1> HIDE DEF Pending, Cuts
<1>3. Max(Cuts) \in Cuts
  <2>1. Cuts \in SUBSET (0..Len(facts))
    BY <1>1, <1>2
  <2>2. QED
    BY <1>1, <1>2, <2>1, MaxOf
<1>4. Max(Cuts) \in Pending /\ Max(Cuts) # Min(Pending)
  BY <1>2, <1>3
<1>5. Min(Pending) \in Pending /\ Min(Pending) <= Max(Cuts)
  <2>1. Pending \in SUBSET Nat /\ Pending # {}
    BY <1>1, <1>4
  <2>2. QED
    BY <1>4, <2>1, MinOf
<1> DEFINE first == Min(Pending)
           last == Max(Cuts)
           covered == {i \in Pending : i < last}
<1>6. first \in covered /\ covered \in SUBSET (0..Len(facts))
  <2>1. /\ first \in Pending /\ last \in Pending /\ first <= last /\ first # last
    BY <1>4, <1>5
  <2> HIDE DEF first, last
  <2>2. first < last
    BY <1>1, <2>1
  <2>3. first \in covered
    BY <2>1, <2>2
  <2>4. \A i \in covered : i \in 0..Len(facts)
    BY <1>1
  <2>5. QED
    BY <2>3, <2>4, Zenon
<1>7. covered # {}
  BY <1>6
<1>8. Max(covered) \in covered
  BY <1>1, <1>6, <1>7, MaxOf
<1>9. Max(covered) \in 1..Len(facts) /\ Max(covered) > checkpoint[own]
  BY <1>1, <1>8
<1>10. Batch = [previous |-> checkpoint[own], through |-> Max(covered)]
  BY DEF Batch
<1> HIDE DEF covered
<1>11. QED
  BY <1>1, <1>9, <1>10

\* A set whose elements are all the same one is empty or has one element.
LEMMA AtMostOne ==
  ASSUME NEW S, \A i, j \in S : i = j
  PROVE  Cardinality(S) \in {0, 1}
<1>1. CASE S = {}
  BY <1>1, FS_EmptySet
<1>2. CASE S # {}
  <2>1. PICK i \in S : S = {i}
    BY <1>2
  <2>2. QED
    BY <2>1, FS_Singleton
<1>3. QED
  BY <1>1, <1>2

\* A failed run ends.
LEMMA FailEndsEffect ==
  ASSUME TypeOK, InTurn, FailEnds
  PROVE  /\ phase = "failing" /\ phase' = "idle"
         /\ own \in Epochs /\ Grown(own, "failed")
         /\ UNCHANGED <<epoch, checkpoint, offset, native, damaged, told, flag, control>>
<1>1. own \in Epochs /\ Grown(own, "failed")
  BY Appended DEF FailEnds, Append1, InTurn, Kinds
<1>2. QED
  BY <1>1 DEF FailEnds, EndTurn, runtime

\* The end of a chat opens an epoch without history.
LEMMA EndEffect ==
  ASSUME TypeOK, Controlled, NewEpochs, End
  PROVE  /\ epoch' = epoch + 1 /\ epoch' \in Epochs
         /\ UNCHANGED offset /\ offset[epoch'] = 0
<1>1. epoch' = epoch + 1 /\ UNCHANGED offset /\ epoch <= MaxEnds
  BY DEF End, Controlled
<1>2. epoch \in Nat /\ epoch >= 1 /\ MaxEnds \in Nat
  BY Limits, Positions DEF Epochs
<1>3. epoch' \in Epochs
  BY <1>1, <1>2 DEF Epochs
<1>4. QED
  BY <1>1, <1>2, <1>3 DEF NewEpochs

\* A run starts with all the facts of its epoch.
LEMMA RunShows ==
  ASSUME TypeOK, InTurn, OwnEpoch, RestKnows, RecoversFrom, Run, ~damaged
  PROVE  \A i \in Of(own) : i \in Recovered(own, after) \/ <<lease', i>> \in native
<1>1. /\ own = epoch /\ own \in Epochs /\ phase = "recovering"
      /\ checkpoint[own] \in Nat /\ after \in Nat /\ Of(own) \subseteq 1..Len(facts)
      /\ \A i \in Of(own) : i > after => i \in Recovered(own, after)
      /\ lease' = Begun(file).generation
  BY RunEffect, Positions DEF OwnEpoch
<1>2. ASSUME NEW i \in Of(own), i <= after
      PROVE  <<lease', i>> \in native
  <2>1. after # 0
    BY <1>1, <1>2
  <2>2. after = offset[own]
    BY <1>1, <2>1 DEF RecoversFrom
  <2>3. file.state = "idle" /\ <<file.generation, i>> \in native
    BY <1>1, <1>2, <2>1, <2>2 DEF RestKnows, InRun
  <2>4. QED
    BY <1>1, <2>3, FileAfter
<1>3. ASSUME NEW i \in Of(own)
      PROVE  i \in Recovered(own, after) \/ <<lease', i>> \in native
  <2>1. i > after \/ i <= after
    BY <1>1
  <2>2. QED
    BY <1>1, <1>2, <2>1
<1>4. QED
  BY <1>3

(***************************************************************************)
(* Types.                                                                  *)
(***************************************************************************)
JournalType == facts \in Seq(FactType) /\ epoch \in Epochs /\ checkpoint \in [Epochs -> Nat]
RuntimeType == offset \in [Epochs -> Nat] /\ native \in SUBSET (Nat \X Nat) /\ damaged \in BOOLEAN
TurnType ==
  /\ turns \in 0..MaxTurns
  /\ phase \in {"idle", "recovering", "summarizing", "cancelled", "running", "ran", "failing"}
  /\ own \in Epochs \cup {0} /\ after \in Nat /\ batch \in Nat /\ lease \in Nat
  /\ prefix \in [previous : Nat, through : Nat] /\ shown \in SUBSET Nat
RestType ==
  /\ stops \in 0..MaxStops /\ faults \in 0..MaxFaults /\ boots \in 0..MaxBoots
  /\ file \in FileType /\ told \in Epochs \cup {0} /\ flag \in BOOLEAN
  /\ control \in ControlType

\* The type invariant in these parts.
LEMMA Typed == TypeOK <=> JournalType /\ RuntimeType /\ TurnType /\ RestType
BY DEF TypeOK, JournalType, RuntimeType, TurnType, RestType, FactType, FileType, ControlType

\* The initial state is of these types.
LEMMA InitType == Init => TypeOK
<1>1. SUFFICES ASSUME Init PROVE TypeOK
  OBVIOUS
<1>2. JournalType
  <2>1. facts \in Seq(FactType)
    BY <1>1, EmptySeq DEF Init
  <2>2. 1 \in Epochs
    BY Limits DEF Epochs
  <2>3. QED
    BY <1>1, <2>1, <2>2 DEF Init, JournalType
<1>3. RuntimeType /\ TurnType
  <2>1. RuntimeType
    BY <1>1 DEF Init, RuntimeType
  <2>2. turns \in 0..MaxTurns
    BY <1>1, Limits DEF Init
  <2>3. QED
    BY <1>1, <2>1, <2>2 DEF Init, TurnType, Unused
<1>4. file \in FileType /\ control \in ControlType
  BY <1>1 DEF Init, FileType, ControlType, Free
<1>5. RestType
  <2>1. stops \in 0..MaxStops /\ faults \in 0..MaxFaults /\ boots \in 0..MaxBoots
    BY <1>1, Limits DEF Init
  <2>2. QED
    BY <1>1, <1>4, <2>1 DEF Init, RestType
<1>6. QED
  BY <1>2, <1>3, <1>5, Typed

\* A turn that ends leaves nothing behind.
LEMMA TurnEnds == ASSUME TurnType, EndTurn PROVE TurnType'
BY DEF TurnType, EndTurn, Unused

\* So does a runtime that is closed.
LEMMA Forgets == ASSUME Forget, damaged' \in BOOLEAN PROVE RuntimeType'
BY DEF RuntimeType, Forget

\* The journal's own fact.
LEMMA Writes ==
  ASSUME TypeOK, own \in Epochs, NEW k \in Kinds, Append1(k), UNCHANGED <<epoch, checkpoint>>
  PROVE  JournalType' /\ Len(facts') = Len(facts) + 1
<1>1. JournalType
  BY Typed
<1>2. QED
  BY <1>1, Appended DEF Append1, Grown, JournalType

\* Every step keeps the types.
LEMMA NextType ==
  ASSUME TypeOK, InTurn, Controlled, SummaryThere, NewEpochs, [Next]_vars
  PROVE  TypeOK'
<1> DEFINE Types == JournalType /\ RuntimeType /\ TurnType /\ RestType
<1>0. Types
  BY Typed
<1>1. ASSUME Start PROVE Types'
  BY <1>1, <1>0, Limits DEF Start, journal, bounds, JournalType, RuntimeType, TurnType, RestType
<1>2. ASSUME Summarize PROVE Types'
  <2>1. prefix' \in [previous : Nat, through : Nat]
    BY <1>2, BatchGrows DEF Summarize, InTurn
  <2>2. QED
    BY <1>2, <1>0, <2>1
    DEF Summarize, journal, runtime, bounds, JournalType, RuntimeType, TurnType, RestType
<1>3. ASSUME Summarized PROVE Types'
  <2>1. prefix.through \in Nat /\ own \in Epochs
    BY <1>3 DEF Summarized, SummaryThere, InTurn
  <2>2. QED
    BY <1>3, <1>0, <2>1
    DEF Summarized, Unused, runtime, bounds, JournalType, RuntimeType, TurnType, RestType
<1>4. ASSUME NotRecovered PROVE Types'
  <2>1. TurnType'
    BY <1>4, <1>0, TurnEnds DEF NotRecovered
  <2>2. flag' \in BOOLEAN
    BY <1>4, <1>0 DEF NotRecovered, RestType
  <2>3. QED
    BY <1>4, <1>0, <2>1, <2>2
    DEF NotRecovered, journal, runtime, bounds, JournalType, RuntimeType, RestType
<1>5. ASSUME Run PROVE Types'
  <2>1. JournalType' /\ RuntimeType'
    BY <1>5, <1>0, RunEffect DEF JournalType, RuntimeType, Grown
  <2>2. lease' \in Nat /\ file' \in FileType /\ shown' \in SUBSET Nat
    BY <1>5, RunEffect, FileAfter, Positions DEF FileType
  <2>3. QED
    BY <1>5, <1>0, <2>1, <2>2, RunEffect DEF TurnType, RestType, bounds
<1>6. ASSUME Note PROVE Types'
  <2>1. own \in Epochs
    BY <1>6 DEF Note, InTurn
  <2>2. JournalType' /\ Len(facts') = Len(facts) + 1
    BY <1>6, <2>1, Writes DEF Note, Kinds
  <2>3. RuntimeType'
    BY <1>6, <1>0, <2>2, Tell DEF Note, RuntimeType
  <2>4. QED
    BY <1>6, <1>0, <2>2, <2>3 DEF Note, turn, bounds, TurnType, RestType
<1>7. ASSUME Completes PROVE Types'
  BY <1>7, <1>0
  DEF Completes, journal, runtime, bounds, JournalType, RuntimeType, TurnType, RestType
<1>8. ASSUME Succeed PROVE Types'
  <2>1. own \in Epochs
    BY <1>8 DEF Succeed, InTurn
  <2>2. JournalType' /\ Len(facts') = Len(facts) + 1
    BY <1>8, <2>1, Writes DEF Succeed, Kinds
  <2>3. native' \in SUBSET (Nat \X Nat)
    BY <1>8, <1>0, <2>2, Tell DEF Succeed, RuntimeType
  <2>4. RuntimeType'
    BY <1>8, <1>0, <2>1, <2>2, <2>3 DEF Succeed, RuntimeType
  <2>5. TurnType'
    BY <1>8, <1>0, TurnEnds DEF Succeed
  <2>6. RestType'
    BY <1>8, <1>0, <2>1, FileAfter DEF Succeed, RestType, bounds
  <2>7. QED
    BY <2>2, <2>4, <2>5, <2>6
<1>9. ASSUME Deliver PROVE Types'
  <2>1. JournalType'
    BY <1>9, <1>0, Appended DEF Deliver, JournalType, RestType, Grown, Kinds
  <2>2. QED
    BY <1>9, <1>0, <2>1 DEF Deliver, RuntimeType, TurnType, RestType, runtime, turn, bounds
<1>10. ASSUME Interrupted PROVE Types'
  <2>1. own \in Epochs
    BY <1>10 DEF Interrupted, InTurn
  <2>2. JournalType'
    BY <1>10, <2>1, Writes DEF Interrupted, Kinds
  <2>3. TurnType'
    BY <1>10, <1>0, TurnEnds DEF Interrupted
  <2>4. RuntimeType'
    BY <1>10, <1>0 DEF Interrupted, RuntimeType, runtime
  <2>5. RestType'
    BY <1>10, <1>0, FileAfter DEF Interrupted, RestType, bounds
  <2>6. QED
    BY <2>2, <2>3, <2>4, <2>5
<1>11. ASSUME Fails PROVE Types'
  <2>1. RuntimeType'
    BY <1>11, Forgets DEF Fails
  <2>2. QED
    BY <1>11, <1>0, <2>1 DEF Fails, journal, bounds, JournalType, TurnType, RestType
<1>12. ASSUME OtherFails PROVE Types'
  <2>1. RuntimeType'
    BY <1>12, Forgets DEF OtherFails
  <2>2. QED
    BY <1>12, <1>0, <2>1 DEF OtherFails, journal, turn, bounds, JournalType, TurnType, RestType
<1>13. ASSUME NEW does \in {"stop", "end"}, Stop(does) PROVE Types'
  <2>1. control' \in ControlType
    BY <1>13 DEF Stop, ControlType
  <2>2. stops' \in 0..MaxStops
    BY <1>13, <1>0, Limits DEF Stop, RestType
  <2>3. flag' \in BOOLEAN
    BY <1>13, <1>0 DEF Stop, RestType
  <2>4. phase' = phase \/ phase' = "cancelled"
    BY <1>13 DEF Stop
  <2>5. QED
    BY <1>13, <1>0, <2>1, <2>2, <2>3, <2>4
    DEF Stop, journal, runtime, JournalType, RuntimeType, TurnType, RestType
<1>14. ASSUME StopCut PROVE Types'
  BY <1>14, <1>0, StopCutEffect
  DEF journal, runtime, turn, bounds, JournalType, RuntimeType, TurnType, RestType
<1>15. ASSUME Wait PROVE Types'
  BY <1>15, <1>0, WaitEffect
  DEF journal, runtime, turn, bounds, JournalType, RuntimeType, TurnType, RestType
<1>16. ASSUME Close PROVE Types'
  <2>1. RuntimeType'
    BY <1>16, <1>0, Forgets DEF Close
  <2>2. QED
    BY <1>16, <1>0, <2>1, CloseEffect DEF journal, turn, bounds, JournalType, TurnType, RestType
<1>17. ASSUME End PROVE Types'
  <2>1. epoch' \in Epochs
    BY <1>17, EndEffect
  <2>2. file' \in FileType /\ damaged' \in BOOLEAN
    BY <1>17, <1>0, FileAfter DEF End, RuntimeType
  <2>3. faults' \in 0..MaxFaults
    BY <1>17, <1>0, Limits DEF End, Fault, RestType
  <2>4. control' \in ControlType
    BY <1>17 DEF End, Free, ControlType
  <2>5. JournalType' /\ RuntimeType' /\ TurnType'
    BY <1>17, <1>0, <2>1, <2>2 DEF End, turn, JournalType, RuntimeType, TurnType
  <2>6. QED
    BY <1>17, <1>0, <2>2, <2>3, <2>4, <2>5 DEF End, RestType
<1>18. ASSUME Stopped PROVE Types'
  <2>1. Free \in ControlType
    BY DEF Free, ControlType
  <2>2. file' \in FileType /\ control' \in ControlType
    BY <1>18, <1>0, <2>1, FileAfter DEF Stopped
  <2>3. faults' \in 0..MaxFaults
    BY <1>18, <1>0, Limits DEF Stopped, Fault, RestType
  <2>4. UNCHANGED <<stops, boots, journal, runtime, turn, told, flag>>
    BY <1>18 DEF Stopped
  <2>5. JournalType' /\ RuntimeType' /\ TurnType'
    BY <1>0, <2>4 DEF journal, runtime, turn, JournalType, RuntimeType, TurnType
  <2>6. QED
    BY <1>0, <2>2, <2>3, <2>4, <2>5 DEF RestType
<1>19. ASSUME FileLost PROVE Types'
  <2>1. file' \in FileType /\ faults' \in 0..MaxFaults
    BY <1>19, <1>0, Limits DEF FileLost, Fault, FileType, RestType
  <2>2. JournalType' /\ TurnType'
    BY <1>19, <1>0 DEF FileLost, journal, turn, JournalType, TurnType
  <2>3. RuntimeType'
    BY <1>19, <1>0 DEF FileLost, RuntimeType
  <2>4. QED
    BY <1>19, <1>0, <2>1, <2>2, <2>3 DEF FileLost, RestType
<1>20. ASSUME FinishFails PROVE Types'
  <2>1. own \in Epochs
    BY <1>20 DEF FinishFails, InTurn
  <2>2. JournalType'
    BY <1>20, <2>1, Writes DEF FinishFails, Kinds
  <2>3. TurnType'
    BY <1>20, <1>0, TurnEnds DEF FinishFails
  <2>4. RuntimeType'
    BY <1>20, <1>0 DEF FinishFails, RuntimeType
  <2>5. RestType'
    BY <1>20, <1>0, Limits DEF FinishFails, Fault, RestType
  <2>6. QED
    BY <2>2, <2>3, <2>4, <2>5
<1>21. ASSUME Restart PROVE Types'
  <2>1. RuntimeType' /\ TurnType'
    BY <1>21, <1>0, Forgets, TurnEnds DEF Restart
  <2>2. control' \in ControlType /\ boots' \in 0..MaxBoots
    BY <1>21, <1>0, Limits DEF Restart, Free, ControlType, RestType
  <2>3. QED
    BY <1>21, <1>0, <2>1, <2>2 DEF Restart, journal, JournalType, RestType
<1>22. ASSUME FailEnds PROVE Types'
  <2>1. own \in Epochs
    BY <1>22 DEF FailEnds, InTurn
  <2>2. JournalType'
    BY <1>22, <2>1, Writes DEF FailEnds, Kinds
  <2>3. TurnType'
    BY <1>22, <1>0, TurnEnds DEF FailEnds
  <2>4. RuntimeType'
    BY <1>22, <1>0 DEF FailEnds, RuntimeType, runtime
  <2>5. file' \in FileType
    BY <1>22, FileAfter DEF FailEnds
  <2>6. faults' \in 0..MaxFaults
    BY <1>22, <1>0, Limits DEF FailEnds, Fault, RestType
  <2>7. RestType'
    BY <1>22, <1>0, <2>5, <2>6 DEF FailEnds, RestType
  <2>8. QED
    BY <2>2, <2>3, <2>4, <2>7
<1>23. ASSUME UNCHANGED vars PROVE Types'
  <2>1. JournalType' /\ RuntimeType'
    BY <1>23, <1>0 DEF vars, journal, runtime, JournalType, RuntimeType
  <2>2. TurnType'
    BY <1>23, <1>0 DEF vars, turn, TurnType
  <2>3. RestType'
    BY <1>23, <1>0 DEF vars, bounds, RestType
  <2>4. QED
    BY <2>1, <2>2, <2>3
<1> HIDE DEF Types
<1>24. Types'
  BY <1>1, <1>2, <1>3, <1>4, <1>5, <1>6, <1>7, <1>8, <1>9, <1>10, <1>11, <1>12, <1>13, <1>14,
     <1>15, <1>16, <1>17, <1>18, <1>19, <1>20, <1>21, <1>22, <1>23
  DEF Next
<1>25. QED
  BY <1>24
  DEF Types, TypeOK, JournalType, RuntimeType, TurnType, RestType, FactType, FileType,
      ControlType

\* A turn starts after the delivery of the one before it.
LEMMA NextInTurn ==
  ASSUME TypeOK, TypeOK', InTurn, [Next]_vars
  PROVE  InTurn'
<1>1. ASSUME Start PROVE InTurn'
  BY <1>1, Limits, Positions DEF Start, Fresh, journal, InTurn
<1>2. ASSUME Summarize PROVE InTurn'
  BY <1>2 DEF Summarize, journal, InTurn
<1>3. ASSUME Summarized PROVE InTurn'
  BY <1>3 DEF Summarized, InTurn
<1>4. ASSUME NotRecovered PROVE InTurn'
  BY <1>4 DEF NotRecovered, EndTurn, InTurn
<1>5. ASSUME Run PROVE InTurn'
  BY <1>5, RunEffect DEF InTurn
<1>6. ASSUME Note PROVE InTurn'
  BY <1>6 DEF Note, turn, InTurn
<1>7. ASSUME Completes PROVE InTurn'
  BY <1>7 DEF Completes, journal, InTurn
<1>8. ASSUME Succeed PROVE InTurn'
  BY <1>8 DEF Succeed, EndTurn, InTurn
<1>9. ASSUME Deliver PROVE InTurn'
  BY <1>9 DEF Deliver, turn, InTurn
<1>10. ASSUME Interrupted PROVE InTurn'
  BY <1>10 DEF Interrupted, EndTurn, InTurn
<1>11. ASSUME Fails PROVE InTurn'
  BY <1>11 DEF Fails, journal, InTurn
<1>12. ASSUME OtherFails PROVE InTurn'
  BY <1>12 DEF OtherFails, journal, turn, InTurn
<1>13. ASSUME NEW does \in {"stop", "end"}, Stop(does) PROVE InTurn'
  BY <1>13 DEF Stop, journal, turn, InTurn
<1>14. ASSUME StopCut PROVE InTurn'
  BY <1>14, StopCutEffect DEF journal, turn, InTurn
<1>15. ASSUME Wait PROVE InTurn'
  BY <1>15, WaitEffect DEF journal, turn, InTurn
<1>16. ASSUME Close PROVE InTurn'
  BY <1>16, CloseEffect DEF journal, turn, InTurn
<1>17. ASSUME End PROVE InTurn'
  BY <1>17, Limits, Positions DEF End, turn, InTurn
<1>18. ASSUME Stopped PROVE InTurn'
  BY <1>18 DEF Stopped, journal, turn, InTurn
<1>19. ASSUME FileLost PROVE InTurn'
  BY <1>19 DEF FileLost, journal, turn, InTurn
<1>20. ASSUME FinishFails PROVE InTurn'
  BY <1>20 DEF FinishFails, EndTurn, InTurn
<1>21. ASSUME Restart PROVE InTurn'
  BY <1>21 DEF Restart, EndTurn, InTurn
<1>22. ASSUME FailEnds PROVE InTurn'
  BY <1>22, FailEndsEffect DEF InTurn
<1>23. CASE UNCHANGED vars
  BY <1>23 DEF vars, journal, turn, InTurn
<1>24. QED
  BY <1>1, <1>2, <1>3, <1>4, <1>5, <1>6, <1>7, <1>8, <1>9, <1>10, <1>11, <1>12, <1>13, <1>14,
     <1>15, <1>16, <1>17, <1>18, <1>19, <1>20, <1>21, <1>22, <1>23
  DEF Next

\* Stops and ends take their turns with the runs.
LEMMA NextControlled ==
  ASSUME TypeOK, TypeOK', InTurn, Controlled, [Next]_vars
  PROVE  Controlled'
<1>1. ASSUME Start PROVE Controlled'
  BY <1>1 DEF Start, Fresh, Controlled
<1>2. ASSUME Summarize PROVE Controlled'
  BY <1>2 DEF Summarize, journal, Controlled, InRun
<1>3. ASSUME Summarized PROVE Controlled'
  BY <1>3 DEF Summarized, Controlled
<1>4. ASSUME NotRecovered PROVE Controlled'
  BY <1>4 DEF NotRecovered, EndTurn, journal, Controlled, InRun
<1>5. ASSUME Run PROVE Controlled'
  BY <1>5, RunEffect DEF Controlled
<1>6. ASSUME Note PROVE Controlled'
  BY <1>6 DEF Note, turn, Controlled, InRun
<1>7. ASSUME Completes PROVE Controlled'
  BY <1>7 DEF Completes, journal, Controlled, InRun
<1>8. ASSUME Succeed PROVE Controlled'
  BY <1>8 DEF Succeed, EndTurn, Controlled, InRun
<1>9. ASSUME Deliver PROVE Controlled'
  BY <1>9 DEF Deliver, turn, Controlled, InRun
<1>10. ASSUME Interrupted PROVE Controlled'
  BY <1>10 DEF Interrupted, EndTurn, Controlled, InRun
<1>11. ASSUME Fails PROVE Controlled'
  BY <1>11 DEF Fails, Controlled, InRun
<1>12. ASSUME OtherFails PROVE Controlled'
  BY <1>12 DEF OtherFails, journal, turn, Controlled, InRun
<1>13. ASSUME NEW does \in {"stop", "end"}, Stop(does) PROVE Controlled'
  <2>1. control = Free
    BY <1>13 DEF Stop
  <2>2. CASE phase \in {"summarizing", "cancelled"}
    <3>1. /\ control' = [does |-> does, at |-> "waiting"] /\ flag' = TRUE
          /\ phase' \in {"summarizing", "cancelled"}
      BY <1>13, <2>2 DEF Stop
    <3>2. control'.does = does /\ control'.at = "waiting"
      BY <3>1
    <3>3. QED
      BY <1>13, <2>2, <3>1, <3>2 DEF Stop, journal, Controlled, InRun
  <2>3. CASE phase \in {"running", "ran", "failing"}
    <3>1. control' = [does |-> does, at |-> "closing"] /\ flag' = TRUE /\ UNCHANGED phase
      BY <1>13, <2>3 DEF Stop
    <3>2. control'.does = does /\ control'.at = "closing"
      BY <3>1
    <3>3. QED
      BY <1>13, <2>3, <3>1, <3>2 DEF Stop, journal, Controlled
  <2>4. CASE phase = "idle"
    <3>1. control' = [does |-> does, at |-> "acting"] /\ does = "end" /\ UNCHANGED <<phase, flag>>
      BY <1>13, <2>4 DEF Stop
    <3>2. control'.does = does /\ control'.at = "acting"
      BY <3>1
    <3>3. QED
      BY <1>13, <2>4, <3>1, <3>2 DEF Stop, journal, Controlled, InRun
  <2>5. QED
    BY <1>13, <2>2, <2>3, <2>4 DEF Stop
<1>14. ASSUME StopCut PROVE Controlled'
  BY <1>14, StopCutEffect DEF turn, Controlled
<1>15. ASSUME Wait PROVE Controlled'
  BY <1>15, WaitEffect DEF journal, turn, Controlled, InRun
<1>16. ASSUME Close PROVE Controlled'
  <2>1. control'.does = control.does /\ control'.at \in {"none", "acting"}
        /\ (control'.at = "none" => control'.does = "none")
        /\ (control'.at = "acting" => control'.does # "none")
    BY <1>16, CloseEffect DEF Free
  <2>2. QED
    BY <1>16, <2>1, CloseEffect DEF journal, turn, Controlled, InRun
<1>17. ASSUME End PROVE Controlled'
  BY <1>17 DEF End, Free, turn, Controlled
<1>18. ASSUME Stopped PROVE Controlled'
  BY <1>18 DEF Stopped, Free, turn, Controlled
<1>19. ASSUME FileLost PROVE Controlled'
  BY <1>19 DEF FileLost, journal, turn, Controlled, InRun
<1>20. ASSUME FinishFails PROVE Controlled'
  BY <1>20 DEF FinishFails, EndTurn, Controlled, InRun
<1>21. ASSUME Restart PROVE Controlled'
  BY <1>21 DEF Restart, EndTurn, Free, Controlled, InRun
<1>22. ASSUME FailEnds PROVE Controlled'
  BY <1>22, FailEndsEffect DEF Controlled, InRun
<1>23. CASE UNCHANGED vars
  BY <1>23 DEF vars, journal, turn, Controlled, InRun
<1>24. QED
  BY <1>1, <1>2, <1>3, <1>4, <1>5, <1>6, <1>7, <1>8, <1>9, <1>10, <1>11, <1>12, <1>13, <1>14,
     <1>15, <1>16, <1>17, <1>18, <1>19, <1>20, <1>21, <1>22, <1>23
  DEF Next

\* The epoch stays while the history is recovered.
LEMMA NextOwnEpoch ==
  ASSUME TypeOK, TypeOK', InTurn, Controlled, OwnEpoch, [Next]_vars
  PROVE  OwnEpoch'
<1>1. ASSUME Start PROVE OwnEpoch'
  BY <1>1 DEF Start, Fresh, journal, OwnEpoch
<1>2. ASSUME Summarize PROVE OwnEpoch'
  BY <1>2 DEF Summarize, journal, OwnEpoch
<1>3. ASSUME Summarized PROVE OwnEpoch'
  BY <1>3 DEF Summarized, OwnEpoch
<1>4. ASSUME NotRecovered PROVE OwnEpoch'
  BY <1>4 DEF NotRecovered, EndTurn, OwnEpoch
<1>5. ASSUME Run PROVE OwnEpoch'
  BY <1>5, RunEffect DEF OwnEpoch
<1>6. ASSUME Note PROVE OwnEpoch'
  BY <1>6 DEF Note, turn, OwnEpoch
<1>7. ASSUME Completes PROVE OwnEpoch'
  BY <1>7 DEF Completes, OwnEpoch
<1>8. ASSUME Succeed PROVE OwnEpoch'
  BY <1>8 DEF Succeed, EndTurn, OwnEpoch
<1>9. ASSUME Deliver PROVE OwnEpoch'
  BY <1>9 DEF Deliver, turn, OwnEpoch
<1>10. ASSUME Interrupted PROVE OwnEpoch'
  BY <1>10 DEF Interrupted, EndTurn, OwnEpoch
<1>11. ASSUME Fails PROVE OwnEpoch'
  BY <1>11 DEF Fails, OwnEpoch
<1>12. ASSUME OtherFails PROVE OwnEpoch'
  BY <1>12 DEF OtherFails, journal, turn, OwnEpoch
<1>13. ASSUME NEW does \in {"stop", "end"}, Stop(does) PROVE OwnEpoch'
  BY <1>13 DEF Stop, journal, turn, OwnEpoch
<1>14. ASSUME StopCut PROVE OwnEpoch'
  BY <1>14, StopCutEffect DEF journal, turn, OwnEpoch
<1>15. ASSUME Wait PROVE OwnEpoch'
  BY <1>15, WaitEffect DEF turn, OwnEpoch
<1>16. ASSUME Close PROVE OwnEpoch'
  BY <1>16, CloseEffect DEF journal, turn, OwnEpoch
<1>17. ASSUME End PROVE OwnEpoch'
  BY <1>17 DEF End, turn, Controlled, OwnEpoch
<1>18. ASSUME Stopped PROVE OwnEpoch'
  BY <1>18 DEF Stopped, turn, Controlled, OwnEpoch
<1>19. ASSUME FileLost PROVE OwnEpoch'
  BY <1>19 DEF FileLost, journal, turn, OwnEpoch
<1>20. ASSUME FinishFails PROVE OwnEpoch'
  BY <1>20 DEF FinishFails, EndTurn, OwnEpoch
<1>21. ASSUME Restart PROVE OwnEpoch'
  BY <1>21 DEF Restart, EndTurn, OwnEpoch
<1>22. ASSUME FailEnds PROVE OwnEpoch'
  BY <1>22, FailEndsEffect DEF OwnEpoch
<1>23. CASE UNCHANGED vars
  BY <1>23 DEF vars, journal, turn, OwnEpoch
<1>24. QED
  BY <1>1, <1>2, <1>3, <1>4, <1>5, <1>6, <1>7, <1>8, <1>9, <1>10, <1>11, <1>12, <1>13, <1>14,
     <1>15, <1>16, <1>17, <1>18, <1>19, <1>20, <1>21, <1>22, <1>23
  DEF Next

\* The summary that a recovery waits for stays the next one.
LEMMA NextSummaryStillValid ==
  ASSUME TypeOK, TypeOK', InTurn, Controlled, OwnEpoch, SummaryStillValid, [Next]_vars
  PROVE  SummaryStillValid'
<1>1. ASSUME Start PROVE SummaryStillValid'
  BY <1>1 DEF Start, Fresh, SummaryStillValid
<1>2. ASSUME Summarize PROVE SummaryStillValid'
  <2>1. Batch.previous = checkpoint[own] /\ Batch.through > checkpoint[own]
    BY <1>2, BatchGrows DEF Summarize, InTurn
  <2>2. QED
    BY <1>2, <2>1 DEF Summarize, journal, OwnEpoch, SummaryStillValid
<1>3. ASSUME Summarized PROVE SummaryStillValid'
  BY <1>3 DEF Summarized, SummaryStillValid
<1>4. ASSUME NotRecovered PROVE SummaryStillValid'
  BY <1>4 DEF NotRecovered, EndTurn, SummaryStillValid
<1>5. ASSUME Run PROVE SummaryStillValid'
  BY <1>5, RunEffect DEF SummaryStillValid
<1>6. ASSUME Note PROVE SummaryStillValid'
  BY <1>6 DEF Note, turn, SummaryStillValid
<1>7. ASSUME Completes PROVE SummaryStillValid'
  BY <1>7 DEF Completes, SummaryStillValid
<1>8. ASSUME Succeed PROVE SummaryStillValid'
  BY <1>8 DEF Succeed, EndTurn, SummaryStillValid
<1>9. ASSUME Deliver PROVE SummaryStillValid'
  BY <1>9 DEF Deliver, turn, SummaryStillValid
<1>10. ASSUME Interrupted PROVE SummaryStillValid'
  BY <1>10 DEF Interrupted, EndTurn, SummaryStillValid
<1>11. ASSUME Fails PROVE SummaryStillValid'
  BY <1>11 DEF Fails, SummaryStillValid
<1>12. ASSUME OtherFails PROVE SummaryStillValid'
  BY <1>12 DEF OtherFails, journal, turn, SummaryStillValid
<1>13. ASSUME NEW does \in {"stop", "end"}, Stop(does) PROVE SummaryStillValid'
  BY <1>13 DEF Stop, journal, turn, SummaryStillValid
<1>14. ASSUME StopCut PROVE SummaryStillValid'
  BY <1>14, StopCutEffect DEF journal, turn, SummaryStillValid
<1>15. ASSUME Wait PROVE SummaryStillValid'
  BY <1>15, WaitEffect DEF turn, SummaryStillValid
<1>16. ASSUME Close PROVE SummaryStillValid'
  BY <1>16, CloseEffect DEF journal, turn, SummaryStillValid
<1>17. ASSUME End PROVE SummaryStillValid'
  BY <1>17 DEF End, turn, Controlled, SummaryStillValid
<1>18. ASSUME Stopped PROVE SummaryStillValid'
  BY <1>18 DEF Stopped, turn, Controlled, SummaryStillValid
<1>19. ASSUME FileLost PROVE SummaryStillValid'
  BY <1>19 DEF FileLost, journal, turn, SummaryStillValid
<1>20. ASSUME FinishFails PROVE SummaryStillValid'
  BY <1>20 DEF FinishFails, EndTurn, SummaryStillValid
<1>21. ASSUME Restart PROVE SummaryStillValid'
  BY <1>21 DEF Restart, EndTurn, SummaryStillValid
<1>22. ASSUME FailEnds PROVE SummaryStillValid'
  BY <1>22, FailEndsEffect DEF SummaryStillValid
<1>23. CASE UNCHANGED vars
  BY <1>23 DEF vars, journal, turn, SummaryStillValid
<1>24. QED
  BY <1>1, <1>2, <1>3, <1>4, <1>5, <1>6, <1>7, <1>8, <1>9, <1>10, <1>11, <1>12, <1>13, <1>14,
     <1>15, <1>16, <1>17, <1>18, <1>19, <1>20, <1>21, <1>22, <1>23
  DEF Next

\* The journal only grows.
LEMMA NextSummaryThere ==
  ASSUME TypeOK, TypeOK', InTurn, SummaryThere, [Next]_vars
  PROVE  SummaryThere'
<1>1. ASSUME Start PROVE SummaryThere'
  BY <1>1 DEF Start, Fresh, SummaryThere
<1>2. ASSUME Summarize PROVE SummaryThere'
  <2>1. Batch.through \in 1..Len(facts)
    BY <1>2, BatchGrows DEF Summarize, InTurn
  <2>2. QED
    BY <1>2, <2>1 DEF Summarize, journal, SummaryThere
<1>3. ASSUME Summarized PROVE SummaryThere'
  BY <1>3 DEF Summarized, SummaryThere
<1>4. ASSUME NotRecovered PROVE SummaryThere'
  BY <1>4 DEF NotRecovered, EndTurn, SummaryThere
<1>5. ASSUME Run PROVE SummaryThere'
  BY <1>5, RunEffect DEF SummaryThere
<1>6. ASSUME Note PROVE SummaryThere'
  <2>1. own \in Epochs /\ Grown(own, "note")
    BY <1>6, Appended DEF Note, Append1, InTurn, Kinds
  <2>2. QED
    BY <1>6, <2>1 DEF Note, turn, SummaryThere
<1>7. ASSUME Completes PROVE SummaryThere'
  BY <1>7 DEF Completes, SummaryThere
<1>8. ASSUME Succeed PROVE SummaryThere'
  <2>1. own \in Epochs /\ Grown(own, "assistant")
    BY <1>8, Appended DEF Succeed, Append1, InTurn, Kinds
  <2>2. QED
    BY <1>8, <2>1 DEF Succeed, EndTurn, SummaryThere
<1>9. ASSUME Deliver PROVE SummaryThere'
  <2>1. told \in Epochs /\ Grown(told, "delivery")
    BY <1>9, Appended DEF Deliver, Kinds, TypeOK
  <2>2. QED
    BY <1>9, <2>1 DEF Deliver, turn, SummaryThere
<1>10. ASSUME Interrupted PROVE SummaryThere'
  <2>1. own \in Epochs /\ Grown(own, "failed")
    BY <1>10, Appended DEF Interrupted, Append1, InTurn, Kinds
  <2>2. QED
    BY <1>10, <2>1 DEF Interrupted, EndTurn, SummaryThere
<1>11. ASSUME Fails PROVE SummaryThere'
  BY <1>11 DEF Fails, SummaryThere
<1>12. ASSUME OtherFails PROVE SummaryThere'
  BY <1>12 DEF OtherFails, journal, turn, SummaryThere
<1>13. ASSUME NEW does \in {"stop", "end"}, Stop(does) PROVE SummaryThere'
  BY <1>13 DEF Stop, journal, turn, SummaryThere
<1>14. ASSUME StopCut PROVE SummaryThere'
  BY <1>14, StopCutEffect DEF journal, turn, SummaryThere
<1>15. ASSUME Wait PROVE SummaryThere'
  BY <1>15, WaitEffect DEF turn, SummaryThere
<1>16. ASSUME Close PROVE SummaryThere'
  BY <1>16, CloseEffect DEF journal, turn, SummaryThere
<1>17. ASSUME End PROVE SummaryThere'
  BY <1>17 DEF End, turn, SummaryThere
<1>18. ASSUME Stopped PROVE SummaryThere'
  BY <1>18 DEF Stopped, journal, turn, SummaryThere
<1>19. ASSUME FileLost PROVE SummaryThere'
  BY <1>19 DEF FileLost, journal, turn, SummaryThere
<1>20. ASSUME FinishFails PROVE SummaryThere'
  <2>1. own \in Epochs /\ Grown(own, "failed")
    BY <1>20, Appended DEF FinishFails, Append1, InTurn, Kinds
  <2>2. QED
    BY <1>20, <2>1 DEF FinishFails, EndTurn, SummaryThere
<1>21. ASSUME Restart PROVE SummaryThere'
  BY <1>21 DEF Restart, EndTurn, SummaryThere
<1>22. ASSUME FailEnds PROVE SummaryThere'
  BY <1>22, FailEndsEffect DEF SummaryThere
<1>23. CASE UNCHANGED vars
  BY <1>23 DEF vars, journal, turn, SummaryThere
<1>24. QED
  BY <1>1, <1>2, <1>3, <1>4, <1>5, <1>6, <1>7, <1>8, <1>9, <1>10, <1>11, <1>12, <1>13, <1>14,
     <1>15, <1>16, <1>17, <1>18, <1>19, <1>20, <1>21, <1>22, <1>23
  DEF Next

\* No position is beyond the journal.
LEMMA NextPositioned ==
  ASSUME TypeOK, TypeOK', Positioned, InTurn, SummaryThere, [Next]_vars
  PROVE  Positioned'
<1>1. ASSUME Start PROVE Positioned'
  BY <1>1 DEF Start, Fresh, journal, Positioned
<1>2. ASSUME Summarize PROVE Positioned'
  BY <1>2 DEF Summarize, journal, runtime, Positioned
<1>3. ASSUME Summarized PROVE Positioned'
  BY <1>3 DEF Summarized, runtime, Positioned, SummaryThere
<1>4. ASSUME NotRecovered PROVE Positioned'
  BY <1>4 DEF NotRecovered, journal, runtime, Positioned
<1>5. ASSUME Run PROVE Positioned'
  BY <1>5, RunEffect, Positions DEF Grown, Positioned
<1>6. ASSUME Note PROVE Positioned'
  <2>1. own \in Epochs /\ Grown(own, "note")
    BY <1>6, Appended DEF Note, Append1, InTurn, Kinds
  <2>2. QED
    BY <1>6, <2>1, Positions DEF Grown, Note, Positioned
<1>7. ASSUME Completes PROVE Positioned'
  BY <1>7 DEF Completes, journal, runtime, Positioned
<1>8. ASSUME Succeed PROVE Positioned'
  <2>1. own \in Epochs /\ Grown(own, "assistant")
    BY <1>8, Appended DEF Succeed, Append1, InTurn, Kinds
  <2>2. QED
    BY <1>8, <2>1, Positions DEF Grown, Succeed, Positioned
<1>9. ASSUME Deliver PROVE Positioned'
  <2>1. told \in Epochs /\ Grown(told, "delivery")
    BY <1>9, Appended DEF Deliver, Kinds, TypeOK
  <2>2. QED
    BY <1>9, <2>1, Positions DEF Deliver, runtime, Positioned
<1>10. ASSUME Interrupted PROVE Positioned'
  <2>1. own \in Epochs /\ Grown(own, "failed")
    BY <1>10, Appended DEF Interrupted, Append1, InTurn, Kinds
  <2>2. QED
    BY <1>10, <2>1, Positions DEF Grown, Interrupted, runtime, Positioned
<1>11. ASSUME Fails PROVE Positioned'
  BY <1>11 DEF Fails, Forget, journal, Positioned
<1>12. ASSUME OtherFails PROVE Positioned'
  BY <1>12 DEF OtherFails, Forget, journal, Positioned
<1>13. ASSUME NEW does \in {"stop", "end"}, Stop(does) PROVE Positioned'
  BY <1>13 DEF Stop, journal, runtime, Positioned
<1>14. ASSUME StopCut PROVE Positioned'
  BY <1>14, StopCutEffect DEF journal, runtime, Positioned
<1>15. ASSUME Wait PROVE Positioned'
  BY <1>15, WaitEffect DEF journal, runtime, Positioned
<1>16. ASSUME Close PROVE Positioned'
  BY <1>16, CloseEffect DEF journal, Positioned
<1>17. ASSUME End PROVE Positioned'
  BY <1>17 DEF End, runtime, Positioned
<1>18. ASSUME Stopped PROVE Positioned'
  BY <1>18 DEF Stopped, journal, runtime, Positioned
<1>19. ASSUME FileLost PROVE Positioned'
  BY <1>19 DEF FileLost, journal, Positioned
<1>20. ASSUME FinishFails PROVE Positioned'
  <2>1. own \in Epochs /\ Grown(own, "failed")
    BY <1>20, Appended DEF FinishFails, Append1, InTurn, Kinds
  <2>2. QED
    BY <1>20, <2>1, Positions DEF Grown, FinishFails, Positioned
<1>21. ASSUME Restart PROVE Positioned'
  BY <1>21 DEF Restart, Forget, journal, Positioned
<1>22. ASSUME FailEnds PROVE Positioned'
  BY <1>22, FailEndsEffect, Positions DEF Grown, Positioned
<1>23. CASE UNCHANGED vars
  BY <1>23 DEF vars, journal, runtime, Positioned
<1>24. QED
  BY <1>1, <1>2, <1>3, <1>4, <1>5, <1>6, <1>7, <1>8, <1>9, <1>10, <1>11, <1>12, <1>13, <1>14,
     <1>15, <1>16, <1>17, <1>18, <1>19, <1>20, <1>21, <1>22, <1>23
  DEF Next

\* No run knows more than the journal.
LEMMA NextKnown ==
  ASSUME TypeOK, TypeOK', Known, InTurn, [Next]_vars
  PROVE  Known'
<1>1. ASSUME Start PROVE Known'
  BY <1>1 DEF Start, Fresh, journal, Known
<1>2. ASSUME Summarize PROVE Known'
  BY <1>2 DEF Summarize, journal, runtime, Known
<1>3. ASSUME Summarized PROVE Known'
  BY <1>3 DEF Summarized, runtime, Known
<1>4. ASSUME NotRecovered PROVE Known'
  BY <1>4 DEF NotRecovered, EndTurn, journal, runtime, Known
<1>5. ASSUME Run PROVE Known'
  <2>1. /\ Len(facts') = Len(facts) + 1 /\ Len(facts) \in Nat
        /\ Recovered(own, after) \subseteq 1..Len(facts) /\ shown' \subseteq 1..Len(facts)
    BY <1>5, RunEffect, Positions DEF Grown
  <2>2. shown' \subseteq 1..Len(facts')
    BY <2>1
  <2>3. ASSUME NEW g \in Nat, NEW i \in Nat, <<g, i>> \in native'
        PROVE  i \in 1..Len(facts')
    BY <1>5, <2>1, <2>3, RunEffect DEF Known
  <2>4. QED
    BY <2>2, <2>3 DEF Known
<1>6. ASSUME Note PROVE Known'
  <2>1. own \in Epochs /\ Grown(own, "note")
    BY <1>6, Appended DEF Note, Append1, InTurn, Kinds
  <2>2. QED
    BY <1>6, <2>1 DEF Grown, Note, turn, Known
<1>7. ASSUME Completes PROVE Known'
  BY <1>7 DEF Completes, journal, runtime, Known
<1>8. ASSUME Succeed PROVE Known'
  <2>1. own \in Epochs /\ Grown(own, "assistant")
    BY <1>8, Appended DEF Succeed, Append1, InTurn, Kinds
  <2>2. QED
    BY <1>8, <2>1 DEF Grown, Succeed, EndTurn, Known
<1>9. ASSUME Deliver PROVE Known'
  <2>1. told \in Epochs /\ Grown(told, "delivery")
    BY <1>9, Appended DEF Deliver, Kinds, TypeOK
  <2>2. QED
    BY <1>9, <2>1 DEF Deliver, runtime, turn, Known
<1>10. ASSUME Interrupted PROVE Known'
  <2>1. own \in Epochs /\ Grown(own, "failed")
    BY <1>10, Appended DEF Interrupted, Append1, InTurn, Kinds
  <2>2. QED
    BY <1>10, <2>1 DEF Grown, Interrupted, EndTurn, runtime, Known
<1>11. ASSUME Fails PROVE Known'
  BY <1>11 DEF Fails, Forget, Known
<1>12. ASSUME OtherFails PROVE Known'
  BY <1>12 DEF OtherFails, Forget, journal, turn, Known
<1>13. ASSUME NEW does \in {"stop", "end"}, Stop(does) PROVE Known'
  BY <1>13 DEF Stop, journal, runtime, turn, Known
<1>14. ASSUME StopCut PROVE Known'
  BY <1>14, StopCutEffect DEF journal, runtime, turn, Known
<1>15. ASSUME Wait PROVE Known'
  BY <1>15, WaitEffect DEF journal, runtime, turn, Known
<1>16. ASSUME Close PROVE Known'
  BY <1>16, CloseEffect DEF journal, turn, Known
<1>17. ASSUME End PROVE Known'
  BY <1>17 DEF End, runtime, turn, Known
<1>18. ASSUME Stopped PROVE Known'
  BY <1>18 DEF Stopped, journal, runtime, turn, Known
<1>19. ASSUME FileLost PROVE Known'
  BY <1>19 DEF FileLost, journal, turn, Known
<1>20. ASSUME FinishFails PROVE Known'
  <2>1. own \in Epochs /\ Grown(own, "failed")
    BY <1>20, Appended DEF FinishFails, Append1, InTurn, Kinds
  <2>2. QED
    BY <1>20, <2>1 DEF Grown, FinishFails, EndTurn, Known
<1>21. ASSUME Restart PROVE Known'
  BY <1>21 DEF Restart, Forget, EndTurn, Known
<1>22. ASSUME FailEnds PROVE Known'
  BY <1>22, FailEndsEffect, Positions DEF Grown, Known
<1>23. CASE UNCHANGED vars
  BY <1>23 DEF vars, journal, runtime, turn, Known
<1>24. QED
  BY <1>1, <1>2, <1>3, <1>4, <1>5, <1>6, <1>7, <1>8, <1>9, <1>10, <1>11, <1>12, <1>13, <1>14,
     <1>15, <1>16, <1>17, <1>18, <1>19, <1>20, <1>21, <1>22, <1>23
  DEF Next

\* Offsets are of epochs that have been.
LEMMA NextNewEpochs ==
  ASSUME TypeOK, TypeOK', InTurn, NewEpochs, [Next]_vars
  PROVE  NewEpochs'
<1>1. ASSUME Start PROVE NewEpochs'
  BY <1>1 DEF Start, Fresh, journal, NewEpochs
<1>2. ASSUME Summarize PROVE NewEpochs'
  BY <1>2 DEF Summarize, journal, runtime, NewEpochs
<1>3. ASSUME Summarized PROVE NewEpochs'
  BY <1>3 DEF Summarized, runtime, NewEpochs
<1>4. ASSUME NotRecovered PROVE NewEpochs'
  BY <1>4 DEF NotRecovered, journal, runtime, NewEpochs
<1>5. ASSUME Run PROVE NewEpochs'
  BY <1>5, RunEffect DEF NewEpochs
<1>6. ASSUME Note PROVE NewEpochs'
  BY <1>6 DEF Note, NewEpochs
<1>7. ASSUME Completes PROVE NewEpochs'
  BY <1>7 DEF Completes, journal, runtime, NewEpochs
<1>8. ASSUME Succeed PROVE NewEpochs'
  BY <1>8, Limits, Positions DEF Succeed, NewEpochs, InTurn
<1>9. ASSUME Deliver PROVE NewEpochs'
  BY <1>9 DEF Deliver, runtime, NewEpochs
<1>10. ASSUME Interrupted PROVE NewEpochs'
  BY <1>10 DEF Interrupted, runtime, NewEpochs
<1>11. ASSUME Fails PROVE NewEpochs'
  BY <1>11 DEF Fails, Forget, journal, NewEpochs
<1>12. ASSUME OtherFails PROVE NewEpochs'
  BY <1>12 DEF OtherFails, Forget, NewEpochs
<1>13. ASSUME NEW does \in {"stop", "end"}, Stop(does) PROVE NewEpochs'
  BY <1>13 DEF Stop, journal, runtime, NewEpochs
<1>14. ASSUME StopCut PROVE NewEpochs'
  BY <1>14, StopCutEffect DEF journal, runtime, NewEpochs
<1>15. ASSUME Wait PROVE NewEpochs'
  BY <1>15, WaitEffect DEF journal, runtime, NewEpochs
<1>16. ASSUME Close PROVE NewEpochs'
  BY <1>16, CloseEffect DEF NewEpochs
<1>17. ASSUME End PROVE NewEpochs'
  <2>1. epoch' = epoch + 1 /\ UNCHANGED offset
    BY <1>17 DEF End, runtime
  <2>2. QED
    BY <2>1, Limits, Positions DEF NewEpochs
<1>18. ASSUME Stopped PROVE NewEpochs'
  BY <1>18 DEF Stopped, journal, runtime, NewEpochs
<1>19. ASSUME FileLost PROVE NewEpochs'
  BY <1>19 DEF FileLost, journal, NewEpochs
<1>20. ASSUME FinishFails PROVE NewEpochs'
  BY <1>20 DEF FinishFails, NewEpochs
<1>21. ASSUME Restart PROVE NewEpochs'
  BY <1>21 DEF Restart, Forget, NewEpochs
<1>22. ASSUME FailEnds PROVE NewEpochs'
  BY <1>22, FailEndsEffect DEF NewEpochs
<1>23. CASE UNCHANGED vars
  BY <1>23 DEF vars, journal, runtime, NewEpochs
<1>24. QED
  BY <1>1, <1>2, <1>3, <1>4, <1>5, <1>6, <1>7, <1>8, <1>9, <1>10, <1>11, <1>12, <1>13, <1>14,
     <1>15, <1>16, <1>17, <1>18, <1>19, <1>20, <1>21, <1>22, <1>23
  DEF Next

\* Each generation stays with its epoch.
LEMMA NextGenerations ==
  ASSUME TypeOK, TypeOK', Known, InTurn, OwnEpoch, Generations, LeaseEpoch, FailedRun, [Next]_vars
  PROVE  Generations'
<1>1. ASSUME Start PROVE Generations'
  BY <1>1 DEF Start, Fresh, journal, Generations, LeaseEpoch
<1>2. ASSUME Summarize PROVE Generations'
  BY <1>2 DEF Summarize, journal, runtime, Generations, LeaseEpoch
<1>3. ASSUME Summarized PROVE Generations'
  BY <1>3 DEF Summarized, runtime, Generations, LeaseEpoch
<1>4. ASSUME NotRecovered PROVE Generations'
  BY <1>4 DEF NotRecovered, journal, runtime, Generations, LeaseEpoch
<1>5. ASSUME Run PROVE Generations'
  <2>1. /\ own = epoch /\ UNCHANGED <<epoch, damaged>> /\ file' = Begun(file)
        /\ lease' = Begun(file).generation /\ Len(facts) \in Nat /\ file.generation \in Nat
        /\ Begun(file).generation \in {file.generation, file.generation + 1}
    BY <1>5, RunEffect, FileAfter, Positions DEF OwnEpoch
  <2>2. /\ \A i \in Recovered(own, after) : i \in 1..Len(facts) /\ facts[i].epoch = own
        /\ \A i \in 1..Len(facts) : facts'[i] = facts[i]
        /\ facts'[Len(facts) + 1].epoch = own
    BY <1>5, RunEffect DEF Grown, Of
  <2>3. ASSUME ~damaged, NEW g \in Nat, NEW i \in Nat, <<g, i>> \in native'
        PROVE  g <= file'.generation /\ (g = file'.generation => facts'[i].epoch = epoch)
    <3>1. CASE <<g, i>> \in native
      BY <2>1, <2>2, <2>3, <3>1 DEF Generations, Known
    <3>2. CASE g = lease' /\ (i \in Recovered(own, after) \/ i = Len(facts) + 1)
      BY <2>1, <2>2, <3>2
    <3>3. QED
      BY <1>5, <2>3, <3>1, <3>2, RunEffect
  <2>4. QED
    BY <2>1, <2>3 DEF Generations
<1>6. ASSUME Note PROVE Generations'
  <2>1. own \in Epochs /\ Grown(own, "note")
    BY <1>6, Appended DEF Note, Append1, InTurn, Kinds
  <2>2. QED
    BY <1>6, <2>1 DEF Grown, Note, Known, Generations, LeaseEpoch, InRun
<1>7. ASSUME Completes PROVE Generations'
  BY <1>7 DEF Completes, journal, runtime, Generations, LeaseEpoch
<1>8. ASSUME Succeed PROVE Generations'
  <2>1. own \in Epochs /\ Grown(own, "assistant")
    BY <1>8, Appended DEF Succeed, Append1, InTurn, Kinds
  <2>2. QED
    BY <1>8, <2>1, FileAfter DEF Grown, Succeed, Known, Generations, LeaseEpoch, InRun
<1>9. ASSUME Deliver PROVE Generations'
  <2>1. told \in Epochs /\ Grown(told, "delivery")
    BY <1>9, Appended DEF Deliver, Kinds, TypeOK
  <2>2. QED
    BY <1>9, <2>1 DEF Deliver, runtime, Known, Generations, LeaseEpoch
<1>10. ASSUME Interrupted PROVE Generations'
  <2>1. own \in Epochs /\ Grown(own, "failed")
    BY <1>10, Appended DEF Interrupted, Append1, InTurn, Kinds
  <2>2. QED
    BY <1>10, <2>1, FileAfter DEF Grown, Interrupted, runtime, Known, Generations, LeaseEpoch
<1>11. ASSUME Fails PROVE Generations'
  BY <1>11 DEF Fails, Forget, Generations
<1>12. ASSUME OtherFails PROVE Generations'
  BY <1>12 DEF OtherFails, Forget, Generations, LeaseEpoch
<1>13. ASSUME NEW does \in {"stop", "end"}, Stop(does) PROVE Generations'
  BY <1>13 DEF Stop, journal, runtime, Generations, LeaseEpoch
<1>14. ASSUME StopCut PROVE Generations'
  BY <1>14, StopCutEffect DEF journal, runtime, Generations, LeaseEpoch
<1>15. ASSUME Wait PROVE Generations'
  BY <1>15, WaitEffect DEF journal, runtime, Generations, LeaseEpoch
<1>16. ASSUME Close PROVE Generations'
  BY <1>16, CloseEffect DEF Generations, LeaseEpoch
<1>17. ASSUME End PROVE Generations'
  BY <1>17, FileAfter, Positions DEF End, runtime, Generations, LeaseEpoch
<1>18. ASSUME Stopped PROVE Generations'
  BY <1>18, FileAfter, Positions DEF Stopped, journal, runtime, Generations
<1>19. ASSUME FileLost PROVE Generations'
  BY <1>19 DEF FileLost, Generations, LeaseEpoch
<1>20. ASSUME FinishFails PROVE Generations'
  <2>1. own \in Epochs /\ Grown(own, "failed")
    BY <1>20, Appended DEF FinishFails, Append1, InTurn, Kinds
  <2>2. QED
    BY <1>20, <2>1 DEF FinishFails, Generations, LeaseEpoch
<1>21. ASSUME Restart PROVE Generations'
  BY <1>21 DEF Restart, Forget, Generations, LeaseEpoch
<1>22. ASSUME FailEnds PROVE Generations'
  BY <1>22, FailEndsEffect DEF FailedRun, Fresh, Generations
<1>23. CASE UNCHANGED vars
  BY <1>23 DEF vars, journal, runtime, Generations, LeaseEpoch
<1>24. QED
  BY <1>1, <1>2, <1>3, <1>4, <1>5, <1>6, <1>7, <1>8, <1>9, <1>10, <1>11, <1>12, <1>13, <1>14,
     <1>15, <1>16, <1>17, <1>18, <1>19, <1>20, <1>21, <1>22, <1>23
  DEF Next

\* A run keeps its generation.
LEMMA NextLeaseEpoch ==
  ASSUME TypeOK, TypeOK', InTurn, OwnEpoch, LeaseEpoch, [Next]_vars
  PROVE  LeaseEpoch'
<1>1. ASSUME Start PROVE LeaseEpoch'
  BY <1>1 DEF Start, Fresh, LeaseEpoch, InRun
<1>2. ASSUME Summarize PROVE LeaseEpoch'
  BY <1>2 DEF Summarize, LeaseEpoch, InRun
<1>3. ASSUME Summarized PROVE LeaseEpoch'
  BY <1>3 DEF Summarized, LeaseEpoch, InRun
<1>4. ASSUME NotRecovered PROVE LeaseEpoch'
  BY <1>4 DEF NotRecovered, EndTurn, LeaseEpoch, InRun
<1>5. ASSUME Run PROVE LeaseEpoch'
  BY <1>5, RunEffect, FileAfter, Positions DEF OwnEpoch, LeaseEpoch
<1>6. ASSUME Note PROVE LeaseEpoch'
  BY <1>6 DEF Note, turn, LeaseEpoch, InRun
<1>7. ASSUME Completes PROVE LeaseEpoch'
  BY <1>7 DEF Completes, journal, runtime, LeaseEpoch, InRun
<1>8. ASSUME Succeed PROVE LeaseEpoch'
  BY <1>8 DEF Succeed, EndTurn, LeaseEpoch, InRun
<1>9. ASSUME Deliver PROVE LeaseEpoch'
  BY <1>9 DEF Deliver, turn, InTurn, LeaseEpoch, InRun
<1>10. ASSUME Interrupted PROVE LeaseEpoch'
  BY <1>10 DEF Interrupted, EndTurn, LeaseEpoch, InRun
<1>11. ASSUME Fails PROVE LeaseEpoch'
  BY <1>11 DEF Fails, LeaseEpoch, InRun
<1>12. ASSUME OtherFails PROVE LeaseEpoch'
  BY <1>12 DEF OtherFails, turn, LeaseEpoch, InRun
<1>13. ASSUME NEW does \in {"stop", "end"}, Stop(does) PROVE LeaseEpoch'
  BY <1>13 DEF Stop, journal, runtime, turn, LeaseEpoch, InRun
<1>14. ASSUME StopCut PROVE LeaseEpoch'
  BY <1>14, StopCutEffect DEF journal, runtime, turn, LeaseEpoch, InRun
<1>15. ASSUME Wait PROVE LeaseEpoch'
  BY <1>15, WaitEffect DEF journal, runtime, turn, LeaseEpoch, InRun
<1>16. ASSUME Close PROVE LeaseEpoch'
  BY <1>16, CloseEffect DEF journal, turn, LeaseEpoch, InRun
<1>17. ASSUME End PROVE LeaseEpoch'
  BY <1>17, FileAfter, Positions DEF End, runtime, turn, LeaseEpoch, InRun
<1>18. ASSUME Stopped PROVE LeaseEpoch'
  BY <1>18, FileAfter, Positions DEF Stopped, journal, runtime, turn, LeaseEpoch, InRun
<1>19. ASSUME FileLost PROVE LeaseEpoch'
  BY <1>19 DEF FileLost, LeaseEpoch
<1>20. ASSUME FinishFails PROVE LeaseEpoch'
  BY <1>20 DEF FinishFails, LeaseEpoch
<1>21. ASSUME Restart PROVE LeaseEpoch'
  BY <1>21 DEF Restart, EndTurn, LeaseEpoch, InRun
<1>22. ASSUME FailEnds PROVE LeaseEpoch'
  BY <1>22, FailEndsEffect DEF LeaseEpoch, InRun
<1>23. CASE UNCHANGED vars
  BY <1>23 DEF vars, journal, runtime, turn, LeaseEpoch, InRun
<1>24. QED
  BY <1>1, <1>2, <1>3, <1>4, <1>5, <1>6, <1>7, <1>8, <1>9, <1>10, <1>11, <1>12, <1>13, <1>14,
     <1>15, <1>16, <1>17, <1>18, <1>19, <1>20, <1>21, <1>22, <1>23
  DEF Next

\* A run learns nothing of another epoch.
LEMMA NextHistoryOwn ==
  ASSUME TypeOK, TypeOK', Known, InTurn, OwnEpoch, Generations, HistoryOwn, [Next]_vars
  PROVE  HistoryOwn'
<1>1. ASSUME Start PROVE HistoryOwn'
  BY <1>1 DEF Start, Fresh, HistoryOwn
<1>2. ASSUME Summarize PROVE HistoryOwn'
  BY <1>2 DEF Summarize, HistoryOwn
<1>3. ASSUME Summarized PROVE HistoryOwn'
  BY <1>3 DEF Summarized, HistoryOwn
<1>4. ASSUME NotRecovered PROVE HistoryOwn'
  BY <1>4 DEF NotRecovered, EndTurn, HistoryOwn
<1>5. ASSUME Run PROVE HistoryOwn'
  <2>1. /\ own = epoch /\ UNCHANGED <<own, epoch, damaged>>
        /\ lease' = Begun(file).generation /\ Len(facts) \in Nat /\ file.generation \in Nat
        /\ Begun(file).generation \in {file.generation, file.generation + 1}
    BY <1>5, RunEffect, FileAfter, Positions DEF OwnEpoch
  <2>2. /\ shown' \subseteq 1..Len(facts)
        /\ \A i \in 1..Len(facts) :
             i \in shown' => i \in Recovered(own, after) \/ <<lease', i>> \in native
        /\ \A i \in Recovered(own, after) : facts[i].epoch = own
        /\ \A i \in 1..Len(facts) : facts'[i] = facts[i]
    BY <1>5, RunEffect DEF Grown, Of
  <2>3. ASSUME ~damaged, NEW i \in shown' PROVE facts'[i].epoch = own
    <3>1. i \in 1..Len(facts) /\ i \in Nat /\ facts'[i] = facts[i]
      BY <2>1, <2>2, <2>3
    <3>2. CASE i \in Recovered(own, after)
      BY <2>2, <3>1, <3>2
    <3>3. CASE <<lease', i>> \in native
      <4>1. lease' \in Nat /\ lease' <= file.generation /\ lease' >= file.generation
        BY <2>1, <2>3, <3>1, <3>3 DEF Generations
      <4>2. lease' = file.generation
        BY <2>1, <4>1
      <4>3. QED
        BY <2>1, <2>3, <3>1, <3>3, <4>1, <4>2 DEF Generations
    <3>4. QED
      BY <2>2, <3>1, <3>2, <3>3
  <2>4. QED
    BY <2>1, <2>3 DEF HistoryOwn
<1>6. ASSUME Note PROVE HistoryOwn'
  <2>1. own \in Epochs /\ Grown(own, "note")
    BY <1>6, Appended DEF Note, Append1, InTurn, Kinds
  <2>2. QED
    BY <1>6, <2>1 DEF Grown, Note, turn, Known, HistoryOwn
<1>7. ASSUME Completes PROVE HistoryOwn'
  BY <1>7 DEF Completes, HistoryOwn
<1>8. ASSUME Succeed PROVE HistoryOwn'
  <2>1. own \in Epochs /\ Grown(own, "assistant")
    BY <1>8, Appended DEF Succeed, Append1, InTurn, Kinds
  <2>2. QED
    BY <1>8, <2>1 DEF Succeed, EndTurn, HistoryOwn
<1>9. ASSUME Deliver PROVE HistoryOwn'
  <2>1. told \in Epochs /\ Grown(told, "delivery")
    BY <1>9, Appended DEF Deliver, Kinds, TypeOK
  <2>2. QED
    BY <1>9, <2>1 DEF Deliver, turn, InTurn, HistoryOwn
<1>10. ASSUME Interrupted PROVE HistoryOwn'
  <2>1. own \in Epochs /\ Grown(own, "failed")
    BY <1>10, Appended DEF Interrupted, Append1, InTurn, Kinds
  <2>2. QED
    BY <1>10, <2>1 DEF Interrupted, EndTurn, HistoryOwn
<1>11. ASSUME Fails PROVE HistoryOwn'
  BY <1>11 DEF Fails, HistoryOwn
<1>12. ASSUME OtherFails PROVE HistoryOwn'
  BY <1>12 DEF OtherFails, turn, HistoryOwn
<1>13. ASSUME NEW does \in {"stop", "end"}, Stop(does) PROVE HistoryOwn'
  BY <1>13 DEF Stop, journal, runtime, turn, HistoryOwn
<1>14. ASSUME StopCut PROVE HistoryOwn'
  BY <1>14, StopCutEffect DEF journal, runtime, turn, HistoryOwn
<1>15. ASSUME Wait PROVE HistoryOwn'
  BY <1>15, WaitEffect DEF journal, runtime, turn, HistoryOwn
<1>16. ASSUME Close PROVE HistoryOwn'
  BY <1>16, CloseEffect DEF journal, turn, HistoryOwn
<1>17. ASSUME End PROVE HistoryOwn'
  BY <1>17 DEF End, runtime, turn, HistoryOwn
<1>18. ASSUME Stopped PROVE HistoryOwn'
  BY <1>18 DEF Stopped, journal, runtime, turn, HistoryOwn
<1>19. ASSUME FileLost PROVE HistoryOwn'
  BY <1>19 DEF FileLost, HistoryOwn
<1>20. ASSUME FinishFails PROVE HistoryOwn'
  <2>1. own \in Epochs /\ Grown(own, "failed")
    BY <1>20, Appended DEF FinishFails, Append1, InTurn, Kinds
  <2>2. QED
    BY <1>20, <2>1 DEF FinishFails, HistoryOwn
<1>21. ASSUME Restart PROVE HistoryOwn'
  BY <1>21 DEF Restart, EndTurn, HistoryOwn
<1>22. ASSUME FailEnds PROVE HistoryOwn'
  BY <1>22, FailEndsEffect DEF HistoryOwn
<1>23. CASE UNCHANGED vars
  BY <1>23 DEF vars, journal, runtime, turn, HistoryOwn
<1>24. QED
  BY <1>1, <1>2, <1>3, <1>4, <1>5, <1>6, <1>7, <1>8, <1>9, <1>10, <1>11, <1>12, <1>13, <1>14,
     <1>15, <1>16, <1>17, <1>18, <1>19, <1>20, <1>21, <1>22, <1>23
  DEF Next

\* The close of a stopped runtime is still to come, or has happened.
LEMMA NextStoppedRun ==
  ASSUME TypeOK, TypeOK', InTurn, Controlled, StoppedRun, FailedRun, [Next]_vars
  PROVE  StoppedRun'
<1>1. ASSUME Start PROVE StoppedRun'
  BY <1>1 DEF Start, Fresh, StoppedRun, InRun
<1>2. ASSUME Summarize PROVE StoppedRun'
  BY <1>2 DEF Summarize, StoppedRun, InRun
<1>3. ASSUME Summarized PROVE StoppedRun'
  BY <1>3 DEF Summarized, StoppedRun, InRun
<1>4. ASSUME NotRecovered PROVE StoppedRun'
  BY <1>4 DEF NotRecovered, EndTurn, StoppedRun, InRun
<1>5. ASSUME Run PROVE StoppedRun'
  BY <1>5, RunEffect DEF FailedRun, Fresh, StoppedRun
<1>6. ASSUME Note PROVE StoppedRun'
  BY <1>6 DEF Note, StoppedRun, InRun
<1>7. ASSUME Completes PROVE StoppedRun'
  BY <1>7 DEF Completes, runtime, StoppedRun, InRun
<1>8. ASSUME Succeed PROVE StoppedRun'
  BY <1>8 DEF Succeed, StoppedRun
<1>9. ASSUME Deliver PROVE StoppedRun'
  BY <1>9 DEF Deliver, turn, InTurn, StoppedRun, InRun
<1>10. ASSUME Interrupted PROVE StoppedRun'
  BY <1>10 DEF Interrupted, StoppedRun
<1>11. ASSUME Fails PROVE StoppedRun'
  BY <1>11 DEF Fails, StoppedRun, InRun
<1>12. ASSUME OtherFails PROVE StoppedRun'
  BY <1>12 DEF OtherFails, Forget, StoppedRun
<1>13. ASSUME NEW does \in {"stop", "end"}, Stop(does) PROVE StoppedRun'
  <2>1. CASE phase \in {"running", "ran"}
    <3>1. control' = [does |-> does, at |-> "closing"]
      BY <1>13, <2>1 DEF Stop
    <3>2. QED
      BY <3>1 DEF StoppedRun
  <2>2. CASE phase \notin {"running", "ran"}
    BY <1>13, <2>2 DEF Stop, StoppedRun, InRun
  <2>3. QED
    BY <2>1, <2>2
<1>14. ASSUME StopCut PROVE StoppedRun'
  BY <1>14, StopCutEffect DEF runtime, turn, StoppedRun, InRun
<1>15. ASSUME Wait PROVE StoppedRun'
  BY <1>15, WaitEffect DEF turn, Controlled, StoppedRun, InRun
<1>16. ASSUME Close PROVE StoppedRun'
  BY <1>16, CloseEffect DEF StoppedRun
<1>17. ASSUME End PROVE StoppedRun'
  BY <1>17 DEF End, runtime, turn, StoppedRun, InRun
<1>18. ASSUME Stopped PROVE StoppedRun'
  BY <1>18 DEF Stopped, runtime, turn, StoppedRun, InRun
<1>19. ASSUME FileLost PROVE StoppedRun'
  BY <1>19 DEF FileLost, turn, StoppedRun, InRun
<1>20. ASSUME FinishFails PROVE StoppedRun'
  BY <1>20 DEF FinishFails, StoppedRun
<1>21. ASSUME Restart PROVE StoppedRun'
  BY <1>21 DEF Restart, StoppedRun
<1>22. ASSUME FailEnds PROVE StoppedRun'
  BY <1>22, FailEndsEffect DEF StoppedRun, InRun
<1>23. CASE UNCHANGED vars
  BY <1>23 DEF vars, runtime, turn, StoppedRun, InRun
<1>24. QED
  BY <1>1, <1>2, <1>3, <1>4, <1>5, <1>6, <1>7, <1>8, <1>9, <1>10, <1>11, <1>12, <1>13, <1>14,
     <1>15, <1>16, <1>17, <1>18, <1>19, <1>20, <1>21, <1>22, <1>23
  DEF Next

\* A failed run leaves no runtime behind.
LEMMA NextFailedRun ==
  ASSUME TypeOK, TypeOK', InTurn, Controlled, FailedRun, [Next]_vars
  PROVE  FailedRun'
<1>1. ASSUME Start PROVE FailedRun'
  BY <1>1 DEF Start, Fresh, FailedRun
<1>2. ASSUME Summarize PROVE FailedRun'
  BY <1>2 DEF Summarize, runtime, Fresh, FailedRun
<1>3. ASSUME Summarized PROVE FailedRun'
  BY <1>3 DEF Summarized, runtime, Fresh, FailedRun
<1>4. ASSUME NotRecovered PROVE FailedRun'
  BY <1>4 DEF NotRecovered, EndTurn, runtime, Fresh, FailedRun
<1>5. ASSUME Run PROVE FailedRun'
  BY <1>5, RunEffect DEF FailedRun
<1>6. ASSUME Note PROVE FailedRun'
  BY <1>6 DEF Note, turn, FailedRun
<1>7. ASSUME Completes PROVE FailedRun'
  BY <1>7 DEF Completes, FailedRun
<1>8. ASSUME Succeed PROVE FailedRun'
  BY <1>8 DEF Succeed, EndTurn, FailedRun
<1>9. ASSUME Deliver PROVE FailedRun'
  BY <1>9 DEF Deliver, runtime, turn, Fresh, FailedRun
<1>10. ASSUME Interrupted PROVE FailedRun'
  BY <1>10 DEF Interrupted, EndTurn, FailedRun
<1>11. ASSUME Fails PROVE FailedRun'
  BY <1>11 DEF Fails, Forget, Fresh, FailedRun
<1>12. ASSUME OtherFails PROVE FailedRun'
  BY <1>12 DEF OtherFails, Forget, Fresh, FailedRun
<1>13. ASSUME NEW does \in {"stop", "end"}, Stop(does) PROVE FailedRun'
  BY <1>13 DEF Stop, runtime, Fresh, FailedRun
<1>14. ASSUME StopCut PROVE FailedRun'
  BY <1>14, StopCutEffect DEF runtime, turn, Fresh, FailedRun
<1>15. ASSUME Wait PROVE FailedRun'
  BY <1>15, WaitEffect DEF runtime, turn, Fresh, FailedRun
<1>16. ASSUME Close PROVE FailedRun'
  BY <1>16 DEF Close, Forget, Fresh, FailedRun
<1>17. ASSUME End PROVE FailedRun'
  BY <1>17 DEF End, turn, Fresh, FailedRun
<1>18. ASSUME Stopped PROVE FailedRun'
  BY <1>18 DEF Stopped, runtime, turn, Fresh, FailedRun
<1>19. ASSUME FileLost PROVE FailedRun'
  BY <1>19 DEF FileLost, turn, Fresh, FailedRun
<1>20. ASSUME FinishFails PROVE FailedRun'
  BY <1>20 DEF FinishFails, EndTurn, FailedRun
<1>21. ASSUME Restart PROVE FailedRun'
  BY <1>21 DEF Restart, EndTurn, FailedRun
<1>22. ASSUME FailEnds PROVE FailedRun'
  BY <1>22, FailEndsEffect DEF Fresh, FailedRun
<1>23. CASE UNCHANGED vars
  BY <1>23 DEF vars, runtime, turn, Fresh, FailedRun
<1>24. QED
  BY <1>1, <1>2, <1>3, <1>4, <1>5, <1>6, <1>7, <1>8, <1>9, <1>10, <1>11, <1>12, <1>13, <1>14,
     <1>15, <1>16, <1>17, <1>18, <1>19, <1>20, <1>21, <1>22, <1>23
  DEF Next

\* During a run only the run adds to the journal.
LEMMA NextLastFact ==
  ASSUME TypeOK, TypeOK', InTurn, LastFact, [Next]_vars
  PROVE  LastFact'
<1>1. ASSUME Start PROVE LastFact'
  BY <1>1 DEF Start, Fresh, LastFact, InRun
<1>2. ASSUME Summarize PROVE LastFact'
  BY <1>2 DEF Summarize, LastFact, InRun
<1>3. ASSUME Summarized PROVE LastFact'
  BY <1>3 DEF Summarized, LastFact, InRun
<1>4. ASSUME NotRecovered PROVE LastFact'
  BY <1>4 DEF NotRecovered, EndTurn, LastFact, InRun
<1>5. ASSUME Run PROVE LastFact'
  BY <1>5, RunEffect DEF Grown, LastFact
<1>6. ASSUME Note PROVE LastFact'
  <2>1. own \in Epochs /\ Grown(own, "note")
    BY <1>6, Appended DEF Note, Append1, InTurn, Kinds
  <2>2. QED
    BY <1>6, <2>1 DEF Grown, Note, turn, LastFact
<1>7. ASSUME Completes PROVE LastFact'
  BY <1>7 DEF Completes, journal, LastFact, InRun
<1>8. ASSUME Succeed PROVE LastFact'
  <2>1. own \in Epochs /\ Grown(own, "assistant")
    BY <1>8, Appended DEF Succeed, Append1, InTurn, Kinds
  <2>2. QED
    BY <1>8, <2>1 DEF Succeed, EndTurn, LastFact, InRun
<1>9. ASSUME Deliver PROVE LastFact'
  <2>1. told \in Epochs /\ Grown(told, "delivery")
    BY <1>9, Appended DEF Deliver, Kinds, TypeOK
  <2>2. QED
    BY <1>9, <2>1 DEF Deliver, turn, InTurn, LastFact, InRun
<1>10. ASSUME Interrupted PROVE LastFact'
  <2>1. own \in Epochs /\ Grown(own, "failed")
    BY <1>10, Appended DEF Interrupted, Append1, InTurn, Kinds
  <2>2. QED
    BY <1>10, <2>1 DEF Interrupted, EndTurn, LastFact, InRun
<1>11. ASSUME Fails PROVE LastFact'
  BY <1>11 DEF Fails, LastFact, InRun
<1>12. ASSUME OtherFails PROVE LastFact'
  BY <1>12 DEF OtherFails, journal, turn, LastFact, InRun
<1>13. ASSUME NEW does \in {"stop", "end"}, Stop(does) PROVE LastFact'
  BY <1>13 DEF Stop, journal, turn, LastFact, InRun
<1>14. ASSUME StopCut PROVE LastFact'
  BY <1>14, StopCutEffect DEF journal, turn, LastFact, InRun
<1>15. ASSUME Wait PROVE LastFact'
  BY <1>15, WaitEffect DEF journal, turn, LastFact, InRun
<1>16. ASSUME Close PROVE LastFact'
  BY <1>16, CloseEffect DEF journal, turn, LastFact, InRun
<1>17. ASSUME End PROVE LastFact'
  BY <1>17 DEF End, turn, LastFact, InRun
<1>18. ASSUME Stopped PROVE LastFact'
  BY <1>18 DEF Stopped, journal, turn, LastFact, InRun
<1>19. ASSUME FileLost PROVE LastFact'
  BY <1>19 DEF FileLost, journal, turn, LastFact, InRun
<1>20. ASSUME FinishFails PROVE LastFact'
  <2>1. own \in Epochs /\ Grown(own, "failed")
    BY <1>20, Appended DEF FinishFails, Append1, InTurn, Kinds
  <2>2. QED
    BY <1>20, <2>1 DEF FinishFails, EndTurn, LastFact, InRun
<1>21. ASSUME Restart PROVE LastFact'
  BY <1>21 DEF Restart, EndTurn, LastFact, InRun
<1>22. ASSUME FailEnds PROVE LastFact'
  BY <1>22, FailEndsEffect DEF LastFact, InRun
<1>23. CASE UNCHANGED vars
  BY <1>23 DEF vars, journal, turn, LastFact, InRun
<1>24. QED
  BY <1>1, <1>2, <1>3, <1>4, <1>5, <1>6, <1>7, <1>8, <1>9, <1>10, <1>11, <1>12, <1>13, <1>14,
     <1>15, <1>16, <1>17, <1>18, <1>19, <1>20, <1>21, <1>22, <1>23
  DEF Next

\* What a run adds to the journal its session hears of.
LEMMA NextRunKnows ==
  ASSUME TypeOK, TypeOK', InTurn, Controlled, NewEpochs, OwnEpoch, StoppedRun, RunKnows,
         RestKnows, RecoversFrom, [Next]_vars
  PROVE  RunKnows'
<1>1. ASSUME Start PROVE RunKnows'
  BY <1>1 DEF Start, Fresh, RunKnows, InRun
<1>2. ASSUME Summarize PROVE RunKnows'
  BY <1>2 DEF Summarize, RunKnows, InRun
<1>3. ASSUME Summarized PROVE RunKnows'
  BY <1>3 DEF Summarized, RunKnows, InRun
<1>4. ASSUME NotRecovered PROVE RunKnows'
  BY <1>4 DEF NotRecovered, EndTurn, RunKnows, InRun
<1>5. ASSUME Run PROVE RunKnows'
  <2>1. /\ own = epoch /\ own \in Epochs /\ file' = Begun(file)
        /\ lease' = Begun(file).generation /\ UNCHANGED <<own, epoch, damaged>>
    BY <1>5, RunEffect DEF OwnEpoch
  <2>2. \A i \in Of(epoch)' : i \in Of(epoch) \/ i = Len(facts) + 1
    BY <2>1, <1>5, RunEffect DEF Grown, Of
  <2>3. ASSUME ~damaged, NEW i \in Of(epoch)' PROVE <<lease', i>> \in native'
    <3>1. i \in Recovered(own, after) \/ i = Len(facts) + 1 \/ <<lease', i>> \in native
      BY <1>5, <2>1, <2>2, <2>3, RunShows
    <3>2. i \in Nat /\ lease' \in Nat
      BY <2>1, <2>2, FileAfter, Positions DEF FileType
    <3>3. QED
      BY <1>5, <3>1, <3>2, RunEffect
  <2>4. QED
    BY <2>1, <2>3 DEF RunKnows
<1>6. ASSUME Note PROVE RunKnows'
  <2>1. own \in Epochs /\ Grown(own, "note")
    BY <1>6, Appended DEF Note, Append1, InTurn, Kinds
  <2>2. QED
    BY <1>6, <2>1 DEF Grown, Note, turn, RunKnows, InRun, Of
<1>7. ASSUME Completes PROVE RunKnows'
  BY <1>7 DEF Completes, journal, runtime, RunKnows, InRun, Of
<1>8. ASSUME Succeed PROVE RunKnows'
  <2>1. own \in Epochs /\ Grown(own, "assistant")
    BY <1>8, Appended DEF Succeed, Append1, InTurn, Kinds
  <2>2. QED
    BY <1>8, <2>1 DEF Succeed, EndTurn, RunKnows, InRun
<1>9. ASSUME Deliver PROVE RunKnows'
  <2>1. told \in Epochs /\ Grown(told, "delivery")
    BY <1>9, Appended DEF Deliver, Kinds, TypeOK
  <2>2. QED
    BY <1>9, <2>1 DEF Deliver, turn, InTurn, RunKnows, InRun
<1>10. ASSUME Interrupted PROVE RunKnows'
  <2>1. own \in Epochs /\ Grown(own, "failed")
    BY <1>10, Appended DEF Interrupted, Append1, InTurn, Kinds
  <2>2. QED
    BY <1>10, <2>1 DEF Interrupted, EndTurn, RunKnows, InRun
<1>11. ASSUME Fails PROVE RunKnows'
  BY <1>11 DEF Fails, RunKnows, InRun
<1>12. ASSUME OtherFails PROVE RunKnows'
  BY <1>12 DEF OtherFails, turn, RunKnows, InRun
<1>13. ASSUME NEW does \in {"stop", "end"}, Stop(does) PROVE RunKnows'
  BY <1>13 DEF Stop, journal, runtime, turn, RunKnows, InRun, Of
<1>14. ASSUME StopCut PROVE RunKnows'
  BY <1>14, StopCutEffect DEF journal, runtime, turn, RunKnows, InRun, Of
<1>15. ASSUME Wait PROVE RunKnows'
  BY <1>15, WaitEffect DEF turn, Controlled, RunKnows, InRun
<1>16. ASSUME Close PROVE RunKnows'
  <2>1. damaged' = (phase # "idle" /\ (damaged \/ ~flag)) /\ UNCHANGED <<epoch, phase, flag>>
    BY <1>16, CloseEffect DEF journal, turn
  <2>2. epoch \in Epochs /\ offset'[epoch] = 0
    BY <1>16, CloseEffect, Positions
  <2>3. QED
    BY <2>1, <2>2 DEF RunKnows, InRun
<1>17. ASSUME End PROVE RunKnows'
  BY <1>17, EndEffect DEF End, turn, RunKnows, Controlled, InRun
<1>18. ASSUME Stopped PROVE RunKnows'
  BY <1>18 DEF Stopped, journal, runtime, turn, InTurn, Controlled, StoppedRun, RunKnows, InRun
<1>19. ASSUME FileLost PROVE RunKnows'
  BY <1>19 DEF FileLost, RunKnows
<1>20. ASSUME FinishFails PROVE RunKnows'
  <2>1. own \in Epochs /\ Grown(own, "failed")
    BY <1>20, Appended DEF FinishFails, Append1, InTurn, Kinds
  <2>2. QED
    BY <1>20, <2>1 DEF FinishFails, RunKnows
<1>21. ASSUME Restart PROVE RunKnows'
  BY <1>21 DEF Restart, EndTurn, RunKnows, InRun
<1>22. ASSUME FailEnds PROVE RunKnows'
  BY <1>22, FailEndsEffect DEF RunKnows, InRun
<1>23. CASE UNCHANGED vars
  BY <1>23 DEF vars, journal, runtime, turn, RunKnows, InRun, Of
<1>24. QED
  BY <1>1, <1>2, <1>3, <1>4, <1>5, <1>6, <1>7, <1>8, <1>9, <1>10, <1>11, <1>12, <1>13, <1>14,
     <1>15, <1>16, <1>17, <1>18, <1>19, <1>20, <1>21, <1>22, <1>23
  DEF Next

\* An answered run leaves its session for the next one.
LEMMA NextRestKnows ==
  ASSUME TypeOK, TypeOK', Positioned, NewEpochs, InTurn, Controlled, LastFact, StoppedRun,
         RunKnows, RestKnows, FailedRun, StopForgets, [Next]_vars
  PROVE  RestKnows'
<1>1. ASSUME Start PROVE RestKnows'
  BY <1>1, Positions DEF Start, Fresh, journal, RestKnows, InRun, Of
<1>2. ASSUME Summarize PROVE RestKnows'
  BY <1>2 DEF Summarize, journal, runtime, RestKnows, InRun, Of
<1>3. ASSUME Summarized PROVE RestKnows'
  BY <1>3 DEF Summarized, runtime, RestKnows, InRun, Of
<1>4. ASSUME NotRecovered PROVE RestKnows'
  BY <1>4 DEF NotRecovered, journal, runtime, RestKnows, InRun, Of
<1>5. ASSUME Run PROVE RestKnows'
  BY <1>5, RunEffect DEF RestKnows, InRun
<1>6. ASSUME Note PROVE RestKnows'
  <2>1. own \in Epochs /\ Grown(own, "note")
    BY <1>6, Appended DEF Note, Append1, InTurn, Kinds
  <2>2. QED
    BY <1>6, <2>1 DEF Note, turn, RestKnows, InRun
<1>7. ASSUME Completes PROVE RestKnows'
  BY <1>7 DEF Completes, RestKnows, InRun
<1>8. ASSUME Succeed PROVE RestKnows'
  <2>1. /\ own \in Epochs /\ Grown(own, "assistant") /\ Len(facts) \in Nat
    BY <1>8, Appended, Positions DEF Succeed, Append1, InTurn, Kinds
  <2>2. ASSUME ~damaged
        PROVE  /\ lease = file.generation /\ own = epoch
               /\ \A i \in Of(epoch) : <<lease, i>> \in native
    BY <1>8, <2>2 DEF Succeed, RunKnows, InRun
  <2>3. ASSUME ~damaged PROVE Alive
    <3>1. Len(facts) \in Of(epoch)
      BY <1>8, <2>1, <2>2, <2>3 DEF Succeed, LastFact, InRun, Of
    <3>2. QED
      BY <2>2, <2>3, <3>1 DEF Alive
  <2>4. ASSUME ~damaged, NEW i \in Of(epoch)' PROVE <<lease, i>> \in native'
    <3>1. epoch' = epoch /\ native' = native \cup {<<lease, Len(facts) + 1>>}
      BY <1>8, <2>1, <2>3, <2>4 DEF Succeed, Grown
    <3>2. i \in Of(epoch) \/ i = Len(facts) + 1
      BY <2>1, <2>4, <3>1 DEF Grown, Of
    <3>3. QED
      BY <2>2, <2>4, <3>1, <3>2
  <2>5. file'.generation = file.generation /\ (lease = file.generation => file'.state = "idle")
    BY <1>8, FileAfter DEF Succeed
  <2>6. QED
    BY <1>8, <2>2, <2>4, <2>5 DEF Succeed, RestKnows
<1>9. ASSUME Deliver PROVE RestKnows'
  <2>1. told \in Epochs /\ Grown(told, "delivery")
    BY <1>9, Appended DEF Deliver, Kinds, TypeOK
  <2>2. QED
    BY <1>9, <2>1, Positions DEF Deliver, runtime, Positioned, InTurn, RestKnows, InRun, Of
<1>10. ASSUME Interrupted PROVE RestKnows'
  <2>1. /\ own \in Epochs /\ Grown(own, "failed") /\ Len(facts) \in Nat
        /\ epoch \in Epochs /\ offset[epoch] \in Nat /\ offset[epoch] <= Len(facts)
    BY <1>10, Appended, Positions DEF Interrupted, Append1, InTurn, Kinds, Positioned
  <2>2. UNCHANGED <<epoch, offset, native, damaged>> /\ file' = Finished(file)
    BY <1>10 DEF Interrupted, runtime
  <2>3. ASSUME ~damaged, offset[epoch] # 0
        PROVE  /\ lease = file.generation
               /\ \A i \in Of(epoch) : <<lease, i>> \in native
    BY <1>10, <2>3 DEF Interrupted, RunKnows, InRun
  <2>4. file'.generation = file.generation /\ (lease = file.generation => file'.state = "idle")
    BY <2>2, FileAfter
  <2>5. ASSUME NEW i \in Of(epoch)', i <= offset[epoch]
        PROVE  i \in Of(epoch)
    BY <2>1, <2>2, <2>5 DEF Grown, Of
  <2>6. QED
    BY <2>2, <2>3, <2>4, <2>5 DEF RestKnows
<1>11. ASSUME Fails PROVE RestKnows'
  BY <1>11, Positions DEF Fails, Forget, journal, RestKnows
<1>12. ASSUME OtherFails PROVE RestKnows'
  BY <1>12, Positions DEF OtherFails, Forget, journal, RestKnows
<1>13. ASSUME NEW does \in {"stop", "end"}, Stop(does) PROVE RestKnows'
  BY <1>13 DEF Stop, journal, runtime, turn, RestKnows, InRun, Of
<1>14. ASSUME StopCut PROVE RestKnows'
  BY <1>14, StopCutEffect DEF journal, runtime, turn, RestKnows, InRun, Of
<1>15. ASSUME Wait PROVE RestKnows'
  BY <1>15, WaitEffect DEF journal, runtime, turn, RestKnows, InRun, Of
<1>16. ASSUME Close PROVE RestKnows'
  BY <1>16, CloseEffect, Positions DEF journal, RestKnows
<1>17. ASSUME End PROVE RestKnows'
  BY <1>17, EndEffect DEF RestKnows
<1>18. ASSUME Stopped PROVE RestKnows'
  BY <1>18 DEF Stopped, journal, runtime, RestKnows, StopForgets
<1>19. ASSUME FileLost PROVE RestKnows'
  BY <1>19 DEF FileLost, RestKnows
<1>20. ASSUME FinishFails PROVE RestKnows'
  <2>1. own \in Epochs /\ Grown(own, "failed")
    BY <1>20, Appended DEF FinishFails, Append1, InTurn, Kinds
  <2>2. QED
    BY <1>20, <2>1 DEF FinishFails, RestKnows
<1>21. ASSUME Restart PROVE RestKnows'
  BY <1>21, Positions DEF Restart, Forget, journal, RestKnows
<1>22. ASSUME FailEnds PROVE RestKnows'
  BY <1>22, FailEndsEffect, Positions DEF FailedRun, Fresh, RestKnows
<1>23. CASE UNCHANGED vars
  BY <1>23 DEF vars, journal, runtime, turn, RestKnows, InRun, Of
<1>24. QED
  BY <1>1, <1>2, <1>3, <1>4, <1>5, <1>6, <1>7, <1>8, <1>9, <1>10, <1>11, <1>12, <1>13, <1>14,
     <1>15, <1>16, <1>17, <1>18, <1>19, <1>20, <1>21, <1>22, <1>23
  DEF Next

\* Answered runs move the offset.
LEMMA NextFewBeyond ==
  ASSUME TypeOK, TypeOK', Positioned, NewEpochs, InTurn, Controlled, OwnEpoch, StoppedRun,
         RunKnows, FewBeyond, FailedRun, RecoversFrom, [Next]_vars
  PROVE  FewBeyond'
<1>1. ASSUME Start PROVE FewBeyond'
  BY <1>1, Positions DEF Start, Fresh, journal, FewBeyond, Beyond, Of
<1>2. ASSUME Summarize PROVE FewBeyond'
  BY <1>2 DEF Summarize, FewBeyond
<1>3. ASSUME Summarized PROVE FewBeyond'
  BY <1>3 DEF Summarized, runtime, OwnEpoch, FewBeyond, RecoversFrom
<1>4. ASSUME NotRecovered PROVE FewBeyond'
  BY <1>4 DEF NotRecovered, journal, runtime, OwnEpoch, FewBeyond, RecoversFrom, Beyond, Of
<1>5. ASSUME Run PROVE FewBeyond'
  BY <1>5, RunEffect DEF FewBeyond
<1>6. ASSUME Note PROVE FewBeyond'
  <2>1. own \in Epochs /\ Grown(own, "note")
    BY <1>6, Appended DEF Note, Append1, InTurn, Kinds
  <2>2. QED
    BY <1>6, <2>1 DEF Note, turn, FewBeyond
<1>7. ASSUME Completes PROVE FewBeyond'
  BY <1>7 DEF Completes, FewBeyond
<1>8. ASSUME Succeed PROVE FewBeyond'
  <2>1. own \in Epochs /\ Grown(own, "assistant")
    BY <1>8, Appended DEF Succeed, Append1, InTurn, Kinds
  <2>2. QED
    BY <1>8, <2>1, Positions DEF Grown, Succeed, Positioned, RunKnows, FewBeyond, InRun, Beyond, Of
<1>9. ASSUME Deliver PROVE FewBeyond'
  <2>1. told \in Epochs /\ Grown(told, "delivery") /\ told' = 0 /\ Len(facts) \in Nat
    BY <1>9, Appended, Positions DEF Deliver, Kinds, TypeOK
  <2>2. UNCHANGED <<epoch, checkpoint, offset, damaged, phase, control>> /\ epoch # 0
    BY <1>9, Limits, Positions DEF Deliver, runtime, turn
  <2>3. \A i \in Beyond' : i \in Beyond \/ (told = epoch /\ i = Len(facts) + 1)
    BY <2>1, <2>2 DEF Grown, Beyond, Of
  <2>4. QED
    BY <2>1, <2>2, <2>3 DEF FewBeyond
<1>10. ASSUME Interrupted PROVE FewBeyond'
  <2>1. own \in Epochs /\ Grown(own, "failed")
    BY <1>10, Appended DEF Interrupted, Append1, InTurn, Kinds
  <2>2. QED
    BY <1>10, <2>1 DEF Interrupted, runtime, StoppedRun, RunKnows, FewBeyond, InRun
<1>11. ASSUME Fails PROVE FewBeyond'
  BY <1>11, Positions DEF Fails, Forget, journal, FewBeyond
<1>12. ASSUME OtherFails PROVE FewBeyond'
  BY <1>12, Positions DEF OtherFails, Forget, journal, FewBeyond
<1>13. ASSUME NEW does \in {"stop", "end"}, Stop(does) PROVE FewBeyond'
  BY <1>13 DEF Stop, Free, journal, runtime, OwnEpoch, FewBeyond, RecoversFrom, Beyond, Of
<1>14. ASSUME StopCut PROVE FewBeyond'
  BY <1>14, StopCutEffect DEF journal, runtime, turn, FewBeyond, Beyond, Of
<1>15. ASSUME Wait PROVE FewBeyond'
  BY <1>15, WaitEffect DEF journal, runtime, turn, FewBeyond, Beyond, Of
<1>16. ASSUME Close PROVE FewBeyond'
  BY <1>16, CloseEffect, Positions DEF journal, FewBeyond
<1>17. ASSUME End PROVE FewBeyond'
  BY <1>17, EndEffect DEF FewBeyond
<1>18. ASSUME Stopped PROVE FewBeyond'
  BY <1>18 DEF Stopped, journal, runtime, turn, FewBeyond, Beyond, Of
<1>19. ASSUME FileLost PROVE FewBeyond'
  BY <1>19 DEF FileLost, FewBeyond
<1>20. ASSUME FinishFails PROVE FewBeyond'
  <2>1. own \in Epochs /\ Grown(own, "failed")
    BY <1>20, Appended DEF FinishFails, Append1, InTurn, Kinds
  <2>2. QED
    BY <1>20, <2>1 DEF FinishFails, FewBeyond
<1>21. ASSUME Restart PROVE FewBeyond'
  BY <1>21, Positions DEF Restart, Forget, journal, FewBeyond
<1>22. ASSUME FailEnds PROVE FewBeyond'
  BY <1>22, FailEndsEffect, Positions DEF FailedRun, Fresh, FewBeyond
<1>23. CASE UNCHANGED vars
  BY <1>23 DEF vars, journal, runtime, turn, FewBeyond, Beyond, Of
<1>24. QED
  BY <1>1, <1>2, <1>3, <1>4, <1>5, <1>6, <1>7, <1>8, <1>9, <1>10, <1>11, <1>12, <1>13, <1>14,
     <1>15, <1>16, <1>17, <1>18, <1>19, <1>20, <1>21, <1>22, <1>23
  DEF Next

\* A history that needs a summary begins with a new runtime.
LEMMA NextRecoversFrom ==
  ASSUME TypeOK, TypeOK', Controlled, OwnEpoch, InTurn, FewBeyond, FailedRun, RecoversFrom, [Next]_vars
  PROVE  RecoversFrom'
<1>1. ASSUME Start PROVE RecoversFrom'
  BY <1>1 DEF Start, Fresh, RecoversFrom
<1>2. ASSUME Summarize PROVE RecoversFrom'
  <2>1. /\ phase = "recovering" /\ Size(own, after) > Budget /\ own \in Epochs /\ own = epoch
        /\ UNCHANGED <<damaged, own, offset, control>>
    BY <1>2 DEF Summarize, InTurn, OwnEpoch, runtime
  <2>2. ASSUME ~damaged, offset[own] # 0, control.at # "closing" PROVE FALSE
    <3>1. after = offset[own] /\ checkpoint[own] <= after /\ \A i, j \in Beyond : i = j
      BY <2>1, <2>2 DEF RecoversFrom, FewBeyond
    <3>2. ~(checkpoint[own] > after)
      BY <2>1, <3>1, Positions
    <3>3. Size(own, after) = Cardinality(Beyond)
      BY <2>1, <3>1, <3>2 DEF Size, Beyond
    <3>4. Cardinality(Beyond) \in {0, 1}
      BY <3>1, AtMostOne
    <3>5. QED
      BY <2>1, <3>3, <3>4, Limits
  <2>3. phase' = "summarizing"
    BY <1>2 DEF Summarize
  <2>4. QED
    BY <2>1, <2>2, <2>3 DEF RecoversFrom
<1>3. ASSUME Summarized PROVE RecoversFrom'
  BY <1>3 DEF Summarized, runtime, RecoversFrom
<1>4. ASSUME NotRecovered PROVE RecoversFrom'
  BY <1>4 DEF NotRecovered, EndTurn, RecoversFrom
<1>5. ASSUME Run PROVE RecoversFrom'
  BY <1>5, RunEffect DEF RecoversFrom
<1>6. ASSUME Note PROVE RecoversFrom'
  BY <1>6 DEF Note, turn, RecoversFrom
<1>7. ASSUME Completes PROVE RecoversFrom'
  BY <1>7 DEF Completes, RecoversFrom
<1>8. ASSUME Succeed PROVE RecoversFrom'
  BY <1>8 DEF Succeed, EndTurn, RecoversFrom
<1>9. ASSUME Deliver PROVE RecoversFrom'
  BY <1>9 DEF Deliver, turn, InTurn, RecoversFrom
<1>10. ASSUME Interrupted PROVE RecoversFrom'
  BY <1>10 DEF Interrupted, EndTurn, RecoversFrom
<1>11. ASSUME Fails PROVE RecoversFrom'
  BY <1>11 DEF Fails, RecoversFrom
<1>12. ASSUME OtherFails PROVE RecoversFrom'
  BY <1>12 DEF OtherFails, turn, RecoversFrom
<1>13. ASSUME NEW does \in {"stop", "end"}, Stop(does) PROVE RecoversFrom'
  BY <1>13 DEF Stop, Free, runtime, turn, RecoversFrom
<1>14. ASSUME StopCut PROVE RecoversFrom'
  BY <1>14, StopCutEffect DEF runtime, turn, RecoversFrom
<1>15. ASSUME Wait PROVE RecoversFrom'
  BY <1>15, WaitEffect DEF turn, RecoversFrom
<1>16. ASSUME Close PROVE RecoversFrom'
  <2>1. damaged' = (phase # "idle" /\ (damaged \/ ~flag)) /\ UNCHANGED <<own, after, phase>>
    BY <1>16, CloseEffect DEF turn
  <2>2. phase # "idle" => own \in Epochs /\ offset'[own] = 0
    BY <1>16, CloseEffect DEF InTurn
  <2>3. ASSUME phase = "recovering", ~damaged'
        PROVE  after = 0
    BY <2>1, <2>2, <2>3 DEF InTurn, FailedRun, Fresh, RecoversFrom
  <2>4. QED
    BY <2>1, <2>2, <2>3 DEF RecoversFrom
<1>17. ASSUME End PROVE RecoversFrom'
  BY <1>17 DEF End, turn, Controlled, RecoversFrom
<1>18. ASSUME Stopped PROVE RecoversFrom'
  BY <1>18 DEF Stopped, turn, Controlled, RecoversFrom
<1>19. ASSUME FileLost PROVE RecoversFrom'
  BY <1>19 DEF FileLost, RecoversFrom
<1>20. ASSUME FinishFails PROVE RecoversFrom'
  BY <1>20 DEF FinishFails, RecoversFrom
<1>21. ASSUME Restart PROVE RecoversFrom'
  BY <1>21 DEF Restart, EndTurn, RecoversFrom
<1>22. ASSUME FailEnds PROVE RecoversFrom'
  BY <1>22, FailEndsEffect DEF RecoversFrom
<1>23. CASE UNCHANGED vars
  BY <1>23 DEF vars, runtime, turn, RecoversFrom
<1>24. QED
  BY <1>1, <1>2, <1>3, <1>4, <1>5, <1>6, <1>7, <1>8, <1>9, <1>10, <1>11, <1>12, <1>13, <1>14,
     <1>15, <1>16, <1>17, <1>18, <1>19, <1>20, <1>21, <1>22, <1>23
  DEF Next

\* A stop in a recovery finds a new runtime.
LEMMA NextStopForgets ==
  ASSUME TypeOK, TypeOK', NewEpochs, InTurn, Controlled, OwnEpoch, StoppedRun, FailedRun, RecoversFrom,
         StopForgets, [Next]_vars
  PROVE  StopForgets'
<1>1. ASSUME Start PROVE StopForgets'
  BY <1>1 DEF Start, Fresh, StopForgets
<1>2. ASSUME Summarize PROVE StopForgets'
  BY <1>2 DEF Summarize, journal, runtime, StopForgets
<1>3. ASSUME Summarized PROVE StopForgets'
  BY <1>3 DEF Summarized, runtime, StopForgets
<1>4. ASSUME NotRecovered PROVE StopForgets'
  BY <1>4 DEF NotRecovered, journal, runtime, StopForgets
<1>5. ASSUME Run PROVE StopForgets'
  BY <1>5, RunEffect DEF StopForgets
<1>6. ASSUME Note PROVE StopForgets'
  BY <1>6 DEF Note, StopForgets
<1>7. ASSUME Completes PROVE StopForgets'
  BY <1>7 DEF Completes, journal, runtime, StopForgets
<1>8. ASSUME Succeed PROVE StopForgets'
  BY <1>8 DEF Succeed, Controlled, StopForgets, InRun
<1>9. ASSUME Deliver PROVE StopForgets'
  BY <1>9 DEF Deliver, runtime, StopForgets
<1>10. ASSUME Interrupted PROVE StopForgets'
  BY <1>10 DEF Interrupted, runtime, StopForgets
<1>11. ASSUME Fails PROVE StopForgets'
  BY <1>11, Positions DEF Fails, Forget, journal, StopForgets
<1>12. ASSUME OtherFails PROVE StopForgets'
  BY <1>12, Positions DEF OtherFails, Forget, journal, StopForgets
<1>13. ASSUME NEW does \in {"stop", "end"}, Stop(does) PROVE StopForgets'
  BY <1>13 DEF Stop, Free, journal, runtime, OwnEpoch, RecoversFrom, StopForgets
<1>14. ASSUME StopCut PROVE StopForgets'
  BY <1>14, StopCutEffect DEF StopForgets
<1>15. ASSUME Wait PROVE StopForgets'
  BY <1>15, WaitEffect DEF journal, runtime, StopForgets
<1>16. ASSUME Close PROVE StopForgets'
  BY <1>16, CloseEffect, Positions DEF journal, StopForgets
<1>17. ASSUME End PROVE StopForgets'
  BY <1>17, EndEffect DEF StopForgets
<1>18. ASSUME Stopped PROVE StopForgets'
  BY <1>18 DEF Stopped, Free, StopForgets
<1>19. ASSUME FileLost PROVE StopForgets'
  BY <1>19 DEF FileLost, StopForgets
<1>20. ASSUME FinishFails PROVE StopForgets'
  BY <1>20 DEF FinishFails, StopForgets
<1>21. ASSUME Restart PROVE StopForgets'
  BY <1>21 DEF Restart, Free, StopForgets
<1>22. ASSUME FailEnds PROVE StopForgets'
  BY <1>22, FailEndsEffect, Positions DEF FailedRun, Fresh, StopForgets
<1>23. CASE UNCHANGED vars
  BY <1>23 DEF vars, journal, runtime, StopForgets
<1>24. QED
  BY <1>1, <1>2, <1>3, <1>4, <1>5, <1>6, <1>7, <1>8, <1>9, <1>10, <1>11, <1>12, <1>13, <1>14,
     <1>15, <1>16, <1>17, <1>18, <1>19, <1>20, <1>21, <1>22, <1>23
  DEF Next

\* A run knows the facts of its epoch from its start.
LEMMA NextHistoryComplete ==
  ASSUME TypeOK, TypeOK', Known, InTurn, OwnEpoch, RestKnows, RecoversFrom, HistoryComplete,
         [Next]_vars
  PROVE  HistoryComplete'
<1>1. ASSUME Start PROVE HistoryComplete'
  BY <1>1 DEF Start, Fresh, HistoryComplete
<1>2. ASSUME Summarize PROVE HistoryComplete'
  BY <1>2 DEF Summarize, HistoryComplete
<1>3. ASSUME Summarized PROVE HistoryComplete'
  BY <1>3 DEF Summarized, HistoryComplete
<1>4. ASSUME NotRecovered PROVE HistoryComplete'
  BY <1>4 DEF NotRecovered, EndTurn, HistoryComplete
<1>5. ASSUME Run PROVE HistoryComplete'
  <2>1. /\ own \in Epochs /\ UNCHANGED <<own, damaged>> /\ Len(facts) \in Nat
        /\ DOMAIN facts = 1..Len(facts) /\ Of(own) \subseteq 1..Len(facts)
    BY <1>5, RunEffect, Positions
  <2>2. \A i \in Of(own)' : i \in Of(own) \/ i = Len(facts) + 1
    BY <1>5, <2>1, RunEffect DEF Grown, Of
  <2>3. ASSUME ~damaged, NEW i \in Of(own)', NEW j \in Of(own)', i < j PROVE i \in shown'
    <3>1. i \in Of(own)
      BY <2>1, <2>2, <2>3
    <3>2. QED
      BY <1>5, <2>1, <2>3, <3>1, RunShows, RunEffect
  <2>4. QED
    BY <2>1, <2>3 DEF HistoryComplete
<1>6. ASSUME Note PROVE HistoryComplete'
  <2>1. /\ own \in Epochs /\ Grown(own, "note") /\ Len(facts) \in Nat
        /\ Of(own) \subseteq 1..Len(facts) /\ DOMAIN facts = 1..Len(facts)
    BY <1>6, Appended, Positions DEF Note, Append1, InTurn, Kinds
  <2>2. UNCHANGED <<own, damaged, phase, shown>>
    BY <1>6 DEF Note, turn
  <2>3. \A j \in Of(own)' :
          \/ j \in Of(own) /\ facts'[j] = facts[j] /\ j <= Len(facts)
          \/ facts'[j].kind # "user" /\ j = Len(facts) + 1
    BY <2>1, <2>2 DEF Grown, Of
  <2>4. ASSUME phase = "running", ~damaged, NEW i \in Of(own)', NEW j \in Of(own)',
               i < j, facts'[j].kind = "user"
        PROVE  i \in shown
    <3>1. j \in Of(own) /\ facts[j].kind = "user"
      BY <2>3, <2>4
    <3>2. i \in Of(own)
      BY <2>1, <2>3, <2>4, <3>1
    <3>3. QED
      BY <2>4, <3>1, <3>2 DEF HistoryComplete
  <2>5. QED
    BY <2>2, <2>4 DEF HistoryComplete
<1>7. ASSUME Completes PROVE HistoryComplete'
  BY <1>7 DEF Completes, HistoryComplete
<1>8. ASSUME Succeed PROVE HistoryComplete'
  <2>1. own \in Epochs /\ Grown(own, "assistant")
    BY <1>8, Appended DEF Succeed, Append1, InTurn, Kinds
  <2>2. QED
    BY <1>8, <2>1 DEF Succeed, EndTurn, HistoryComplete
<1>9. ASSUME Deliver PROVE HistoryComplete'
  <2>1. told \in Epochs /\ Grown(told, "delivery")
    BY <1>9, Appended DEF Deliver, Kinds, TypeOK
  <2>2. QED
    BY <1>9, <2>1 DEF Deliver, turn, InTurn, HistoryComplete
<1>10. ASSUME Interrupted PROVE HistoryComplete'
  <2>1. own \in Epochs /\ Grown(own, "failed")
    BY <1>10, Appended DEF Interrupted, Append1, InTurn, Kinds
  <2>2. QED
    BY <1>10, <2>1 DEF Interrupted, EndTurn, HistoryComplete
<1>11. ASSUME Fails PROVE HistoryComplete'
  BY <1>11 DEF Fails, HistoryComplete
<1>12. ASSUME OtherFails PROVE HistoryComplete'
  BY <1>12 DEF OtherFails, turn, HistoryComplete
<1>13. ASSUME NEW does \in {"stop", "end"}, Stop(does) PROVE HistoryComplete'
  BY <1>13 DEF Stop, journal, runtime, turn, HistoryComplete, Of
<1>14. ASSUME StopCut PROVE HistoryComplete'
  BY <1>14, StopCutEffect DEF journal, runtime, turn, HistoryComplete, Of
<1>15. ASSUME Wait PROVE HistoryComplete'
  BY <1>15, WaitEffect DEF journal, runtime, turn, HistoryComplete, Of
<1>16. ASSUME Close PROVE HistoryComplete'
  BY <1>16, CloseEffect DEF journal, turn, HistoryComplete, Of
<1>17. ASSUME End PROVE HistoryComplete'
  BY <1>17 DEF End, runtime, turn, HistoryComplete, Of
<1>18. ASSUME Stopped PROVE HistoryComplete'
  BY <1>18 DEF Stopped, journal, runtime, turn, HistoryComplete, Of
<1>19. ASSUME FileLost PROVE HistoryComplete'
  BY <1>19 DEF FileLost, HistoryComplete
<1>20. ASSUME FinishFails PROVE HistoryComplete'
  <2>1. own \in Epochs /\ Grown(own, "failed")
    BY <1>20, Appended DEF FinishFails, Append1, InTurn, Kinds
  <2>2. QED
    BY <1>20, <2>1 DEF FinishFails, HistoryComplete
<1>21. ASSUME Restart PROVE HistoryComplete'
  BY <1>21 DEF Restart, EndTurn, HistoryComplete
<1>22. ASSUME FailEnds PROVE HistoryComplete'
  BY <1>22, FailEndsEffect DEF HistoryComplete
<1>23. CASE UNCHANGED vars
  BY <1>23 DEF vars, journal, runtime, turn, HistoryComplete, Of
<1>24. QED
  BY <1>1, <1>2, <1>3, <1>4, <1>5, <1>6, <1>7, <1>8, <1>9, <1>10, <1>11, <1>12, <1>13, <1>14,
     <1>15, <1>16, <1>17, <1>18, <1>19, <1>20, <1>21, <1>22, <1>23
  DEF Next

(***************************************************************************)
(* The theorems.                                                           *)
(***************************************************************************)
\* The inductive invariant holds initially ...
LEMMA InitInv == Init => MemoryInv
<1>1. SUFFICES ASSUME Init PROVE MemoryInv
  OBVIOUS
<1>2. /\ Len(facts) = 0 /\ \A e \in Epochs : checkpoint[e] = 0 /\ offset[e] = 0
      /\ native = {} /\ phase = "idle" /\ ~flag
      /\ control.does = "none" /\ control.at = "none"
      /\ epoch \in Epochs
  <2>1. Len(facts) = 0
    BY <1>1, EmptySeq DEF Init
  <2>2. control.does = "none" /\ control.at = "none"
    BY <1>1 DEF Init, Free
  <2>3. epoch \in Epochs
    BY <1>1, Limits DEF Init, Epochs
  <2>4. QED
    BY <1>1, <2>1, <2>2, <2>3 DEF Init
<1>3. Positioned /\ Known /\ NewEpochs /\ SummaryThere /\ InTurn /\ Controlled /\ OwnEpoch
  BY <1>2 DEF Positioned, Known, NewEpochs, SummaryThere, InTurn, Controlled, OwnEpoch
<1>4. Generations /\ LeaseEpoch /\ StoppedRun /\ FailedRun /\ LastFact /\ RunKnows /\ RestKnows
  BY <1>2 DEF Generations, LeaseEpoch, StoppedRun, FailedRun, LastFact, RunKnows, RestKnows, InRun
<1>5. FewBeyond /\ RecoversFrom /\ StopForgets
  BY <1>2 DEF FewBeyond, RecoversFrom, StopForgets
<1>6. SummaryStillValid /\ HistoryOwn /\ HistoryComplete
  BY <1>2 DEF SummaryStillValid, HistoryOwn, HistoryComplete
<1>7. QED
  BY <1>3, <1>4, <1>5, <1>6 DEF MemoryInv

\* ... and every step keeps it.
LEMMA NextInv ==
  ASSUME TypeOK, MemoryInv, [Next]_vars
  PROVE  TypeOK' /\ MemoryInv'
<1>1. TypeOK'
  BY NextType DEF MemoryInv
<1>2. InTurn' /\ Controlled' /\ OwnEpoch' /\ SummaryStillValid' /\ SummaryThere'
  BY <1>1, NextInTurn, NextControlled, NextOwnEpoch, NextSummaryStillValid, NextSummaryThere
  DEF MemoryInv
<1>3. Positioned' /\ Known' /\ NewEpochs' /\ Generations' /\ LeaseEpoch' /\ HistoryOwn'
  BY <1>1, NextPositioned, NextKnown, NextNewEpochs, NextGenerations, NextLeaseEpoch,
     NextHistoryOwn
  DEF MemoryInv
<1>4. StoppedRun' /\ FailedRun' /\ LastFact' /\ RunKnows' /\ RestKnows'
  BY <1>1, NextStoppedRun, NextFailedRun, NextLastFact, NextRunKnows, NextRestKnows DEF MemoryInv
<1>5. FewBeyond' /\ RecoversFrom' /\ StopForgets' /\ HistoryComplete'
  BY <1>1, NextFewBeyond, NextRecoversFrom, NextStopForgets, NextHistoryComplete DEF MemoryInv
<1>6. QED
  BY <1>1, <1>2, <1>3, <1>4, <1>5 DEF MemoryInv

\* Type correctness, with the inductive invariant.
THEOREM MemoryCorrect == Spec => [](TypeOK /\ MemoryInv)
<1>1. Init => TypeOK /\ MemoryInv
  BY InitType, InitInv
<1>2. TypeOK /\ MemoryInv /\ [Next]_vars => (TypeOK /\ MemoryInv)'
  BY NextInv
<1>3. QED
  BY <1>1, <1>2, PTL DEF Spec

\* The check of save_checkpoint never fails within one process: while a summary is made, the
\* epoch and the summary before it stay as they were, and it covers at least one fact more.
THEOREM SummaryIsValid == Spec => []SummaryStillValid
<1>1. TypeOK /\ MemoryInv => SummaryStillValid
  BY DEF MemoryInv
<1>2. QED
  BY <1>1, MemoryCorrect, PTL

\* A run knows nothing of an epoch that has ended, neither from the recovered context nor
\* from the native session of its generation.
THEOREM HistoryIsOwn == Spec => []HistoryOwn
<1>1. TypeOK /\ MemoryInv => HistoryOwn
  BY DEF MemoryInv
<1>2. QED
  BY <1>1, MemoryCorrect, PTL

\* A run starts with every fact of its epoch, whatever closed the runtime before.
THEOREM HistoryIsComplete == Spec => []HistoryComplete
<1>1. TypeOK /\ MemoryInv => HistoryComplete
  BY DEF MemoryInv
<1>2. QED
  BY <1>1, MemoryCorrect, PTL
=============================================================================
