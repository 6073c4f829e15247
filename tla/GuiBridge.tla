----------------------------- MODULE GuiBridge -----------------------------
(***************************************************************************)
(* The polling loop of wechat-gui-bridge/bridge.py: it reads the latest    *)
(* bubble of the chat that the Weixin window shows (a screenshot and OCR), *)
(* answers it through the Spring service or with a local file, and sends   *)
(* by pasting and a key, while people write and its user switches chats.   *)
(* Three bounded caches in memory keep it from answering twice and from    *)
(* answering itself.  The window is modelled from how the loop drives it.  *)
(* GuiPromises.tla has the properties.                                     *)
(***************************************************************************)
EXTENDS GuiPromises, Integers, SequencesExt

CONSTANTS
  Chats,
  NoTarget,     \* what Target has for the others
  Groups,       \* the targets that are groups
  Texts,        \* what people write, with who wrote it
  Mentions,     \* the texts that call the bot in a group
  Requests,     \* the texts that ask for a local file
  Garbled,      \* a text read wrongly, and a draft of several replies
  Positions,    \* of a bubble on the screen, part of its fingerprint
  Capacity,     \* max_processed_messages
  MaxBubbles, MaxMisreads, MaxFaults, MaxSwitches

ASSUME GuiAssumption ==
  /\ Target \in [Chats -> Chats \cup {NoTarget}] /\ NoTarget \notin Chats
  /\ Alike \subseteq Chats \X Chats
  /\ \A c \in Chats : Target[c] # NoTarget => <<c, Target[c]>> \in Alike
  /\ Groups \subseteq Chats /\ Mentions \subseteq Texts /\ Requests \subseteq Texts
  /\ Capacity \in Nat \ {0} /\ {MaxBubbles, MaxMisreads, MaxFaults, MaxSwitches} \subseteq Nat

VARIABLES
  shown,     \* the chat in the window
  draft,     \* of a chat: the replies pasted into its input box
  pc,        \* idle, looked, read, ready, checked, pasted
  target,    \* the target that the round found
  msg,       \* the bubble that it read: id, text, self, position, and whether its sender is read right
  reply,     \* what it is about to send
  seen,      \* processed_cache: fingerprints, with the position
  handled,   \* handled_request_cache: requests that were answered
  outgoing,  \* outgoing_text_cache: texts it sent
  misreads, faults, switches,
  meddled    \* history: the chat changed while the round relied on it, or its name was misread

window == <<shown, bubbles, draft>>
round == <<target, msg, reply>>
caches == <<seen, handled, outgoing>>
limits == <<misreads, faults, switches>>
history == <<sent, meddled, wrongSide, excused>>
vars == <<window, pc, round, caches, limits, history>>

Replies == {"answer", "missing", "file"}
Written == Texts \cup Replies \cup {Garbled}
NoMessage == [id |-> 0, text |-> Garbled, self |-> FALSE, named |-> TRUE, pos |-> 0]

TypeOK ==
  /\ shown \in Chats
  /\ bubbles \in Seq([chat : Chats, from : {"peer", "bridge"}, text : Written])
  /\ draft \in [Chats -> Seq([req : Nat \ {0}, text : Replies, meddled : BOOLEAN])]
  /\ pc \in {"idle", "looked", "read", "ready", "checked", "pasted"}
  /\ target \in Chats \cup {NoTarget} /\ reply \in Replies
  /\ msg \in [id : Nat, text : Written, self : BOOLEAN, named : BOOLEAN, pos : Positions \cup {0}]
  /\ seen \in Seq(Chats \X Written \X BOOLEAN \X BOOLEAN \X Positions)
  /\ handled \in Seq(Chats \X Written \X BOOLEAN \X BOOLEAN) /\ outgoing \in Seq(Chats \X Replies)
  /\ {Len(seen), Len(handled), Len(outgoing)} \subseteq 0..Capacity
  /\ {misreads, faults, switches} \subseteq Nat
  /\ sent \in Seq([req : Nat \ {0}, to : Chats, meddled : BOOLEAN])
  /\ meddled \in BOOLEAN /\ wrongSide \subseteq Nat /\ excused \subseteq Nat

Init ==
  /\ shown \in Chats /\ bubbles = <<>> /\ draft = [c \in Chats |-> <<>>]
  /\ pc = "idle" /\ target = NoTarget /\ msg = NoMessage /\ reply = "answer"
  /\ seen = <<>> /\ handled = <<>> /\ outgoing = <<>>
  /\ misreads = 0 /\ faults = 0 /\ switches = 0
  /\ sent = <<>> /\ meddled = FALSE /\ wrongSide = {} /\ excused = {}

Of(c) == {i \in DOMAIN bubbles : bubbles[i].chat = c}
Fault == faults < MaxFaults /\ faults' = faults + 1
Misread == misreads < MaxMisreads /\ misreads' = misreads + 1

\* ProcessedMessageCache.
Has(cache, x) == \E i \in DOMAIN cache : cache[i] = x
Added(cache, x) ==
  IF Has(cache, x) THEN cache
  ELSE IF Len(cache) < Capacity THEN Append(cache, x) ELSE Append(Tail(cache), x)
Evicted(cache, x) == {y \in ToSet(cache) : ~Has(Added(cache, x), y)}

Fingerprint == <<target, msg.text, msg.self, msg.named, msg.pos>>

\* FAULT: the request is told by its place on the screen.
RequestFingerprintAtPosition == Fingerprint

RequestFingerprint == <<target, msg.text, msg.self, msg.named>>

\* The bubbles that an evicted entry stood for.
RequestsOf(entries) ==
  {i \in DOMAIN bubbles :
     <<Target[bubbles[i].chat], bubbles[i].text, bubbles[i].from # "peer", TRUE>> \in entries}
EchoesOf(entries) == {i \in DOMAIN bubbles : <<Target[bubbles[i].chat], bubbles[i].text>> \in entries}
-----------------------------------------------------------------------------
\* The people.
PeerWrites(c, text) ==
  /\ Len(bubbles) < MaxBubbles
  /\ bubbles' = Append(bubbles, [chat |-> c, from |-> "peer", text |-> text])
  /\ UNCHANGED <<shown, draft, pc, round, caches, limits, history>>

Relies == pc \in {"looked", "checked", "pasted"}

Switch(c) ==
  /\ c # shown /\ switches < MaxSwitches
  /\ shown' = c /\ switches' = switches + 1
  /\ meddled' = (meddled \/ Relies)
  /\ UNCHANGED <<bubbles, draft, pc, round, caches, misreads, faults, sent, wrongSide, excused>>
-----------------------------------------------------------------------------
Listed == {Target[c] : c \in Chats} \ {NoTarget}

\* process_current_chat, up to the target; a name that cannot be read ends the round, and a
\* misread one may stand for another target.
Look ==
  /\ pc = "idle" /\ pc' = "looked" /\ target' \in Listed
  /\ \/ target' = Target[shown] /\ UNCHANGED <<misreads, meddled>>
     \/ target' # Target[shown] /\ Misread /\ meddled' = TRUE
  /\ UNCHANGED <<window, msg, reply, caches, faults, switches, sent, wrongSide, excused>>

RoundEnds == pc' = "idle" /\ target' = NoTarget /\ msg' = NoMessage /\ reply' = "answer" /\ meddled' = FALSE

\* The latest bubble, or an earlier one if the OCR finds no text in those below it; its
\* text may be garbled, its side mistaken for the other, and so may the sender's name that
\* a group shows above it.
Read ==
  /\ pc = "looked" /\ pc' = "read"
  /\ \E i \in Of(shown), pos \in Positions, wrong, named \in BOOLEAN :
     \E text \in {bubbles[i].text, Garbled} :
       /\ msg' = [id |-> i, text |-> text, self |-> ((bubbles[i].from = "bridge") # wrong),
                  named |-> named, pos |-> pos]
       /\ ~named => target \in Groups /\ ~msg'.self
       /\ misreads' = misreads + Cardinality({d \in {"missed", "side", "text", "name"} :
            \/ d = "missed" /\ \E j \in Of(shown) : j > i
            \/ d = "side" /\ wrong
            \/ d = "text" /\ text # bubbles[i].text
            \/ d = "name" /\ ~named})
       /\ misreads' <= MaxMisreads
       /\ wrongSide' = IF wrong THEN wrongSide \cup {i} ELSE wrongSide
       /\ excused' = IF text # bubbles[i].text \/ ~(named \/ wrong) \/ meddled
                     THEN excused \cup {i} ELSE excused
  /\ UNCHANGED <<window, target, reply, caches, faults, switches, sent, meddled>>

\* The bubble is known, or needs no answer: the order of the checks.
Recalls == Has(handled, RequestFingerprint)

\* FAULT: only the side of the bubble tells the bridge's own messages.
EchoBySide == msg.self

Echo == Has(outgoing, <<target, msg.text>>) \/ msg.self
Untriggered == target \in Groups /\ msg.text \notin Mentions

NothingToRead ==
  /\ pc = "looked" /\ Of(shown) = {} /\ RoundEnds
  /\ UNCHANGED <<window, caches, limits, sent, wrongSide, excused>>

Skip ==
  /\ pc = "read" /\ RoundEnds
  /\ \/ Has(seen, Fingerprint) /\ UNCHANGED seen
     \/ /\ ~Has(seen, Fingerprint)
        /\ Recalls \/ Echo \/ Untriggered
        /\ seen' = Added(seen, Fingerprint)
  /\ UNCHANGED <<window, handled, outgoing, limits, sent, wrongSide, excused>>

NeedsAnswer == ~Has(seen, Fingerprint) /\ ~Recalls /\ ~Echo /\ ~Untriggered

\* A file is sent or said to be missing; anything else goes to the Spring service.
Answers == IF msg.text \in Requests THEN {"file", "missing"} ELSE {"answer"}

\* The text goes into the cache before it is sent; a file's name does not.
Answer ==
  /\ pc = "read" /\ NeedsAnswer /\ pc' = "ready"
  /\ reply' \in Answers
  /\ IF reply' = "file" THEN UNCHANGED <<outgoing, excused>>
     ELSE /\ outgoing' = Added(outgoing, <<target, reply'>>)
          /\ excused' = excused \cup EchoesOf(Evicted(outgoing, <<target, reply'>>))
  /\ UNCHANGED <<window, target, msg, seen, handled, limits, sent, meddled, wrongSide>>

\* The service fails or times out: nothing is remembered, the next round tries again.
AnswerFails ==
  /\ pc = "read" /\ NeedsAnswer /\ Fault /\ RoundEnds
  /\ UNCHANGED <<window, caches, misreads, switches, sent, wrongSide, excused>>

\* FAULT: the title is not read again before the text is pasted.
TitleUnchecked == TRUE

\* send_text and send_file check the title: either name may contain the other.  It may be
\* misread, and the window or the clipboard may fail: the reply is then in the cache, unsent.
TitleMatches == <<shown, target>> \in Alike

Check ==
  /\ pc = "ready"
  /\ \/ TitleMatches /\ pc' = "checked" /\ UNCHANGED <<round, meddled, misreads, faults>>
     \/ ~TitleMatches /\ Misread /\ pc' = "checked" /\ meddled' = TRUE /\ UNCHANGED <<round, faults>>
     \/ ~TitleMatches /\ RoundEnds /\ UNCHANGED <<misreads, faults>>
     \/ TitleMatches /\ Fault /\ RoundEnds /\ UNCHANGED misreads
  /\ UNCHANGED <<window, caches, switches, sent, wrongSide, excused>>

\* They click into the input box of the chat that is shown by then and paste ...
Paste ==
  /\ pc = "checked"
  /\ draft' = [draft EXCEPT ![shown] = Append(@, [req |-> msg.id, text |-> reply, meddled |-> meddled])]
  /\ \/ pc' = "pasted" /\ UNCHANGED <<round, meddled, faults, excused>>
     \/ Fault /\ RoundEnds /\ excused' = excused \cup {msg.id}
  /\ UNCHANGED <<shown, bubbles, caches, misreads, switches, sent, wrongSide>>

\* ... and press alt-s, which sends what the shown chat has in its box.
Bubble(parts) ==
  [chat |-> shown, from |-> "bridge", text |-> IF Len(parts) = 1 THEN parts[1].text ELSE Garbled]

Remembered ==
  /\ handled' = Added(handled, RequestFingerprint)
  /\ seen' = Added(seen, Fingerprint)

Press ==
  /\ pc = "pasted" /\ RoundEnds
  /\ Remembered
  /\ excused' = excused \cup RequestsOf(Evicted(handled, RequestFingerprint))
                  \cup (IF draft[shown] # <<>> /\ (meddled \/ Target[shown] # target \/ Len(draft[shown]) > 1)
                        THEN {Len(bubbles) + 1} ELSE {})
  /\ \/ draft[shown] = <<>> /\ UNCHANGED <<bubbles, draft, sent>>
     \/ /\ draft[shown] # <<>>
        /\ bubbles' = Append(bubbles, Bubble(draft[shown]))
        /\ draft' = [draft EXCEPT ![shown] = <<>>]
        /\ sent' = sent \o [i \in DOMAIN draft[shown] |->
             [req |-> draft[shown][i].req, to |-> shown, meddled |-> meddled \/ draft[shown][i].meddled]]
  /\ UNCHANGED <<shown, outgoing, limits, wrongSide>>

\* The bridge is started again: the caches are in memory only.
Restart ==
  /\ Fault /\ RoundEnds /\ seen' = <<>> /\ handled' = <<>> /\ outgoing' = <<>>
  /\ excused' = DOMAIN bubbles
  /\ UNCHANGED <<window, misreads, switches, sent, wrongSide>>
-----------------------------------------------------------------------------
People == (\E c \in Chats, text \in Texts : PeerWrites(c, text)) \/ \E c \in Chats : Switch(c)

Loop ==
  Look \/ Read \/ NothingToRead \/ Skip \/ Answer \/ AnswerFails \/ Check \/ Paste \/ Press

Next == People \/ Loop \/ Restart

Spec == Init /\ [][Next]_vars
=============================================================================
