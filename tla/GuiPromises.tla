---------------------------- MODULE GuiPromises ----------------------------
(***************************************************************************)
(* What the loop of wechat-gui-bridge/bridge.py promises, as statements of *)
(* the bubbles in the window, the replies that were sent and the accidents *)
(* that excuse them.  GuiBridge.tla is the machine.                        *)
(***************************************************************************)
CONSTANTS
  Target,    \* resolve_target_name, a function: the target a chat's name is taken for
  Alike      \* chat_title_matches: pairs of a chat and a target, one name containing the other

VARIABLES
  bubbles,   \* every bubble, in the order of its arrival: chat, from and text
  sent,      \* history: the replies sent: request, chat it was sent to, and whether it was meddled
  wrongSide, \* history: bubbles read on the wrong side
  excused    \* history: bubbles whose text, sender or chat was misread or whose entry was evicted,
             \* those sent in a draft with others, to a chat of another target or when meddled,
             \* and requests whose draft an exception left

\* The bridge answers a message of its own only when the reading of its side is wrong and
\* its text is not among those it remembers for the chat: misread, evicted, lost in a restart,
\* a file, several drafts in one, or sent to the chat of another target, which the title
\* check allows when one name contains the other.
NoEcho ==
  \A i \in DOMAIN sent :
    LET b == bubbles[sent[i].req] IN
    b.from = "bridge" =>
      /\ sent[i].req \in wrongSide
      /\ sent[i].req \in excused \/ b.text = "file"

\* A message is answered once, wherever the window shows it, unless it was misread, its
\* entry evicted or an exception came after the paste.
AnsweredOnce ==
  \A i, j \in DOMAIN sent : sent[i].req = sent[j].req /\ i # j => sent[i].req \in excused \cup wrongSide

\* However long the service takes and whatever chat is shown by then, an answer goes to a
\* chat whose name contains that of the message's target or is contained in it, unless a
\* name was misread or the user switched chats after it was read.
RightChat ==
  \A i \in DOMAIN sent :
    <<sent[i].to, Target[bubbles[sent[i].req].chat]>> \in Alike \/ sent[i].meddled
=============================================================================
