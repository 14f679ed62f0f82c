------------------------------ MODULE CardCache ------------------------------
(***************************************************************************)
(* The image cards (generate_card and safe_generate_card in                *)
(* app/formatter/image.py): one file per content hash, drawn once and then *)
(* used again unread.  The formatters of X and Telegram call it in a       *)
(* thread, which nothing can cancel.                                       *)
(*                                                                         *)
(* What is drawn is the text of the listing at hand; two listings of one   *)
(* hash share title and link and may differ in pay and description.        *)
(* Pillow is modelled from its use: a save that raises removes the file it *)
(* has created.                                                            *)
(*                                                                         *)
(* SharedPath and KeepPartial are broken variants of the definition that   *)
(* follows each. The specification does not use them; each shows that some *)
(* property would notice the mistake it stands for.                        *)
(***************************************************************************)
EXTENDS FiniteSets

CONSTANTS Job,      \* content hashes
          Text,     \* what a card can show of a job
          NoJob

ASSUME CardAssumption ==
  /\ NoJob \notin Job
  /\ {"absent", "partial"} \cap Text = {}

VARIABLES card,     \* per job: no file, a part of one, or the text of a whole one
          thread    \* the call of the formatter that runs in the thread

cardVars == <<card, thread>>

NoThread == [stage |-> "none", job |-> NoJob, text |-> "absent"]
NoCards == [h \in Job |-> "absent"]
CardInit == card = NoCards /\ thread = NoThread

SharedPath(h) == CHOOSE k \in Job : TRUE
PathOf(h) == h

Rendering == thread.stage # "none"
ThreadDone == thread' = NoThread
ThreadAt(stage) == thread.stage = stage
CardFile == card[PathOf(thread.job)]
SetCard(content) == card' = [card EXCEPT ![PathOf(thread.job)] = content]

Call(h, text) == thread' = [stage |-> "check", job |-> h, text |-> text]

-----------------------------------------------------------------------------
(* os.path.exists: whatever is there is the card.                          *)
ReuseCard == ThreadAt("check") /\ CardFile # "absent" /\ ThreadDone /\ UNCHANGED card

(* render_card in memory, then save creates the file and writes it.        *)
OpenCard ==
  /\ ThreadAt("check") /\ CardFile = "absent"
  /\ SetCard("partial")
  /\ thread' = [thread EXCEPT !.stage = "save"]

CloseCard == ThreadAt("save") /\ SetCard(thread.text) /\ ThreadDone

(* safe_generate_card gives None: drawing raised before there was a file,  *)
(* or the save raised.                                                     *)
RenderFails == ThreadAt("check") /\ CardFile = "absent" /\ ThreadDone /\ UNCHANGED card

KeepPartial == ThreadAt("save") /\ ThreadDone /\ UNCHANGED card
SaveFails == ThreadAt("save") /\ SetCard("absent") /\ ThreadDone

CardMade == ReuseCard \/ CloseCard
NoCard == RenderFails \/ SaveFails

-----------------------------------------------------------------------------
CardTypeOK ==
  /\ card \in [Job -> {"absent", "partial"} \cup Text]
  /\ thread \in [stage: {"none", "check", "save"}, job: Job \cup {NoJob},
                 text: Text \cup {"absent"}]
  /\ Rendering => thread.job \in Job /\ thread.text \in Text

(* Parts of a card that nobody is writing any more.                        *)
Broken == {h \in Job : card[h] = "partial" /\ ~(ThreadAt("save") /\ PathOf(thread.job) = h)}
=============================================================================
