--------------------------- MODULE Process_proofs ---------------------------
(***************************************************************************)
(* Theorems about Process, for any jobs, texts and requests, a pool of any *)
(* size, and any number of kills.                                          *)
(***************************************************************************)
EXTENDS Process, FiniteSetTheorems, TLAPS

Working == pc \in {"format", "publish", "commit"}

-----------------------------------------------------------------------------
(* The inductive invariant.                                                *)

(* A job that is worked on is one.                                         *)
WorkInv == Working => cur.job \in Job /\ cur.text \in Text

(* Who may hold a connection, and where: NoHoldAndWait seen from the side  *)
(* of the holder.                                                          *)
HeldInv ==
  /\ Has("work") => pc \notin {"idle", "ingest", "record"}
  /\ Has("fresh") => At("record")
  /\ \A q \in Request : req[q] = "idle" => ~Has(q)

(* The thread draws for the run that waits for it, or for a cancelled one, *)
(* whose job then is lost.                                                 *)
ThreadInv ==
  /\ At("format") => Rendering /\ thread.job = cur.job /\ thread.text = cur.text
  /\ Rendering => At("format") \/ (At("idle") /\ phase = "exiting" /\ thread.job \in lost)
  /\ phase = "down" => At("idle")

(* One listing per job is left, and none of a job stored or at hand.       *)
TodoInv ==
  /\ \A a, b \in todo : a[1] = b[1] => a = b
  /\ \A a \in todo : a[1] \notin stored
  /\ Working => cur.job \notin stored /\ \A a \in todo : a[1] # cur.job

(* A whole card of a job that is neither stored nor lost is that of the    *)
(* listing at hand.                                                        *)
DrawnInv ==
  \A h \in Job : card[h] \in Text =>
    h \in lost \cup stored \/ (Working /\ cur.job = h /\ card[h] = cur.text)

ProcessInv ==
  /\ TypeOK /\ WorkInv /\ HeldInv /\ ThreadInv /\ TodoInv /\ DrawnInv
  /\ BrokenCardsNeedAKill /\ CardFitsPost

-----------------------------------------------------------------------------
(* Most steps have no part in the cards and the listings.                  *)
Shared == <<card, thread, todo, cur, stored, lost, kills>>

Quiet == UNCHANGED Shared /\ UNCHANGED <<pc, phase>>

PhaseMoves ==
  /\ UNCHANGED Shared /\ UNCHANGED pc
  /\ \/ phase = "up" /\ phase' = "draining"
     \/ phase = "draining" /\ phase' = "exiting"

RunMoves ==
  /\ UNCHANGED Shared /\ UNCHANGED phase
  /\ ~Working /\ ~Working'
  /\ ~At("idle") \/ SchedulerOn

LEMMA Frame ==
  ASSUME TypeOK, [Next]_vars
  PROVE  \/ Quiet \/ PhaseMoves \/ RunMoves
         \/ Select \/ InsertJob \/ InsertFails \/ Render \/ Publish \/ Commit \/ JobFails
         \/ Cancel \/ Exit \/ Kill \/ Boot
<1> USE DEF Shared, At, Goto, run, Quiet
<1>1. CASE UNCHANGED vars
  BY <1>1 DEF vars
<1>2. ASSUME NEW s \in Session, Checkout(s) PROVE Quiet
  BY <1>2 DEF Checkout
<1>3. ASSUME NEW q \in Request, Ask(q) \/ Answer(q) \/ TurnAway(q) PROVE Quiet
  BY <1>3 DEF Ask, Answer, TurnAway
<1>4. CASE StartRun
  BY <1>4 DEF StartRun, RunMoves, Working
<1>5. CASE RecordStart \/ StartFails
  BY <1>5 DEF RecordStart, StartFails, RunMoves, Working
<1>6. CASE JobsDone \/ Finalise
  BY <1>6 DEF JobsDone, Finalise, RunMoves, Working
<1>7. CASE RunFails \/ RecordFailure
  BY <1>7 DEF RunFails, LeaveSession, RecordFailure, RunMoves, Working
<1>8. CASE FeedsAnswer
  BY <1>8 DEF FeedsAnswer, RunMoves, Working
<1>9. CASE Terminate \/ Dispose
  BY <1>9 DEF Terminate, Dispose, PhaseMoves
<1> QED
  BY <1>1, <1>2, <1>3, <1>4, <1>5, <1>6, <1>7, <1>8, <1>9 DEF Next, RunStep

-----------------------------------------------------------------------------
(* What the thread does to the card files.                                 *)
LEMMA RenderSteps ==
  ASSUME TypeOK, Render
  PROVE  /\ Rendering /\ thread.job \in Job /\ thread.text \in Text
         /\ UNCHANGED <<phase, kills, held, req, feeds, todo, stored, lost>>
         /\ \/ /\ card[thread.job] = "absent" /\ ThreadAt("check")
               /\ card' = [card EXCEPT ![thread.job] = "partial"]
               /\ thread' = [thread EXCEPT !.stage = "save"]
               /\ UNCHANGED <<pc, cur>>
            \/ /\ thread' = NoThread
               /\ \/ ThreadAt("check") /\ card[thread.job] # "absent" /\ UNCHANGED card
                  \/ ThreadAt("save") /\ card' = [card EXCEPT ![thread.job] = thread.text]
               /\ Deliver(TRUE)
            \/ /\ thread' = NoThread
               /\ \/ ThreadAt("check") /\ card[thread.job] = "absent" /\ UNCHANGED card
                  \/ ThreadAt("save") /\ card' = [card EXCEPT ![thread.job] = "absent"]
               /\ Deliver(FALSE)
<1>1. /\ Rendering /\ thread.job \in Job /\ thread.text \in Text
      /\ UNCHANGED <<phase, kills, held, req, feeds, todo, stored, lost>>
  BY DEF Render, OpenCard, CardMade, NoCard, ReuseCard, CloseCard, RenderFails, SaveFails,
         TypeOK, CardTypeOK, Rendering, ThreadAt
<1>2. CASE OpenCard /\ UNCHANGED <<pc, cur>>
  BY <1>1, <1>2 DEF OpenCard, CardFile, PathOf, SetCard
<1>3. CASE CardMade /\ Deliver(TRUE)
  BY <1>1, <1>3 DEF CardMade, ReuseCard, CloseCard, CardFile, PathOf, SetCard, ThreadDone
<1>4. CASE NoCard /\ Deliver(FALSE)
  BY <1>1, <1>4 DEF NoCard, RenderFails, SaveFails, CardFile, PathOf, SetCard, ThreadDone
<1> QED
  BY <1>1, <1>2, <1>3, <1>4 DEF Render

LEMMA NoThreadType ==
  /\ NoThread.stage = "none" /\ NoThread.job = NoJob /\ NoThread.text = "absent"
  /\ NoThread \in [stage: {"none", "check", "save"}, job: Job \cup {NoJob},
                   text: Text \cup {"absent"}]
BY DEF NoThread

LEMMA NoListingType ==
  NoListing \in [job: Job \cup {NoJob}, text: Text \cup {"absent"}, plat: Card, image: BOOLEAN]
BY DEF NoListing, Card

LEMMA CallType ==
  ASSUME NEW h \in Job, NEW text \in Text, Call(h, text)
  PROVE  /\ thread' \in [stage: {"none", "check", "save"}, job: Job \cup {NoJob},
                         text: Text \cup {"absent"}]
         /\ thread'.stage = "check" /\ thread'.job = h /\ thread'.text = text
BY DEF Call

-----------------------------------------------------------------------------
(* Type correctness.                                                       *)
ThreadType ==
  /\ thread \in [stage: {"none", "check", "save"}, job: Job \cup {NoJob},
                 text: Text \cup {"absent"}]
  /\ Rendering => thread.job \in Job /\ thread.text \in Text
CardType == card \in [Job -> {"absent", "partial"} \cup Text]
CurType ==
  cur \in [job: Job \cup {NoJob}, text: Text \cup {"absent"}, plat: Card, image: BOOLEAN]

LEMMA ThreadCardType == CardTypeOK <=> CardType /\ ThreadType
BY DEF CardTypeOK, CardType, ThreadType

LEMMA HeldType ==
  ASSUME TypeOK, [Next]_vars
  PROVE  held' \subseteq Session
<1> USE DEF TypeOK, Return
<1>1. CASE UNCHANGED vars
  BY <1>1 DEF vars
<1>2. CASE \E s \in Session : Checkout(s)
  BY <1>2 DEF Checkout
<1>3. CASE \E q \in Request : Ask(q) \/ Answer(q) \/ TurnAway(q)
  BY <1>3 DEF Ask, Answer, TurnAway
<1>4. CASE RunStep
  BY <1>4 DEF RunStep, RecordStart, HandBack, StartFails, Select, InsertJob, InsertFails,
     RollBack, Publish, Commit, JobFails, JobsDone, Finalise, RunFails, LeaveSession, RecordFailure
<1>5. CASE StartRun \/ FeedsAnswer \/ Render
  BY <1>5 DEF StartRun, FeedsAnswer, Render
<1>6. CASE Terminate \/ Dispose \/ Cancel \/ Exit \/ Kill \/ Boot
  BY <1>6 DEF Terminate, Dispose, Cancel, Exit, Kill, Boot
<1> QED
  BY <1>1, <1>2, <1>3, <1>4, <1>5, <1>6 DEF Next

LEMMA LabelType ==
  ASSUME TypeOK, [Next]_vars
  PROVE  /\ pc' \in Label /\ req' \in [Request -> {"idle", "query"}]
         /\ feeds' \in {"parsing", "answered"} /\ kills' \in Nat
         /\ phase' \in {"up", "draining", "exiting", "down"}
<1> USE DEF TypeOK, Label, Goto, run
<1>1. CASE UNCHANGED vars
  BY <1>1 DEF vars
<1>2. CASE \E s \in Session : Checkout(s)
  BY <1>2 DEF Checkout
<1>3. CASE \E q \in Request : Ask(q) \/ Answer(q) \/ TurnAway(q)
  BY <1>3 DEF Ask, Answer, TurnAway
<1>4. CASE RunStep
  BY <1>4 DEF RunStep, RecordStart, StartFails, Select, InsertJob, InsertFails,
     RollBack, Publish, Commit, JobFails, JobsDone, Finalise, RunFails, LeaveSession, RecordFailure
<1>5. CASE StartRun \/ FeedsAnswer \/ Render
  BY <1>5 DEF StartRun, FeedsAnswer, Render, Deliver
<1>6. CASE Terminate \/ Dispose \/ Cancel \/ Exit \/ Kill \/ Boot
  BY <1>6 DEF Terminate, Dispose, Cancel, Exit, Kill, Boot
<1> QED
  BY <1>1, <1>2, <1>3, <1>4, <1>5, <1>6 DEF Next

LEMMA LoseJobType == TypeOK /\ LoseJob => lost' \subseteq Job
BY DEF TypeOK, LoseJob

(* The rest of the types, where the listings and the cards change.         *)
LEMMA ListingType ==
  ASSUME TypeOK, WorkInv, [Next]_vars
  PROVE  /\ CardType' /\ ThreadType' /\ CurType'
         /\ todo' \subseteq Job \X Text /\ stored' \subseteq Job /\ lost' \subseteq Job
<1>0. /\ CardType /\ ThreadType /\ CurType
      /\ todo \subseteq Job \X Text /\ stored \subseteq Job /\ lost \subseteq Job
  BY ThreadCardType DEF TypeOK, CurType
<1>1. CASE Quiet \/ PhaseMoves \/ RunMoves
  BY <1>0, <1>1 DEF Quiet, PhaseMoves, RunMoves, Shared, CardType, ThreadType, CurType, Rendering
<1>2. CASE Select
  <2>1. UNCHANGED <<card, thread, cur, stored, lost>>
    BY <1>2 DEF Select
  <2>2. todo' \subseteq Job \X Text
    BY <1>0, <1>2 DEF Select
  <2> QED
    BY <1>0, <2>1, <2>2 DEF CardType, ThreadType, CurType, Rendering
<1>3. CASE InsertJob
  <2>1. PICK listing \in todo :
          /\ todo' = todo \ {listing}
          /\ cur' = [NoListing EXCEPT !.job = listing[1], !.text = listing[2]]
          /\ Call(listing[1], listing[2])
    BY <1>3 DEF InsertJob
  <2>2. listing[1] \in Job /\ listing[2] \in Text
    BY <1>0
  <2>3. ThreadType'
    BY <2>1, <2>2, CallType DEF ThreadType, Rendering
  <2>4. CurType'
    BY <2>1, <2>2, NoListingType DEF CurType
  <2>5. UNCHANGED <<card, stored, lost>>
    BY <1>3 DEF InsertJob
  <2> QED
    BY <1>0, <2>1, <2>3, <2>4, <2>5 DEF CardType
<1>4. CASE InsertFails
  BY <1>0, <1>4 DEF InsertFails, RollBack, CardType, ThreadType, CurType, Rendering
<1>5. CASE Render
  <2>1. UNCHANGED <<todo, stored, lost>> /\ thread.job \in Job /\ thread.text \in Text
    BY <1>5, RenderSteps
  <2>2. card' \in {card} \cup {[card EXCEPT ![thread.job] = c] : c \in {"absent", "partial", thread.text}}
    BY <1>5, RenderSteps
  <2>3. CardType'
    BY <1>0, <2>1, <2>2 DEF CardType
  <2>4. thread' = NoThread \/ thread' = [thread EXCEPT !.stage = "save"]
    BY <1>5, RenderSteps
  <2>5. ThreadType'
    BY <1>0, <2>1, <2>4, NoThreadType DEF ThreadType, Rendering
  <2>6. cur' = cur \/ cur' = [cur EXCEPT !.image = TRUE] \/ cur' = [cur EXCEPT !.image = FALSE]
    BY <1>5, RenderSteps DEF Deliver
  <2>7. CurType'
    BY <1>0, <2>6 DEF CurType
  <2> QED
    BY <1>0, <2>1, <2>3, <2>5, <2>7
<1>6. CASE Publish
  <2>1. UNCHANGED <<card, todo, stored, lost>>
    BY <1>6 DEF Publish
  <2>2. CASE cur.plat + 1 \in Card
    <3>1. cur' = [cur EXCEPT !.plat = @ + 1, !.image = FALSE] /\ Call(cur.job, cur.text)
      BY <1>6, <2>2 DEF Publish
    <3>2. cur.job \in Job /\ cur.text \in Text
      BY <1>6 DEF Publish, WorkInv, Working, At
    <3>3. CurType'
      BY <1>0, <2>2, <3>1 DEF CurType
    <3> QED
      BY <1>0, <2>1, <3>1, <3>2, <3>3, CallType DEF CardType, ThreadType, Rendering
  <2>3. CASE cur.plat + 1 \notin Card
    BY <1>0, <1>6, <2>1, <2>3 DEF Publish, CardType, ThreadType, CurType, Rendering
  <2> QED
    BY <2>2, <2>3
<1>7. CASE Commit
  <2>1. cur.job \in Job
    BY <1>7 DEF Commit, WorkInv, Working, At
  <2>2. stored' = stored \cup {cur.job} /\ cur' = NoListing /\ UNCHANGED <<card, thread, todo, lost>>
    BY <1>7 DEF Commit
  <2> QED
    BY <1>0, <2>1, <2>2, NoListingType DEF CardType, ThreadType, CurType, Rendering
<1>8. CASE JobFails
  <2>1. UNCHANGED <<card, thread, stored>> /\ cur' = NoListing /\ LoseJob /\ RollBack(todo)
    BY <1>8 DEF JobFails
  <2> QED
    BY <1>0, <2>1, LoseJobType, NoListingType DEF RollBack, CardType, ThreadType, CurType, Rendering
<1>9. CASE Cancel
  <2>1. UNCHANGED <<card, thread, stored>> /\ cur' = NoListing /\ LoseJob /\ todo' = {}
    BY <1>9 DEF Cancel
  <2> QED
    BY <1>0, <2>1, LoseJobType, NoListingType DEF CardType, ThreadType, CurType, Rendering
<1>10. CASE Exit
  <2>1. UNCHANGED <<card, run, stored, lost>> /\ thread' = NoThread
    BY <1>10 DEF Exit
  <2> QED
    BY <1>0, <2>1, NoThreadType DEF run, CardType, ThreadType, CurType, Rendering
<1>11. CASE Kill
  <2>1. UNCHANGED <<card, stored>> /\ thread' = NoThread /\ cur' = NoListing /\ LoseJob /\ todo' = {}
    BY <1>11 DEF Kill
  <2> QED
    BY <1>0, <2>1, LoseJobType, NoListingType, NoThreadType DEF CardType, ThreadType, CurType, Rendering
<1>12. CASE Boot
  <2>1. UNCHANGED <<thread, run, stored, lost>> /\ card' \in {card, NoCards}
    BY <1>12 DEF Boot
  <2>2. CardType'
    BY <1>0, <2>1 DEF CardType, NoCards
  <2> QED
    BY <1>0, <2>1, <2>2 DEF run, ThreadType, CurType, Rendering
<1> QED
  BY <1>1, <1>2, <1>3, <1>4, <1>5, <1>6, <1>7, <1>8, <1>9, <1>10, <1>11, <1>12, Frame

LEMMA TypeStep ==
  ASSUME TypeOK, WorkInv, [Next]_vars
  PROVE  TypeOK'
<1>1. CardTypeOK'
  BY ListingType DEF CardTypeOK, CardType, ThreadType, Rendering
<1> QED
  BY <1>1, HeldType, LabelType, ListingType DEF TypeOK, CurType, Label

-----------------------------------------------------------------------------
(* Connections.                                                            *)
LEMMA SessionsDiffer ==
  "work" # "fresh" /\ \A q \in Request : q # "work" /\ q # "fresh"
BY ProcessAssumption

LEMMA HeldStep ==
  ASSUME TypeOK, HeldInv, [Next]_vars
  PROVE  HeldInv'
<1> USE SessionsDiffer DEF HeldInv, Has, At, Goto, Return
<1>1. CASE UNCHANGED vars
  BY <1>1 DEF vars, run
<1>2. ASSUME NEW s \in Session, Checkout(s) PROVE HeldInv'
  <2>1. /\ held' = held \cup {s} /\ UNCHANGED <<req, pc, todo>>
        /\ s = "work" => pc \in {"begin", "select", "finalise", "job"}
        /\ s = "fresh" => pc = "record"
        /\ s \in Request => req[s] = "query"
    BY <1>2 DEF Checkout, Wants, run
  <2> QED
    BY <2>1
<1>3. ASSUME NEW q \in Request, Ask(q) \/ Answer(q) \/ TurnAway(q) PROVE HeldInv'
  <2>1. CASE Ask(q)
    BY <1>3, <2>1 DEF Ask, run, TypeOK
  <2>2. CASE Answer(q)
    BY <1>3, <2>2 DEF Answer, run, TypeOK
  <2>3. CASE TurnAway(q)
    BY <1>3, <2>3 DEF TurnAway, Wants, run, TypeOK
  <2> QED
    BY <1>3, <2>1, <2>2, <2>3
<1>4. CASE StartRun \/ JobsDone
  BY <1>4 DEF StartRun, JobsDone
<1>5. CASE RecordStart \/ StartFails
  BY <1>5 DEF RecordStart, HandBack, StartFails
<1>6. CASE Select \/ InsertJob
  BY <1>6 DEF Select, InsertJob
<1>7. CASE InsertFails \/ JobFails
  <2>1. RollBack(todo) \/ \E l \in todo : RollBack(todo \ {l})
    BY <1>7 DEF InsertFails, JobFails
  <2>2. held' = held \ {"work"} /\ pc' \in {"job", "record"}
    BY <2>1 DEF RollBack
  <2>3. req' = req /\ pc \in {"job", "publish", "commit"}
    BY <1>7 DEF InsertFails, JobFails
  <2> QED
    BY <2>2, <2>3
<1>8. CASE Publish \/ Commit
  BY <1>8 DEF Publish, Commit
<1>9. CASE Finalise \/ RunFails \/ RecordFailure
  BY <1>9 DEF Finalise, RunFails, LeaveSession, RecordFailure
<1>10. CASE FeedsAnswer
  BY <1>10 DEF FeedsAnswer
<1>11. CASE Render
  BY <1>11, RenderSteps DEF Deliver
<1>12. CASE Terminate \/ Dispose \/ Exit \/ Boot
  BY <1>12 DEF Terminate, Dispose, Exit, Boot, run
<1>13. CASE Cancel \/ Kill
  BY <1>13 DEF Cancel, Kill
<1> QED
  BY <1>1, <1>2, <1>3, <1>4, <1>5, <1>6, <1>7, <1>8, <1>9, <1>10, <1>11, <1>12, <1>13
     DEF Next, RunStep

LEMMA HeldShows == HeldInv => NoHoldAndWait
BY SessionsDiffer DEF HeldInv, NoHoldAndWait, Wants, Has, At

-----------------------------------------------------------------------------
(* The thread and the listing at hand.                                     *)
LEMMA WorkStep ==
  ASSUME TypeOK, WorkInv, [Next]_vars
  PROVE  WorkInv'
<1> USE DEF WorkInv, Working, At, Goto
<1>1. CASE Quiet \/ PhaseMoves \/ RunMoves
  BY <1>1 DEF Quiet, PhaseMoves, RunMoves, Shared
<1>2. CASE Select \/ Commit
  BY <1>2 DEF Select, Commit
<1>3. CASE InsertJob
  <2>1. PICK listing \in todo :
          cur' = [NoListing EXCEPT !.job = listing[1], !.text = listing[2]]
    BY <1>3 DEF InsertJob
  <2> QED
    BY <2>1 DEF NoListing, TypeOK
<1>4. CASE InsertFails \/ JobFails
  BY <1>4 DEF InsertFails, JobFails, RollBack
<1>5. CASE Render
  BY <1>5, RenderSteps DEF Deliver, TypeOK
<1>6. CASE Publish
  <2>1. At("publish") /\ cur'.job = cur.job /\ cur'.text = cur.text
    BY <1>6 DEF Publish, TypeOK
  <2> QED
    BY <2>1
<1>7. CASE Cancel \/ Kill
  BY <1>7 DEF Cancel, Kill
<1>8. CASE Exit \/ Boot
  BY <1>8 DEF Exit, Boot, run
<1> QED
  BY <1>1, <1>2, <1>3, <1>4, <1>5, <1>6, <1>7, <1>8, Frame

LEMMA ThreadStep ==
  ASSUME TypeOK, WorkInv, ThreadInv, [Next]_vars
  PROVE  ThreadInv'
<1> USE DEF ThreadInv, Rendering, At, Goto
<1>1. CASE Quiet
  BY <1>1 DEF Quiet, Shared
<1>2. CASE PhaseMoves
  BY <1>2 DEF PhaseMoves, Shared
<1>3. CASE RunMoves
  BY <1>3 DEF RunMoves, Shared, Working, SchedulerOn
<1>4. CASE Select \/ Commit
  BY <1>4 DEF Select, Commit
<1>5. CASE InsertJob
  <2>1. PICK listing \in todo :
          /\ cur' = [NoListing EXCEPT !.job = listing[1], !.text = listing[2]]
          /\ Call(listing[1], listing[2])
    BY <1>5 DEF InsertJob
  <2>2. cur'.job = listing[1] /\ cur'.text = listing[2]
    BY <2>1 DEF NoListing
  <2> QED
    BY <1>5, <2>1, <2>2 DEF InsertJob, Call
<1>6. CASE InsertFails \/ JobFails
  BY <1>6 DEF InsertFails, JobFails, RollBack
<1>7. CASE Render
  <2>1. CASE thread' = NoThread
    BY <1>7, <2>1, RenderSteps, NoThreadType DEF Deliver
  <2>2. CASE thread' # NoThread
    BY <1>7, <2>2, RenderSteps DEF TypeOK, CardTypeOK
  <2> QED
    BY <2>1, <2>2
<1>8. CASE Publish
  <2>1. CASE cur.plat + 1 \in Card
    <3>1. cur' = [cur EXCEPT !.plat = @ + 1, !.image = FALSE] /\ Call(cur.job, cur.text)
      BY <1>8, <2>1 DEF Publish
    <3>2. cur'.job = cur.job /\ cur'.text = cur.text
      BY <3>1 DEF TypeOK
    <3> QED
      BY <1>8, <2>1, <3>1, <3>2 DEF Publish, Call
  <2>2. CASE cur.plat + 1 \notin Card
    BY <1>8, <2>2 DEF Publish
  <2> QED
    BY <2>1, <2>2
<1>9. CASE Cancel
  <2>1. Rendering => thread.job \in Job
    BY DEF TypeOK, CardTypeOK
  <2> QED
    BY <1>9, <2>1 DEF Cancel, LoseJob, TypeOK
<1>10. CASE Kill
  BY <1>10, NoThreadType DEF Kill
<1>11. CASE Exit
  BY <1>11, NoThreadType DEF Exit, run
<1>12. CASE Boot
  BY <1>12 DEF Boot, run
<1> QED
  BY <1>1, <1>2, <1>3, <1>4, <1>5, <1>6, <1>7, <1>8, <1>9, <1>10, <1>11, <1>12, Frame

LEMMA TodoStep ==
  ASSUME TypeOK, WorkInv, TodoInv, [Next]_vars
  PROVE  TodoInv'
<1> USE DEF TodoInv, Working, At, Goto
<1>1. CASE Quiet \/ PhaseMoves \/ RunMoves
  BY <1>1 DEF Quiet, PhaseMoves, RunMoves, Shared
<1>2. CASE Select
  <2>1. stored' = stored /\ pc' = "job"
    BY <1>2 DEF Select
  <2>2. CASE todo' = {}
    BY <2>1, <2>2
  <2>3. CASE todo' # {}
    <3>1. PICK new \in SUBSET (Job \ stored) :
            \E text \in [new -> Text] : todo' = {<<h, text[h]>> : h \in new}
      BY <1>2, <2>3 DEF Select
    <3>2. PICK text \in [new -> Text] : todo' = {<<h, text[h]>> : h \in new}
      BY <3>1
    <3> QED
      BY <2>1, <3>2
  <2> QED
    BY <2>2, <2>3
<1>3. CASE InsertJob
  <2>1. PICK listing \in todo :
          /\ todo' = todo \ {listing}
          /\ cur' = [NoListing EXCEPT !.job = listing[1], !.text = listing[2]]
    BY <1>3 DEF InsertJob
  <2>2. cur'.job = listing[1]
    BY <2>1 DEF NoListing
  <2>3. stored' = stored
    BY <1>3 DEF InsertJob
  <2> QED
    BY <2>1, <2>2, <2>3
<1>4. CASE InsertFails \/ JobFails
  <2>1. stored' = stored /\ pc' \in {"job", "record"} /\ todo' \subseteq todo
    BY <1>4 DEF InsertFails, JobFails, RollBack
  <2> QED
    BY <2>1
<1>5. CASE Render
  <2>1. UNCHANGED <<todo, stored>> /\ (Working' => Working /\ cur'.job = cur.job)
    BY <1>5, RenderSteps DEF Deliver, TypeOK
  <2> QED
    BY <2>1
<1>6. CASE Publish
  <2>1. UNCHANGED <<todo, stored>> /\ cur'.job = cur.job
    BY <1>6 DEF Publish, TypeOK
  <2> QED
    BY <1>6, <2>1 DEF Publish
<1>7. CASE Commit
  BY <1>7 DEF Commit
<1>8. CASE Cancel \/ Kill
  BY <1>8 DEF Cancel, Kill
<1>9. CASE Exit \/ Boot
  BY <1>9 DEF Exit, Boot, run
<1> QED
  BY <1>1, <1>2, <1>3, <1>4, <1>5, <1>6, <1>7, <1>8, <1>9, Frame

-----------------------------------------------------------------------------
(* The card files.                                                         *)
LEMMA LoseJobKeeps ==
  ASSUME LoseJob
  PROVE  lost \subseteq lost' /\ (cur.job \in Job => cur.job \in lost')
BY DEF LoseJob

LEMMA DrawnStep ==
  ASSUME TypeOK, WorkInv, ThreadInv, DrawnInv, [Next]_vars
  PROVE  DrawnInv'
<1> USE CardAssumption DEF DrawnInv, Working, At, Goto
<1>1. CASE Quiet \/ PhaseMoves \/ RunMoves
  BY <1>1 DEF Quiet, PhaseMoves, RunMoves, Shared
<1>2. CASE Select \/ InsertJob \/ InsertFails
  BY <1>2 DEF Select, InsertJob, InsertFails
<1>3. CASE Render
  <2>1. /\ UNCHANGED <<phase, stored, lost>> /\ Rendering
        /\ cur'.job = cur.job /\ cur'.text = cur.text
        /\ pc = "format" \/ pc' = pc
        /\ Working => pc' \in {"format", "publish", "commit"}
    BY <1>3, RenderSteps DEF Deliver, TypeOK
  <2>2. PICK c \in {"absent", "partial", thread.text} :
          card' = card \/ card' = [card EXCEPT ![thread.job] = c]
    BY <1>3, RenderSteps
  <2>3. thread.job \in Job /\ card \in [Job -> {"absent", "partial"} \cup Text]
    BY <1>3, RenderSteps DEF TypeOK, CardTypeOK
  <2>4. thread.job \in lost \/ (Working /\ thread.job = cur.job /\ thread.text = cur.text)
    BY <2>1 DEF ThreadInv
  <2>5. ASSUME NEW h \in Job, card'[h] \in Text
        PROVE  h \in lost \cup stored \/ (Working /\ cur.job = h /\ card'[h] = cur.text)
    BY <2>2, <2>3, <2>4, <2>5
  <2> QED
    BY <2>1, <2>5
<1>4. CASE Publish
  <2>1. /\ UNCHANGED <<card, stored, lost>> /\ cur'.job = cur.job /\ cur'.text = cur.text
        /\ pc' \in {"format", "commit"}
    BY <1>4 DEF Publish, TypeOK
  <2> QED
    BY <2>1
<1>5. CASE Commit
  BY <1>5 DEF Commit
<1>6. CASE JobFails
  BY <1>6, LoseJobKeeps DEF JobFails, WorkInv
<1>7. CASE Cancel
  BY <1>7, LoseJobKeeps DEF Cancel, WorkInv
<1>8. CASE Kill
  BY <1>8, LoseJobKeeps DEF Kill, WorkInv
<1>9. CASE Exit
  BY <1>9 DEF Exit, run
<1>10. CASE Boot
  BY <1>10 DEF Boot, run, NoCards
<1> QED
  BY <1>1, <1>2, <1>3, <1>4, <1>5, <1>6, <1>7, <1>8, <1>9, <1>10, Frame

(* Nothing but a kill leaves a part of a card that nobody completes.       *)
LEMMA BrokenOnlyByKill ==
  ASSUME TypeOK, ThreadInv, [Next]_vars, ~Kill
  PROVE  Broken' \subseteq Broken /\ kills' = kills
<1> USE CardAssumption DEF Broken, PathOf, ThreadAt
<1>1. CASE Quiet \/ PhaseMoves \/ RunMoves
  BY <1>1 DEF Quiet, PhaseMoves, RunMoves, Shared
<1>2. CASE Select \/ InsertFails \/ Commit \/ JobFails \/ Cancel
  BY <1>2 DEF Select, InsertFails, Commit, JobFails, Cancel
<1>3. CASE InsertJob
  <2>1. UNCHANGED <<card, kills>> /\ ~Rendering
    BY <1>3 DEF InsertJob, ThreadInv, At
  <2> QED
    BY <2>1 DEF Rendering
<1>4. CASE Publish
  <2>1. UNCHANGED <<card, kills>> /\ ~Rendering
    BY <1>4 DEF Publish, ThreadInv, At
  <2> QED
    BY <2>1 DEF Rendering
<1>5. CASE Render
  <2>1. kills' = kills /\ thread.job \in Job /\ thread.text \in Text /\ thread.text # "partial"
    BY <1>5, RenderSteps
  <2>2. card \in [Job -> {"absent", "partial"} \cup Text]
    BY DEF TypeOK, CardTypeOK
  <2>3. CASE thread' = NoThread
    BY <1>5, <2>1, <2>2, <2>3, RenderSteps, NoThreadType
  <2>4. CASE thread' # NoThread
    <3>1. /\ card' = [card EXCEPT ![thread.job] = "partial"] /\ thread.stage = "check"
          /\ thread'.stage = "save" /\ thread'.job = thread.job
      BY <1>5, <2>4, RenderSteps DEF TypeOK, CardTypeOK
    <3> QED
      BY <2>1, <2>2, <3>1
  <2> QED
    BY <2>3, <2>4
<1>6. CASE Exit
  BY <1>6 DEF Exit, ThreadsOver, Rendering
<1>7. CASE Boot
  <2>1. ~Rendering
    BY <1>7 DEF Boot, ThreadInv, At
  <2> QED
    BY <1>7, <2>1 DEF Boot, Rendering, NoCards
<1> QED
  BY <1>1, <1>2, <1>3, <1>4, <1>5, <1>6, <1>7, Frame

LEMMA BrokenFinite == IsFiniteSet(Broken) /\ Cardinality(Broken) \in Nat
<1>1. Broken \subseteq Job
  BY DEF Broken
<1> QED
  BY <1>1, ProcessAssumption, FS_Subset, FS_CardinalityType

LEMMA BrokenStep ==
  ASSUME TypeOK, ThreadInv, BrokenCardsNeedAKill, [Next]_vars
  PROVE  BrokenCardsNeedAKill'
<1> USE DEF BrokenCardsNeedAKill
<1>0. kills \in Nat
  BY DEF TypeOK
<1>1. CASE ~Kill
  <2>1. Broken' \subseteq Broken /\ kills' = kills
    BY <1>1, BrokenOnlyByKill
  <2>2. Cardinality(Broken') <= Cardinality(Broken) /\ Cardinality(Broken') \in Nat
    BY <2>1, BrokenFinite, FS_Subset, FS_CardinalityType
  <2> QED
    BY <1>0, <2>1, <2>2, BrokenFinite
<1>2. CASE Kill
  <2>1. card' = card /\ kills' = kills + 1
    BY <1>2 DEF Kill
  <2>2. Broken' \subseteq Broken \cup {thread.job}
    BY <2>1 DEF Broken, PathOf
  <2>3. /\ IsFiniteSet(Broken \cup {thread.job})
        /\ Cardinality(Broken \cup {thread.job}) <= Cardinality(Broken) + 1
    BY BrokenFinite, FS_AddElement
  <2>4. /\ Cardinality(Broken') <= Cardinality(Broken \cup {thread.job})
        /\ Cardinality(Broken') \in Nat /\ Cardinality(Broken \cup {thread.job}) \in Nat
    BY <2>2, <2>3, FS_Subset, FS_CardinalityType
  <2> QED
    BY <1>0, <2>1, <2>3, <2>4, BrokenFinite
<1> QED
  BY <1>1, <1>2

(* A broken card shows that there was a kill.                              *)
LEMMA BrokenMeansKilled ==
  ASSUME TypeOK, BrokenCardsNeedAKill, NEW h \in Broken
  PROVE  kills > 0
<1>1. Cardinality(Broken) # 0
  BY BrokenFinite, FS_EmptySet
<1> QED
  BY <1>1, BrokenFinite DEF BrokenCardsNeedAKill, TypeOK

LEMMA CardFitsStep ==
  ASSUME ProcessInv, [Next]_vars
  PROVE  CardFitsPost'
<1> USE CardAssumption DEF CardFitsPost, At, Goto
<1>0. TypeOK /\ WorkInv /\ ThreadInv /\ TodoInv /\ DrawnInv /\ BrokenCardsNeedAKill /\ CardFitsPost
  BY DEF ProcessInv
<1>1. CASE Quiet \/ PhaseMoves \/ RunMoves
  BY <1>0, <1>1 DEF Quiet, PhaseMoves, RunMoves, Shared, Working
<1>2. CASE Select \/ InsertJob \/ InsertFails \/ Commit \/ JobFails \/ Cancel \/ Kill
  BY <1>2 DEF Select, InsertJob, InsertFails, RollBack, Commit, JobFails, Cancel, Kill
<1>3. CASE Publish
  BY <1>3 DEF Publish
<1>4. CASE Render
  <2> SUFFICES ASSUME pc' = "publish", cur'.image
               PROVE  \/ card'[cur'.job] = cur'.text
                      \/ card'[cur'.job] \in Text /\ cur'.job \in lost'
                      \/ card'[cur'.job] = "partial" /\ kills' > 0
    OBVIOUS
  <2>1. /\ UNCHANGED <<kills, lost>> /\ cur'.job = cur.job /\ cur'.text = cur.text
        /\ Rendering /\ thread.job \in Job
    BY <1>0, <1>4, RenderSteps DEF Deliver, TypeOK
  <2>2. pc = "format"
    BY <1>0, <2>1, <1>4, RenderSteps DEF ThreadInv, Deliver
  <2>3. thread.job = cur.job /\ thread.text = cur.text /\ cur.job \in Job
    BY <1>0, <2>2 DEF ThreadInv, WorkInv, Working
  <2>4. card \in [Job -> {"absent", "partial"} \cup Text]
    BY <1>0 DEF TypeOK, CardTypeOK
  <2>5. \/ ThreadAt("check") /\ card[cur.job] # "absent" /\ card' = card
        \/ card' = [card EXCEPT ![cur.job] = cur.text]
    BY <1>0, <1>4, <2>2, <2>3, RenderSteps DEF Deliver, TypeOK
  <2>6. CASE card' = [card EXCEPT ![cur.job] = cur.text]
    BY <2>1, <2>3, <2>4, <2>6
  <2>7. CASE ThreadAt("check") /\ card[cur.job] = "partial" /\ card' = card
    <3>1. cur.job \in Broken
      BY <2>3, <2>7 DEF Broken, ThreadAt
    <3> QED
      BY <1>0, <2>1, <2>7, <3>1, BrokenMeansKilled
  <2>8. CASE card[cur.job] \in Text /\ card' = card
    <3>1. cur.job \notin stored
      BY <1>0, <2>2 DEF TodoInv, Working
    <3> QED
      BY <1>0, <2>1, <2>3, <2>8, <3>1 DEF DrawnInv
  <2> QED
    BY <2>3, <2>4, <2>5, <2>6, <2>7, <2>8
<1>5. CASE Exit
  BY <1>0, <1>5 DEF Exit, run
<1>6. CASE Boot
  BY <1>0, <1>6 DEF Boot, run, ThreadInv
<1> QED
  BY <1>0, <1>1, <1>2, <1>3, <1>4, <1>5, <1>6, Frame

-----------------------------------------------------------------------------
(* The theorems.                                                           *)
LEMMA InitInv == Init => ProcessInv
<1> SUFFICES ASSUME Init PROVE ProcessInv
  OBVIOUS
<1> USE CardAssumption, ProcessAssumption DEF Init, CardInit
<1>1. TypeOK
  BY NoThreadType, NoListingType
     DEF TypeOK, CardTypeOK, NoCards, Rendering, ThreadAt, Label, Session
<1>2. Broken = {}
  BY DEF Broken, NoCards
<1>3. BrokenCardsNeedAKill
  BY <1>2, FS_EmptySet DEF BrokenCardsNeedAKill
<1> QED
  BY <1>1, <1>3, NoThreadType
     DEF ProcessInv, WorkInv, Working, HeldInv, Has, ThreadInv, Rendering, At, TodoInv,
         DrawnInv, NoCards, CardFitsPost

LEMMA InvStep == ProcessInv /\ [Next]_vars => ProcessInv'
<1> SUFFICES ASSUME ProcessInv, [Next]_vars PROVE ProcessInv'
  OBVIOUS
<1>1. TypeOK /\ WorkInv /\ HeldInv /\ ThreadInv /\ TodoInv /\ DrawnInv /\ BrokenCardsNeedAKill
  BY DEF ProcessInv
<1>2. TypeOK' /\ WorkInv'
  BY <1>1, TypeStep, WorkStep
<1>3. HeldInv'
  BY <1>1, HeldStep
<1>4. ThreadInv'
  BY <1>1, ThreadStep
<1>5. TodoInv' /\ DrawnInv'
  BY <1>1, TodoStep, DrawnStep
<1>6. BrokenCardsNeedAKill'
  BY <1>1, BrokenStep
<1>7. CardFitsPost'
  BY CardFitsStep
<1> QED
  BY <1>2, <1>3, <1>4, <1>5, <1>6, <1>7 DEF ProcessInv

LEMMA Invariant == Spec => []ProcessInv
BY InitInv, InvStep, PTL DEF Spec

(* Every reachable state of the process and its card files is well typed.  *)
THEOREM ProcessTypeCorrect == Spec => []TypeOK
<1>1. ProcessInv => TypeOK
  BY DEF ProcessInv
<1> QED
  BY <1>1, Invariant, PTL

(* However small the pool and however many requests, no task waits for a   *)
(* connection while it has one (session_scope, pipeline_run).              *)
THEOREM PoolNeverDeadlocks == Spec => []NoHoldAndWait
<1>1. ProcessInv => NoHoldAndWait
  BY HeldShows DEF ProcessInv
<1> QED
  BY <1>1, Invariant, PTL

(* However often the process is shut down and its runs cancelled, only     *)
(* kills leave broken cards, one each (generate_card).                     *)
THEOREM OnlyKillsBreakCards == Spec => []BrokenCardsNeedAKill
<1>1. ProcessInv => BrokenCardsNeedAKill
  BY DEF ProcessInv
<1> QED
  BY <1>1, Invariant, PTL

(* A post carries the card of its own listing, unless a transaction on the *)
(* job was given up earlier or a process was killed (_process_job).        *)
THEOREM CardsFitPosts == Spec => []CardFitsPost
<1>1. ProcessInv => CardFitsPost
  BY DEF ProcessInv
<1> QED
  BY <1>1, Invariant, PTL
=============================================================================
