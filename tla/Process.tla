------------------------------- MODULE Process -------------------------------
(***************************************************************************)
(* One process on one host, from its start to its end and over its         *)
(* restarts: the web container (app/main.py), whose lifespan hosts the     *)
(* scheduler next to the API, or the standalone scheduler, which is the    *)
(* same without requests.  What the run and the requests share is the pool *)
(* of database connections (app/core/database.py); what one process leaves *)
(* to the next are the jobs it stored and its card files.                  *)
(*                                                                         *)
(* A session takes a connection from the pool with the first statement of  *)
(* a transaction and returns it at commit, rollback or close.  The run has *)
(* one session for its work and opens a fresh one to record its failure.   *)
(* What the statements do to the tables is the business of PipelineRun;    *)
(* here a job is stored or its transaction is lost.                        *)
(*                                                                         *)
(* FailWithinSession, KeepThrough, SchedulerLeftOn and ExitAtOnce are      *)
(* broken variants of the definition that follows each. The specification  *)
(* does not use them; each shows that some property would notice the       *)
(* mistake it stands for.                                                  *)
(***************************************************************************)
EXTENDS CardCache, Integers

CONSTANTS Request,      \* API requests that may be in flight at once
          MaxConn,      \* pool_size + max_overflow
          MaxKills      \* bound: processes killed in a behaviour

ASSUME ProcessAssumption ==
  /\ MaxConn \in Nat \ {0} /\ MaxKills \in Nat
  /\ {"work", "fresh"} \cap Request = {}
  /\ IsFiniteSet(Job)

Session == {"work", "fresh"} \cup Request
Card == 1..2            \* the platforms whose posts have a card, in turn

VARIABLES phase,        \* of the process: up, draining, exiting, down
          kills,
          held,         \* the sessions that have a connection
          req,          \* per request, what it is doing
          pc,           \* the statement the run is about to execute
          feeds,        \* the feed threads of the run: parsing or answered
          todo,         \* the listings left to post: pairs of job and text
          cur,          \* the listing at hand, its platform, its image path
          stored,       \* jobs committed
          lost          \* jobs whose transaction was given up at least once

run == <<pc, todo, cur>>
vars == <<card, thread, phase, kills, held, req, pc, feeds, todo, cur, stored, lost>>

NoListing == [job |-> NoJob, text |-> "absent", plat |-> 1, image |-> FALSE]

Init ==
  /\ CardInit
  /\ phase = "up" /\ kills = 0
  /\ held = {} /\ req = [q \in Request |-> "idle"]
  /\ pc = "idle" /\ feeds = "answered" /\ todo = {} /\ cur = NoListing
  /\ stored = {} /\ lost = {}

-----------------------------------------------------------------------------
At(label) == pc = label
Goto(label) == pc' = label

(* The next statement of the session needs a connection it has not got.    *)
Wants(s) ==
  /\ s \notin held
  /\ \/ s = "work" /\ pc \in {"begin", "select", "finalise"}
     \/ s = "work" /\ At("job") /\ todo # {}
     \/ s = "fresh" /\ At("record")
     \/ s \in Request /\ req[s] = "query"

PoolHasRoom == Cardinality(held) < MaxConn
Has(s) == s \in held
Return(s) == held' = held \ {s}

Checkout(s) ==
  /\ Wants(s) /\ PoolHasRoom
  /\ held' = held \cup {s}
  /\ UNCHANGED <<card, thread, phase, kills, req, run, feeds, stored, lost>>

-----------------------------------------------------------------------------
(* get_db around the handlers of app/api: one statement, then the commit,  *)
(* or the rollback; no connection within the pool's time-out is an error.  *)
Ask(q) ==
  /\ phase = "up" /\ req[q] = "idle"
  /\ req' = [req EXCEPT ![q] = "query"]
  /\ UNCHANGED <<card, thread, phase, kills, held, run, feeds, stored, lost>>

Answer(q) ==
  /\ req[q] = "query" /\ Has(q)
  /\ req' = [req EXCEPT ![q] = "idle"]
  /\ Return(q)
  /\ UNCHANGED <<card, thread, phase, kills, run, feeds, stored, lost>>

TurnAway(q) ==
  /\ req[q] = "query" /\ Wants(q) /\ ~PoolHasRoom
  /\ req' = [req EXCEPT ![q] = "idle"]
  /\ UNCHANGED <<card, thread, phase, kills, held, run, feeds, stored, lost>>

-----------------------------------------------------------------------------
(* pipeline_run.                                                           *)
SchedulerLeftOn == phase # "down"
SchedulerOn == phase \in {"up", "draining"}

StartRun ==
  /\ At("idle") /\ SchedulerOn
  /\ Goto("begin")
  /\ UNCHANGED <<card, thread, phase, kills, held, req, feeds, todo, cur, stored, lost>>

(* The commit of the run's row hands the connection back before the feeds  *)
(* are fetched.                                                            *)
KeepThrough == UNCHANGED held
HandBack == Return("work")
RecordStart ==
  /\ At("begin") /\ Has("work")
  /\ HandBack
  /\ feeds' = "parsing" /\ Goto("ingest")
  /\ UNCHANGED <<card, thread, phase, kills, req, todo, cur, stored, lost>>

(* run_id is None: the run ends without a record of its failure.           *)
StartFails ==
  /\ At("begin") /\ (Has("work") \/ ~PoolHasRoom)
  /\ Return("work") /\ Goto("idle")
  /\ UNCHANGED <<card, thread, phase, kills, req, feeds, todo, cur, stored, lost>>

(* The threads of feedparser answer, whether anyone still waits or not.    *)
FeedsAnswer ==
  /\ feeds = "parsing" /\ feeds' = "answered"
  /\ pc' = IF At("ingest") THEN "select" ELSE pc
  /\ UNCHANGED <<card, thread, phase, kills, held, req, todo, cur, stored, lost>>

(* Of each job the sources returned one listing survives, if it is new; an *)
(* empty batch is not looked up.                                           *)
Select ==
  /\ At("select")
  /\ \/ todo' = {}
     \/ /\ Has("work")
        /\ \E new \in SUBSET (Job \ stored) :
             \E text \in [new -> Text] : todo' = {<<h, text[h]>> : h \in new}
  /\ Goto("job")
  /\ UNCHANGED <<card, thread, phase, kills, held, req, feeds, cur, stored, lost>>

(* The first statement of a job continues the transaction of the select;   *)
(* the formatter of the first platform starts in its thread.               *)
InsertJob ==
  /\ At("job") /\ Has("work")
  /\ \E listing \in todo :
       /\ todo' = todo \ {listing}
       /\ cur' = [NoListing EXCEPT !.job = listing[1], !.text = listing[2]]
       /\ Call(listing[1], listing[2])
  /\ Goto("format")
  /\ UNCHANGED <<card, phase, kills, held, req, feeds, stored, lost>>

(* After the rollback comes the next job; if it raises too, the run is     *)
(* given up, its session closed.                                           *)
RollBack(rest) ==
  /\ Return("work")
  /\ \/ Goto("job") /\ todo' = rest
     \/ Goto("record") /\ todo' = {}

(* The INSERT raises, or no connection comes free for it.                  *)
InsertFails ==
  /\ At("job") /\ (Has("work") \/ ~PoolHasRoom)
  /\ \E listing \in todo : RollBack(todo \ {listing})
  /\ UNCHANGED <<card, thread, phase, kills, req, feeds, cur, stored, lost>>

(* The thread goes on when its run has been cancelled; otherwise its end   *)
(* is the end of format.                                                   *)
Deliver(image) ==
  IF At("format") THEN Goto("publish") /\ cur' = [cur EXCEPT !.image = image]
  ELSE UNCHANGED <<pc, cur>>

Render ==
  /\ \/ OpenCard /\ UNCHANGED <<pc, cur>>
     \/ CardMade /\ Deliver(TRUE)
     \/ NoCard /\ Deliver(FALSE)
  /\ UNCHANGED <<phase, kills, held, req, feeds, todo, stored, lost>>

(* publish opens the card by its path, if there is one.                    *)
Publish ==
  /\ At("publish")
  /\ IF cur.plat + 1 \in Card
     THEN /\ cur' = [cur EXCEPT !.plat = @ + 1, !.image = FALSE]
          /\ Call(cur.job, cur.text) /\ Goto("format")
     ELSE Goto("commit") /\ UNCHANGED <<cur, thread>>
  /\ UNCHANGED <<card, phase, kills, held, req, feeds, todo, stored, lost>>

Commit ==
  /\ At("commit")
  /\ stored' = stored \cup {cur.job}
  /\ Return("work") /\ cur' = NoListing /\ Goto("job")
  /\ UNCHANGED <<card, thread, phase, kills, req, feeds, todo, lost>>

(* A statement or a formatter raises.                                      *)
LoseJob == lost' = lost \cup ({cur.job} \cap Job)
JobFails ==
  /\ pc \in {"publish", "commit"}
  /\ LoseJob /\ RollBack(todo)
  /\ cur' = NoListing
  /\ UNCHANGED <<card, thread, phase, kills, req, feeds, stored>>

JobsDone ==
  /\ At("job") /\ todo = {}
  /\ Goto("finalise")
  /\ UNCHANGED <<card, thread, phase, kills, held, req, feeds, todo, cur, stored, lost>>

Finalise ==
  /\ At("finalise") /\ Has("work")
  /\ Return("work") /\ Goto("idle")
  /\ UNCHANGED <<card, thread, phase, kills, req, feeds, todo, cur, stored, lost>>

(* The exception leaves the block of the session, which closes it, before  *)
(* _record_run_failure opens another.                                      *)
FailWithinSession == Goto("record") /\ UNCHANGED held
LeaveSession == Goto("record") /\ Return("work")
RunFails ==
  /\ pc \in {"select", "finalise"} /\ (Has("work") \/ ~PoolHasRoom)
  /\ LeaveSession
  /\ UNCHANGED <<card, thread, phase, kills, req, feeds, todo, cur, stored, lost>>

(* Recorded, or swallowed: the UPDATE raised or no connection came free.   *)
RecordFailure ==
  /\ At("record") /\ (Has("fresh") \/ ~PoolHasRoom)
  /\ Return("fresh") /\ Goto("idle")
  /\ UNCHANGED <<card, thread, phase, kills, req, feeds, todo, cur, stored, lost>>

-----------------------------------------------------------------------------
(* The end of the process, and the next one.                               *)

(* SIGTERM: no new requests; those in flight are answered first.           *)
Terminate ==
  /\ phase = "up" /\ phase' = "draining"
  /\ UNCHANGED <<card, thread, kills, held, req, run, feeds, stored, lost>>

(* The lifespan ends: scheduler.shutdown(wait=False), dispose_engine.      *)
Dispose ==
  /\ phase = "draining" /\ \A q \in Request : req[q] = "idle"
  /\ phase' = "exiting"
  /\ UNCHANGED <<card, thread, kills, held, req, run, feeds, stored, lost>>

(* The shutdown reaches the run at whatever it awaits: CancelledError goes *)
(* past every handler, and only the sessions are closed on the way out.    *)
Cancel ==
  /\ phase = "exiting" /\ ~At("idle")
  /\ Goto("idle") /\ held' = held \ {"work", "fresh"}
  /\ LoseJob /\ todo' = {} /\ cur' = NoListing
  /\ UNCHANGED <<card, thread, phase, kills, req, feeds, stored>>

(* The interpreter joins the threads of the executor, however long.        *)
ExitAtOnce == TRUE
ThreadsOver == ~Rendering /\ feeds = "answered"
Exit ==
  /\ phase = "exiting" /\ At("idle") /\ ThreadsOver
  /\ phase' = "down"
  /\ thread' = NoThread /\ feeds' = "answered"
  /\ UNCHANGED <<card, kills, held, req, run, stored, lost>>

(* The files stay as they are, and the server drops what was open.         *)
Kill ==
  /\ phase # "down" /\ kills < MaxKills
  /\ phase' = "down" /\ kills' = kills + 1
  /\ thread' = NoThread /\ feeds' = "answered"
  /\ held' = {} /\ req' = [q \in Request |-> "idle"]
  /\ Goto("idle") /\ LoseJob /\ todo' = {} /\ cur' = NoListing
  /\ UNCHANGED <<card, stored>>

(* The container is restarted, or made anew without the files in /tmp.     *)
Boot ==
  /\ phase = "down" /\ phase' = "up"
  /\ card' \in {card, NoCards}
  /\ UNCHANGED <<thread, kills, held, req, run, feeds, stored, lost>>

-----------------------------------------------------------------------------
RunStep ==
  \/ RecordStart \/ StartFails \/ Select \/ InsertJob \/ InsertFails
  \/ Publish \/ Commit \/ JobFails \/ JobsDone \/ Finalise \/ RunFails \/ RecordFailure

Next ==
  \/ \E s \in Session : Checkout(s)
  \/ \E q \in Request : Ask(q) \/ Answer(q) \/ TurnAway(q)
  \/ StartRun \/ RunStep \/ FeedsAnswer \/ Render
  \/ Terminate \/ Dispose \/ Cancel \/ Exit \/ Kill \/ Boot

Spec == Init /\ [][Next]_vars

(* Statements and drawing end, one way or the other; a connection that is  *)
(* handed back time and again reaches every session that waits for one;    *)
(* nothing is assumed of the feeds, the pool's time-out, or the signals.   *)
Fairness ==
  /\ \A s \in Session : SF_vars(Checkout(s))
  /\ \A q \in Request : WF_vars(Answer(q))
  /\ WF_vars(RunStep /\ ~Wants("work") /\ ~Wants("fresh"))
  /\ WF_vars(Render) /\ WF_vars(Dispose) /\ WF_vars(Cancel) /\ WF_vars(Exit)
FairSpec == Spec /\ Fairness

-----------------------------------------------------------------------------
Label == {"idle", "begin", "ingest", "select", "job", "format", "publish", "commit",
          "finalise", "record"}

TypeOK ==
  /\ CardTypeOK
  /\ phase \in {"up", "draining", "exiting", "down"} /\ kills \in Nat
  /\ held \subseteq Session
  /\ req \in [Request -> {"idle", "query"}]
  /\ pc \in Label /\ feeds \in {"parsing", "answered"}
  /\ todo \subseteq Job \X Text
  /\ cur \in [job: Job \cup {NoJob}, text: Text \cup {"absent"}, plat: Card, image: BOOLEAN]
  /\ stored \subseteq Job /\ lost \subseteq Job

(* The pool is no place for a deadlock: a task that waits for a connection *)
(* has none, whichever session it waits in, and what is over has given its *)
(* connection back.  Whoever waits, waits for someone at work.             *)
NoHoldAndWait ==
  /\ At("idle") \/ Wants("work") \/ Wants("fresh") => held \cap {"work", "fresh"} = {}
  /\ \A q \in Request : req[q] = "idle" => ~Has(q)

(* A card that stays incomplete, and is posted so from then on, is the     *)
(* work of a kill; each kill leaves one at most.  A shutdown, a cancelled  *)
(* run and a full disk leave none.                                         *)
BrokenCardsNeedAKill == Cardinality(Broken) <= kills

(* A post goes out with the card of its own listing.  The card may be that *)
(* of an earlier listing of the job, with another pay or text, only if an  *)
(* earlier transaction on the job was given up; and it is incomplete only  *)
(* if a process was killed.                                                *)
CardFitsPost ==
  At("publish") /\ cur.image =>
    \/ card[cur.job] = cur.text
    \/ card[cur.job] \in Text /\ cur.job \in lost
    \/ card[cur.job] = "partial" /\ kills > 0

(* The API answers whatever the run is doing, and be it waiting for a feed *)
(* that never answers: no request depends on the pool's time-out.          *)
RequestsAnswered == \A q \in Request : req[q] = "query" ~> req[q] = "idle"

(* The process ends when it is told to: requests are answered, the run is  *)
(* cancelled, the drawing finished.  Only a feed that never answers keeps  *)
(* it from ending.                                                         *)
ShutdownEnds == phase = "draining" ~> (phase = "down" \/ [](feeds = "parsing"))
=============================================================================
