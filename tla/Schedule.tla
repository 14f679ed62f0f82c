------------------------------ MODULE Schedule ------------------------------
(***************************************************************************)
(* When runs happen, and what the admin API says of them: the scheduler    *)
(* process (build_scheduler under run_forever or the web app's lifespan)   *)
(* and the status of a run_log row.  The backup runners (--once) add rows  *)
(* of the same kind at any time and take no part in this schedule.         *)
(*                                                                         *)
(* Time is counted in ticks.  APScheduler is modelled from how the job is  *)
(* added: a fire is due at the start of the process and at every Interval  *)
(* after it; one that comes too late (its grace time is a second) or finds *)
(* the previous run still active (max_instances=1) is dropped for good.    *)
(*                                                                         *)
(* FirstFireLater, InstanceFreeAlways and StatusAgeReversed are broken     *)
(* variants of the definition that follows each. The specification does    *)
(* not use them; each shows that some property would notice the mistake it *)
(* stands for.                                                             *)
(***************************************************************************)
EXTENDS Integers, Sequences

CONSTANTS Interval,     \* SCHEDULER_INTERVAL_MINUTES, in ticks
          RecentFor,    \* the five minutes of RunLogSchema.status, in ticks
          MaxTime,      \* bound: ticks in a behaviour
          MaxBoots,     \* bound: starts of the scheduler process
          MaxRows       \* bound: rows of run_log

ASSUME ScheduleAssumption ==
  /\ Interval \in Nat \ {0} /\ RecentFor \in Nat \ {0}
  /\ MaxTime \in Nat /\ MaxBoots \in Nat /\ MaxRows \in Nat

Never == -1

VARIABLES clock,
          boots,    \* scheduler processes started so far
          up,       \* the last of them is running
          due,      \* its next fire
          missed,   \* one of its fires started no run, the process being late
          rows      \* run_log; over is when the run ended, recorded or not

vars == <<clock, boots, up, due, missed, rows>>

Init ==
  /\ clock = 0 /\ boots = 0 /\ up = FALSE
  /\ due = Never /\ missed = FALSE
  /\ rows = << >>

-----------------------------------------------------------------------------
NewRow == [boot |-> boots, started |-> clock, finished |-> Never,
           over |-> Never, killed |-> FALSE]

Active(i) == rows[i].over = Never
Ours(i) == rows[i].boot = boots
Busy == \E i \in DOMAIN rows : Ours(i) /\ Active(i)

(* No fire is left behind by more than the grace time.                     *)
Tick ==
  /\ clock < MaxTime /\ ~(up /\ due <= clock)
  /\ clock' = clock + 1
  /\ UNCHANGED <<boots, up, due, missed, rows>>

FirstFireLater == clock + Interval + 1
FirstFire == clock
Boot ==
  /\ ~up /\ boots < MaxBoots
  /\ boots' = boots + 1 /\ up' = TRUE
  /\ due' = FirstFire /\ missed' = FALSE
  /\ UNCHANGED <<clock, rows>>

NextDue == due + Interval
FireIsDue == up /\ due <= clock /\ due' = NextDue /\ UNCHANGED <<clock, boots, up>>

InstanceFreeAlways == TRUE
InstanceFree == ~Busy

Fire ==
  /\ FireIsDue /\ InstanceFree
  /\ Len(rows) < MaxRows /\ rows' = Append(rows, NewRow)
  /\ UNCHANGED missed

FireSkipped ==
  /\ FireIsDue /\ ~InstanceFree
  /\ UNCHANGED <<missed, rows>>

(* The event loop was blocked at that moment, or the run could not insert  *)
(* its row and ended at once.                                              *)
FireLost ==
  /\ FireIsDue /\ InstanceFree
  /\ missed' = TRUE
  /\ UNCHANGED rows

-----------------------------------------------------------------------------
(* The end of a run: with the UPDATE of its row, by pipeline_run or by     *)
(* _record_run_failure; without it, as that may fail; or with its process. *)

Finished(row) == [row EXCEPT !.finished = clock, !.over = clock]
Unrecorded(row) == [row EXCEPT !.over = clock]
Killed(row) == [row EXCEPT !.over = clock, !.killed = TRUE]

RunEnds(i) ==
  /\ Active(i)
  /\ rows' \in {[rows EXCEPT ![i] = Finished(@)], [rows EXCEPT ![i] = Unrecorded(@)]}
  /\ UNCHANGED <<clock, boots, up, due, missed>>

(* A crash, or the shutdown with wait=False, which cancels the run.        *)
ProcessEnds ==
  /\ up /\ up' = FALSE
  /\ rows' = [i \in DOMAIN rows |-> IF Ours(i) /\ Active(i) THEN Killed(rows[i]) ELSE rows[i]]
  /\ UNCHANGED <<clock, boots, due, missed>>

(* The bounds on time and on rows stop the model; the system goes on.      *)
Bounded == (clock = MaxTime \/ Len(rows) = MaxRows) /\ UNCHANGED vars

Next ==
  \/ Tick \/ Boot \/ Fire \/ FireSkipped \/ FireLost
  \/ ProcessEnds \/ Bounded
  \/ \E i \in DOMAIN rows : RunEnds(i)

Spec == Init /\ [][Next]_vars

-----------------------------------------------------------------------------
(* RunLogSchema.status.                                                    *)
StatusAgeReversed(i) ==
  IF rows[i].finished # Never THEN "completed"
  ELSE IF rows[i].started > clock - RecentFor THEN "interrupted" ELSE "running"
Status(i) ==
  IF rows[i].finished # Never THEN "completed"
  ELSE IF rows[i].started > clock - RecentFor THEN "running" ELSE "interrupted"

(* The scheduler's runs never overlap, not even those of a process and *)
(* its successor, and within one process they start an interval apart: a   *)
(* run that takes too long makes the next one wait for its regular time.   *)
RunsArePaced ==
  \A i, k \in DOMAIN rows :
    i < k =>
      /\ ~Active(i) /\ rows[i].over <= rows[k].started
      /\ rows[i].boot = rows[k].boot => rows[k].started - rows[i].started >= Interval

(* A scheduler process that lost no fire is never idle for longer than an  *)
(* interval after its last run, and starts with a run at once.             *)
NeverIdleForLong ==
  up /\ ~missed /\ due > clock =>
    \E i \in DOMAIN rows :
      Ours(i) /\ (Active(i) \/ clock - rows[i].over <= Interval)

(* What the admin API says of a run only moves forward: running, then      *)
(* interrupted, then completed, without going back.                        *)
StatusMovesForward ==
  [][\A i \in DOMAIN rows :
       /\ Status(i) = "completed" => Status(i)' = "completed"
       /\ Status(i) = "interrupted" => Status(i)' # "running"]_vars

(* "Older unfinished runs were killed mid-run": not so for a run that is   *)
(* still in its retries, nor for one whose last UPDATE failed.             *)
InterruptedMeansKilled ==
  \A i \in DOMAIN rows : Status(i) = "interrupted" => rows[i].killed

-----------------------------------------------------------------------------
(* What makes the invariants above inductive.                              *)

Row == [boot: Nat, started: Nat, finished: Nat \cup {Never},
        over: Nat \cup {Never}, killed: BOOLEAN]

TypeInv ==
  /\ clock \in Nat /\ boots \in Nat /\ up \in BOOLEAN
  /\ due \in Int /\ missed \in BOOLEAN
  /\ rows \in Seq(Row)

(* The next fire is never behind the clock, nor more than an interval      *)
(* ahead of it.                                                            *)
DueInv == up => clock <= due /\ due <= clock + Interval

(* A row is of the past; only the process that is up has an active run,    *)
(* and its next fire is at least an interval after any of its runs.        *)
RowInv ==
  \A i \in DOMAIN rows :
    /\ rows[i].started <= clock /\ rows[i].over <= clock /\ rows[i].boot <= boots
    /\ Active(i) => up /\ Ours(i)
    /\ up /\ Ours(i) => rows[i].started + Interval <= due

(* The last run ended no more than an interval before the next fire.       *)
RecentInv ==
  up /\ ~missed /\ due > clock =>
    \E i \in DOMAIN rows : Ours(i) /\ (Active(i) \/ rows[i].over >= due - Interval)

PaceInv == TypeInv /\ DueInv /\ RowInv /\ RecentInv /\ RunsArePaced
=============================================================================
