----------------------------- MODULE PipelineRun -----------------------------
(***************************************************************************)
(* Pipeline runs over one database (app/scheduler.py) and the publishing   *)
(* loop inside them (app/publisher/base.py).                               *)
(*                                                                         *)
(* Several runners (the web container's scheduler, the standalone one, the *)
(* GitHub Actions backup) share the jobs, posts, publish_log and run_log   *)
(* tables and the same accounts on the platforms.  A run selects jobs from *)
(* a fetched batch and handles each in a transaction of its own: insert    *)
(* the job, then per platform insert the post and publish with retries,    *)
(* then commit.  The insert is flushed before anything is published, so    *)
(* the unique index on jobs.content_hash makes the hash the runner's own   *)
(* until its transaction ends: another insert of that hash waits for the   *)
(* end, fails if the hash was committed, and goes ahead if it was not.     *)
(*                                                                         *)
(* Faults (a statement that fails, a commit whose answer is lost, a post   *)
(* that is out although the call raised, a formatter that raises, a        *)
(* process that dies) are counted, and bounded by MaxFaults.  A platform   *)
(* that refuses a post is no fault: it is what the retries are for.        *)
(*                                                                         *)
(* LoopNeverEnds, NextPlatUnchecked, FinishRowUnstamped, ReusedRunRow,     *)
(* NoUniqueIndex, BrokenTransactionKeptUsing, PublishErrorSwallowed,       *)
(* OneRetryTooMany, PersistUnstamped and PostedAlways are broken variants  *)
(* of the definition that follows each. The specification does not use     *)
(* them; each shows that some property would notice the mistake it stands  *)
(* for.                                                                    *)
(***************************************************************************)
EXTENDS Pipeline, SequencesExt

CONSTANTS Runner,
          NoHash,         \* no claim held
          Batches,        \* what the ingestors together may return
          Unstorable,     \* listings PostgreSQL rejects (a NUL in the text)
          NumPlatforms,   \* the pairs of _build_pairs: 2, or 3 with LinkedIn
          MaxRetries,     \* BasePublisher.max_retries
          MaxRuns,        \* bound: runs a runner starts
          MaxFaults       \* bound: faults in a behaviour

ASSUME PipelineRunAssumption ==
  /\ IsFiniteSet(Runner)
  /\ NoHash \notin Hash
  /\ Batches \subseteq Seq(Listing)
  /\ Unstorable \subseteq Listing
  /\ NumPlatforms \in Nat \ {0}
  /\ MaxRetries \in Nat \ {0}
  /\ MaxRuns \in Nat
  /\ MaxFaults \in Nat

Platform == 1..NumPlatforms
Status == {"success", "failed"}

VARIABLES jobs,       \* hashes of the committed jobs rows
          postedAt,   \* those whose posted_at is set
          plog,       \* per job and platform, the committed publish_log statuses
          runLog,     \* per runner, its run_log rows, oldest first
          delivered,  \* posts of a job that are out on a platform
          faults,
          pc,         \* the statement a runner is about to execute
          raw,        \* raw_jobs of the run
          todo,       \* positions of to_post not yet taken
          claim,      \* the hash its open transaction has inserted
          txn,        \* what else _process_job and that transaction hold
          counts      \* ingested, new, posted, errors of the run

vars == <<jobs, postedAt, plog, runLog, delivered, faults,
          pc, raw, todo, claim, txn, counts>>
tables == <<jobs, postedAt, plog>>

NoCounts == [ingested |-> 0, new |-> 0, posted |-> 0, errors |-> 0]
NewTxn(h) == [hash |-> h, plat |-> 1, attempt |-> 1, log |-> [p \in Platform |-> << >>],
              stamp |-> FALSE, postedAny |-> FALSE, errors |-> 0]

Init ==
  /\ jobs = {} /\ postedAt = {}
  /\ plog = [h \in Hash |-> [p \in Platform |-> << >>]]
  /\ runLog = [r \in Runner |-> << >>]
  /\ delivered = [h \in Hash |-> [p \in Platform |-> 0]]
  /\ faults = 0
  /\ pc = [r \in Runner |-> "idle"]
  /\ raw = [r \in Runner |-> << >>]
  /\ todo = [r \in Runner |-> {}]
  /\ claim = [r \in Runner |-> NoHash]
  /\ txn = [r \in Runner |-> NewTxn(NoHash)]
  /\ counts = [r \in Runner |-> NoCounts]

-----------------------------------------------------------------------------
At(r, label) == pc[r] = label
Goto(r, label) == pc' = [pc EXCEPT ![r] = label]
Fault == faults < MaxFaults /\ faults' = faults + 1
NoFault == faults' = faults
AddErrors(r, n) == counts' = [counts EXCEPT ![r].errors = @ + n]
DropClaim(r) == claim' = [claim EXCEPT ![r] = NoHash]

(* The posting loop goes on with the next job, or ends; the locals of      *)
(* _process_job go with its return.                                        *)
LoopNeverEnds(left) == "insert"
LoopLabel(left) == IF left = {} THEN "finalise" ELSE "insert"
EndJob(r) ==
  /\ Goto(r, LoopLabel(todo[r]))
  /\ txn' = [txn EXCEPT ![r] = NewTxn(NoHash)]

(* The next pair of _process_job, or its commit.                           *)
PairLabel(r) == IF txn[r].plat < NumPlatforms THEN "format" ELSE "commit"
NextPlatUnchecked(r) == txn[r].plat + 1
NextPlat(r) == IF txn[r].plat < NumPlatforms THEN txn[r].plat + 1 ELSE txn[r].plat

(* The UPDATE of the run's row with its counts and finished_at.            *)
RunRow(finished, n) == [finished |-> finished, counts |-> n]
FinishRowUnstamped(r, n) ==
  runLog' = [runLog EXCEPT ![r] = [@ EXCEPT ![Len(@)] = RunRow(FALSE, n)]]
FinishRow(r, n) ==
  runLog' = [runLog EXCEPT ![r] = [@ EXCEPT ![Len(@)] = RunRow(TRUE, n)]]

(* The locals of pipeline_run go with the call.                            *)
Forget(r) ==
  /\ raw' = [raw EXCEPT ![r] = << >>]
  /\ todo' = [todo EXCEPT ![r] = {}]
  /\ txn' = [txn EXCEPT ![r] = NewTxn(NoHash)]
  /\ counts' = [counts EXCEPT ![r] = NoCounts]

-----------------------------------------------------------------------------
(* pipeline_run up to the posting loop.                                    *)

MayStart(r) == At(r, "idle") /\ Len(runLog[r]) < MaxRuns
ReusedRunRow(r) ==
  [runLog EXCEPT ![r] = IF @ = << >> THEN <<RunRow(FALSE, NoCounts)>>
                                     ELSE [@ EXCEPT ![Len(@)] = RunRow(FALSE, NoCounts)]]
NewRunRow(r) == [runLog EXCEPT ![r] = Append(@, RunRow(FALSE, NoCounts))]

StartRun(r) ==
  /\ MayStart(r)
  /\ runLog' = NewRunRow(r)
  /\ Goto(r, "ingest") /\ NoFault
  /\ UNCHANGED <<tables, delivered, raw, todo, claim, txn, counts>>

(* The commit raises, whether or not it was applied: run_id is still None, *)
(* so _record_run_failure returns at once.                                 *)
StartRunFails(r) ==
  /\ MayStart(r) /\ Fault
  /\ runLog' \in {runLog, NewRunRow(r)}
  /\ UNCHANGED <<tables, delivered, pc, raw, todo, claim, txn, counts>>

(* safe_fetch never raises: a source that fails adds nothing to the batch. *)
Ingest(r) ==
  /\ At(r, "ingest")
  /\ \E batch \in Batches :
       /\ raw' = [raw EXCEPT ![r] = batch]
       /\ counts' = [counts EXCEPT ![r].ingested = Len(batch)]
  /\ Goto(r, "select") /\ NoFault
  /\ UNCHANGED <<tables, runLog, delivered, todo, claim, txn>>

RunPipeline(r) ==
  /\ At(r, "select")
  /\ todo' = [todo EXCEPT ![r] = ToPost(raw[r], jobs)]
  /\ counts' = [counts EXCEPT ![r].new = Cardinality(Passing(raw[r], jobs))]
  /\ Goto(r, LoopLabel(ToPost(raw[r], jobs))) /\ NoFault
  /\ UNCHANGED <<tables, runLog, delivered, raw, claim, txn>>

RunPipelineFails(r) ==
  /\ At(r, "select") /\ Fault
  /\ AddErrors(r, 1) /\ Goto(r, "record")
  /\ UNCHANGED <<tables, runLog, delivered, raw, todo, claim, txn>>

-----------------------------------------------------------------------------
(* _process_job, with publish_with_retry and its _log and _mark_job_posted. *)

(* The flush of the job's INSERT waits while another transaction holds the *)
(* hash, and raises IntegrityError once that one has committed it.         *)
NoUniqueIndex(h) == TRUE
HashFree(h) == \A q \in Runner : claim[q] # h

InsertJob(r) ==
  /\ At(r, "insert")
  /\ \E i \in todo[r] :
       /\ IsNext(raw[r], todo[r], i)
       /\ raw[r][i] \notin Unstorable
       /\ HashFree(HashAt(raw[r], i))
       /\ HashAt(raw[r], i) \notin jobs
       /\ claim' = [claim EXCEPT ![r] = HashAt(raw[r], i)]
       /\ todo' = [todo EXCEPT ![r] = @ \ {i}]
       /\ txn' = [txn EXCEPT ![r] = NewTxn(HashAt(raw[r], i))]
  /\ Goto(r, "format") /\ NoFault
  /\ UNCHANGED <<tables, runLog, delivered, raw, counts>>

(* The INSERT raises whenever it is tried: the hash is stored by now, or   *)
(* the row can never be.                                                   *)
InsertRejected(r) ==
  /\ At(r, "insert")
  /\ \E i \in todo[r] :
       /\ IsNext(raw[r], todo[r], i)
       /\ HashAt(raw[r], i) \in jobs \/ raw[r][i] \in Unstorable
       /\ todo' = [todo EXCEPT ![r] = @ \ {i}]
  /\ Goto(r, "rollback") /\ NoFault
  /\ UNCHANGED <<tables, runLog, delivered, raw, claim, txn, counts>>

InsertFails(r) ==
  /\ At(r, "insert") /\ Fault
  /\ \E i \in todo[r] :
       /\ IsNext(raw[r], todo[r], i)
       /\ todo' = [todo EXCEPT ![r] = @ \ {i}]
  /\ Goto(r, "rollback")
  /\ UNCHANGED <<tables, runLog, delivered, raw, claim, txn, counts>>

(* formatter.format and the flush of the post's row.                       *)
FormatAndInsertPost(r) ==
  /\ At(r, "format")
  /\ txn' = [txn EXCEPT ![r].attempt = 1]
  /\ Goto(r, "publish") /\ NoFault
  /\ UNCHANGED <<tables, runLog, delivered, raw, todo, claim, counts>>

(* The formatter raises: no statement has failed, so the transaction is    *)
(* still open, and the hash still claimed, until the rollback.             *)
FormatFails(r) ==
  /\ At(r, "format") /\ Fault
  /\ Goto(r, "rollback")
  /\ UNCHANGED <<tables, runLog, delivered, raw, todo, claim, txn, counts>>

(* A statement of the open transaction fails.  The server ends it, which   *)
(* frees the hash.  After a publish, the except branch tries to log the    *)
(* failure in the same, now unusable, transaction, and that raises out of  *)
(* publish_with_retry too.                                                 *)
BrokenTransactionKeptUsing(r) ==
  /\ pc[r] \in {"format", "log", "mark", "logfail"} /\ Fault
  /\ DropClaim(r) /\ Goto(r, "publish")
  /\ UNCHANGED <<tables, runLog, delivered, raw, todo, txn, counts>>

StatementFails(r) ==
  /\ pc[r] \in {"format", "log", "mark", "logfail"} /\ Fault
  /\ DropClaim(r) /\ Goto(r, "rollback")
  /\ UNCHANGED <<tables, runLog, delivered, raw, todo, txn, counts>>

Deliver(r) == delivered' = [delivered EXCEPT ![txn[r].hash][txn[r].plat] = @ + 1]

(* publish returns, raises with nothing posted, or raises although the     *)
(* post is out (a time-out, an answer without data).  The backoff before a *)
(* retry is part of the next attempt.                                      *)
Publish(r) ==
  /\ At(r, "publish")
  /\ Deliver(r) /\ Goto(r, "log") /\ NoFault
  /\ UNCHANGED <<tables, runLog, raw, todo, claim, txn, counts>>

PublishErrorSwallowed(r) ==
  /\ At(r, "publish")
  /\ Goto(r, "log") /\ NoFault
  /\ UNCHANGED <<tables, runLog, delivered, raw, todo, claim, txn, counts>>

PublishRefused(r) ==
  /\ At(r, "publish")
  /\ Goto(r, "logfail") /\ NoFault
  /\ UNCHANGED <<tables, runLog, delivered, raw, todo, claim, txn, counts>>

PublishAnswerLost(r) ==
  /\ At(r, "publish") /\ Fault
  /\ Deliver(r) /\ Goto(r, "logfail")
  /\ UNCHANGED <<tables, runLog, raw, todo, claim, txn, counts>>

(* The server ends the idle transaction of a runner that is publishing or  *)
(* backing off: the hash is free, and the runner does not know it until    *)
(* its next statement, which logs that attempt, fails.                     *)
ConnectionLost(r) ==
  /\ At(r, "publish") /\ Fault
  /\ DropClaim(r) /\ Goto(r, "late")
  /\ UNCHANGED <<tables, runLog, delivered, raw, todo, txn, counts>>

PublishLate(r) ==
  /\ At(r, "late")
  /\ Deliver(r) \/ UNCHANGED delivered
  /\ Goto(r, "rollback") /\ NoFault
  /\ UNCHANGED <<tables, runLog, raw, todo, claim, txn, counts>>

(* The line that _log adds to the open transaction.                        *)
Logged(r, status) == [txn[r] EXCEPT !.log[txn[r].plat] = Append(@, status)]

LogSuccess(r) ==
  /\ At(r, "log")
  /\ txn' = [txn EXCEPT ![r] = Logged(r, "success")]
  /\ Goto(r, "mark") /\ NoFault
  /\ UNCHANGED <<tables, runLog, delivered, raw, todo, claim, counts>>

MarkJobPosted(r) ==
  /\ At(r, "mark")
  /\ txn' = [txn EXCEPT ![r].stamp = TRUE, ![r].postedAny = TRUE, ![r].plat = NextPlat(r)]
  /\ Goto(r, PairLabel(r)) /\ NoFault
  /\ UNCHANGED <<tables, runLog, delivered, raw, todo, claim, counts>>

OneRetryTooMany(r) == txn[r].attempt <= MaxRetries
RetriesLeft(r) == txn[r].attempt < MaxRetries

LogFailure(r) ==
  /\ At(r, "logfail")
  /\ IF RetriesLeft(r)
     THEN /\ txn' = [txn EXCEPT ![r] = [Logged(r, "failed") EXCEPT !.attempt = @ + 1]]
          /\ Goto(r, "publish")
     ELSE /\ txn' = [txn EXCEPT ![r] = [Logged(r, "failed") EXCEPT !.errors = @ + 1,
                                                                   !.plat = NextPlat(r)]]
          /\ Goto(r, PairLabel(r))
  /\ NoFault
  /\ UNCHANGED <<tables, runLog, delivered, raw, todo, claim, counts>>

PersistUnstamped(r) ==
  /\ jobs' = jobs \cup {txn[r].hash}
  /\ plog' = [plog EXCEPT ![txn[r].hash] = txn[r].log]
  /\ UNCHANGED postedAt
Persist(r) ==
  /\ jobs' = jobs \cup {txn[r].hash}
  /\ postedAt' = IF txn[r].stamp THEN postedAt \cup {txn[r].hash} ELSE postedAt
  /\ plog' = [plog EXCEPT ![txn[r].hash] = txn[r].log]

PostedAlways(r) == 1
Posted(r) == IF txn[r].postedAny THEN 1 ELSE 0

Commit(r) ==
  /\ At(r, "commit")
  /\ Persist(r) /\ DropClaim(r)
  /\ counts' = [counts EXCEPT ![r].posted = @ + Posted(r),
                              ![r].errors = @ + txn[r].errors]
  /\ EndJob(r) /\ NoFault
  /\ UNCHANGED <<runLog, delivered, raw, todo>>

(* The commit raises; it may have been applied all the same.               *)
CommitFails(r) ==
  /\ At(r, "commit") /\ Fault
  /\ Persist(r) \/ UNCHANGED tables
  /\ DropClaim(r) /\ Goto(r, "rollback")
  /\ UNCHANGED <<runLog, delivered, raw, todo, txn, counts>>

(* except Exception: roll back, count one error more, go on.               *)
Rollback(r) ==
  /\ At(r, "rollback")
  /\ AddErrors(r, txn[r].errors + 1)
  /\ DropClaim(r) /\ EndJob(r) /\ NoFault
  /\ UNCHANGED <<tables, runLog, delivered, raw, todo>>

(* The rollback raises on a lost connection: the exception leaves          *)
(* _process_job with its error count, and the whole run fails.             *)
RollbackFails(r) ==
  /\ At(r, "rollback") /\ Fault
  /\ DropClaim(r)
  /\ AddErrors(r, 1) /\ Goto(r, "record")
  /\ UNCHANGED <<tables, runLog, delivered, raw, todo, txn>>

-----------------------------------------------------------------------------
(* The end of pipeline_run, and the end of the process.                    *)

Finalise(r) ==
  /\ At(r, "finalise")
  /\ FinishRow(r, counts[r])
  /\ Goto(r, "idle") /\ Forget(r) /\ NoFault
  /\ UNCHANGED <<tables, delivered, claim>>

FinaliseFails(r) ==
  /\ At(r, "finalise") /\ Fault
  /\ FinishRow(r, counts[r]) \/ UNCHANGED runLog
  /\ AddErrors(r, 1) /\ Goto(r, "record")
  /\ UNCHANGED <<tables, delivered, raw, todo, claim, txn>>

RecordRunFailure(r) ==
  /\ At(r, "record")
  /\ FinishRow(r, counts[r])
  /\ Goto(r, "idle") /\ Forget(r) /\ NoFault
  /\ UNCHANGED <<tables, delivered, claim>>

(* _record_run_failure swallows its own exception, applied or not.         *)
RecordRunFailureFails(r) ==
  /\ At(r, "record") /\ Fault
  /\ FinishRow(r, counts[r]) \/ UNCHANGED runLog
  /\ Goto(r, "idle") /\ Forget(r)
  /\ UNCHANGED <<tables, delivered, claim>>

(* The process is killed, or its run is cancelled by the shutdown of the   *)
(* scheduler (CancelledError is no Exception): nothing is recorded and the *)
(* server drops the open transaction.  A later StartRun is the restart.    *)
Crash(r) ==
  /\ ~At(r, "idle") /\ Fault
  /\ DropClaim(r)
  /\ Goto(r, "idle") /\ Forget(r)
  /\ UNCHANGED <<tables, runLog, delivered>>

-----------------------------------------------------------------------------
Step(r) ==
  \/ Ingest(r) \/ RunPipeline(r)
  \/ InsertJob(r) \/ InsertRejected(r) \/ FormatAndInsertPost(r)
  \/ Publish(r) \/ PublishRefused(r) \/ PublishLate(r)
  \/ LogSuccess(r) \/ MarkJobPosted(r) \/ LogFailure(r)
  \/ Commit(r) \/ Rollback(r) \/ Finalise(r) \/ RecordRunFailure(r)

Failure(r) ==
  \/ StartRunFails(r) \/ RunPipelineFails(r)
  \/ InsertFails(r) \/ FormatFails(r) \/ StatementFails(r) \/ PublishAnswerLost(r)
  \/ ConnectionLost(r) \/ CommitFails(r) \/ RollbackFails(r)
  \/ FinaliseFails(r) \/ RecordRunFailureFails(r) \/ Crash(r)

(* The bound on runs is reached; the system itself goes on for ever.       *)
AllRunsDone == (\A r \in Runner : At(r, "idle") /\ ~MayStart(r)) /\ UNCHANGED vars

Next == (\E r \in Runner : StartRun(r) \/ Step(r) \/ Failure(r)) \/ AllRunsDone

Spec == Init /\ [][Next]_vars

(* Every call a run awaits returns or raises in the end, and the interval  *)
(* trigger or the cron schedule starts the next run.                       *)
FairSpec == Spec /\ \A r \in Runner : WF_vars(Step(r)) /\ WF_vars(StartRun(r))
-----------------------------------------------------------------------------
Counts == [ingested: Nat, new: Nat, posted: Nat, errors: Nat]
Txn == [hash: Hash \cup {NoHash}, plat: Platform, attempt: 1..MaxRetries,
        log: [Platform -> Seq(Status)], stamp: BOOLEAN, postedAny: BOOLEAN, errors: Nat]
Row == [finished: BOOLEAN, counts: Counts]
Label == {"idle", "ingest", "select", "insert", "format", "publish", "late", "log", "mark",
          "logfail", "commit", "rollback", "finalise", "record"}

TypeOK ==
  /\ jobs \subseteq Hash /\ postedAt \subseteq Hash
  /\ plog \in [Hash -> [Platform -> Seq(Status)]]
  /\ runLog \in [Runner -> Seq(Row)]
  /\ delivered \in [Hash -> [Platform -> Nat]]
  /\ faults \in Nat
  /\ pc \in [Runner -> Label]
  /\ raw \in [Runner -> Seq(Listing)]
  /\ todo \in [Runner -> SUBSET Nat] /\ \A r \in Runner : todo[r] \subseteq DOMAIN raw[r]
  /\ claim \in [Runner -> Hash \cup {NoHash}]
  /\ txn \in [Runner -> Txn]
  /\ counts \in [Runner -> Counts]

(* _process_job between the flush of its INSERT and its commit, with the   *)
(* transaction of that INSERT open on the server.  A runner whose          *)
(* connection was lost meanwhile has no transaction left, but it is still  *)
(* in publish_with_retry and posts once more.                              *)
Working(r) == pc[r] \in {"format", "publish", "log", "mark", "logfail", "commit"}
Evicted == {r \in Runner : At(r, "late")}
Publishers(h) == {r \in Runner : (Working(r) \/ r \in Evicted) /\ txn[r].hash = h}

(* The dedup select of a run is stale when the run inserts: two runners    *)
(* may have selected the same job.  Still, of the runners whose insert     *)
(* stands, one at a time publishes it, and none once it is in the table.   *)
(* Only evicted runners publish it beside them, or after it was stored,    *)
(* and each of those cost a fault: without a fault, nobody does.           *)
OnePublisherPerJob ==
  \A h \in Hash :
    LET free == IF h \in jobs THEN 0 ELSE 1
    IN  /\ Cardinality(Publishers(h) \ Evicted) <= free
        /\ Cardinality(Publishers(h)) <= free + faults

(* A job goes out once per platform, and once more at most for every fault *)
(* of whatever kind; the retries and the second runner cost nothing.       *)
DuplicatesCostFaults ==
  \A h \in Hash, p \in Platform : delivered[h][p] <= 1 + faults

(* A success in publish_log is a post that is out on that platform, also   *)
(* after rollbacks, retries and crashes of either runner.                  *)
LoggedSuccessWasDelivered ==
  \A h \in Hash, p \in Platform :
    Contains(plog[h][p], "success") => delivered[h][p] > 0

(* jobs.posted_at is set exactly on the stored jobs with a success in      *)
(* publish_log: the admin's posted list and its log never disagree.        *)
StampMatchesLog ==
  \A h \in Hash :
    h \in postedAt <=> h \in jobs /\ \E p \in Platform : Contains(plog[h][p], "success")

(* A stored job was tried on every platform; its attempts there all failed *)
(* but possibly the last, and stop only at a success or at max_retries.    *)
AttemptsRunToTheEnd ==
  \A h \in jobs, p \in Platform :
    LET s == plog[h][p]
    IN  /\ Len(s) \in 1..MaxRetries
        /\ \A i \in 1..(Len(s) - 1) : s[i] = "failed"
        /\ s[Len(s)] = "failed" => Len(s) = MaxRetries

(* jobs_posted over all rows never exceeds the jobs stamped as posted;     *)
(* with no fault, when no run is active, the two are equal and every post  *)
(* given up by its publisher is one of the errors.  Sum(S, n) adds n[x]    *)
(* over S: it counts n[x] marks for each x.                                *)
Rows == UNION {{<<r, i>> : i \in DOMAIN runLog[r]} : r \in Runner}
Sum(S, n) == Cardinality(UNION {{x} \X (1..n[x]) : x \in S})
Total(field) == Sum(Rows, [x \in Rows |-> runLog[x[1]][x[2]].counts[field]])
GivenUp == {x \in jobs \X Platform : ~Contains(plog[x[1]][x[2]], "success")}
RunLogMatchesJobs ==
  /\ Total("posted") <= Cardinality(postedAt)
  /\ faults = 0 /\ (\A r \in Runner : At(r, "idle")) =>
       Total("posted") = Cardinality(postedAt) /\ Total("errors") >= Cardinality(GivenUp)

(* A row without finished_at belongs to a run that is active or that a     *)
(* fault ended: each fault leaves one such row at most.                    *)
Unfinished == {x \in Rows : ~runLog[x[1]][x[2]].finished}
InterruptedRunsNeedFaults ==
  Cardinality(Unfinished) <= faults + Cardinality({r \in Runner : ~At(r, "idle")})

(* What is stored about a job is final, and once it is stored nobody posts *)
(* it again, but for the one attempt that a runner which lost its          *)
(* transaction was already making.                                         *)
PersistedIsFinal ==
  [][\A h \in jobs :
       /\ h \in jobs' /\ plog'[h] = plog[h] /\ (h \in postedAt' <=> h \in postedAt)
       /\ delivered'[h] # delivered[h] =>
            \E r \in Runner : pc[r] = "late" /\ txn[r].hash = h]_vars

(* A finished row stays finished, and only its error count may still grow. *)
FinishedRowsStand ==
  [][\A r \in Runner : \A i \in DOMAIN runLog[r] :
       runLog[r][i].finished =>
         /\ i \in DOMAIN runLog'[r] /\ runLog'[r][i].finished
         /\ runLog'[r][i].counts.errors >= runLog[r][i].counts.errors
         /\ runLog'[r][i].counts.posted = runLog[r][i].counts.posted]_vars

-----------------------------------------------------------------------------
(* What makes the invariants above inductive.                              *)

(* The claim of a runner is on the job it works on; it keeps it, through   *)
(* the handler, until the rollback; it is on no stored job, and no other   *)
(* runner's.  Before a run has selected, it has nothing to post.           *)
ClaimInv ==
  /\ \A r \in Runner : pc[r] \in {"idle", "ingest"} => todo[r] = {}
  /\ \A r \in Runner : Working(r) => claim[r] = txn[r].hash
  /\ \A r \in Runner : Working(r) \/ At(r, "late") => txn[r].hash \in Hash
  /\ \A r \in Runner :
       claim[r] # NoHash => claim[r] \notin jobs /\ (Working(r) \/ At(r, "rollback"))
  /\ \A r, q \in Runner : claim[r] = claim[q] /\ claim[r] # NoHash => r = q

(* The open transaction of r has a post of its job on platform p.          *)
Sent(r, p) ==
  /\ Working(r)
  /\ \/ p < txn[r].plat
     \/ p = txn[r].plat /\ pc[r] \in {"log", "mark", "commit"}

(* An evicted runner is about to post job h on platform p.                 *)
Straggler(h, p) == {r \in Runner : At(r, "late") /\ txn[r].hash = h /\ txn[r].plat = p}

Owed(h, p) == IF h \in jobs \/ \E r \in Runner : txn[r].hash = h /\ Sent(r, p) THEN 1 ELSE 0

(* Every post beyond the one a job is entitled to, and every one that an   *)
(* evicted runner may still make, is paid for by a fault of its own.       *)
DeliveryInv ==
  \A h \in Hash, p \in Platform :
    delivered[h][p] + Cardinality(Straggler(h, p)) <= faults + Owed(h, p)

(* The log of an open transaction is as truthful as the table's, and is    *)
(* reflected in its stamp.                                                 *)
Succeeded(r, p) == Contains(txn[r].log[p], "success")
TruthfulLog(r) ==
  /\ \A p \in Platform : Succeeded(r, p) =>
       /\ delivered[txn[r].hash][p] > 0
       /\ txn[r].stamp \/ (pc[r] = "mark" /\ p = txn[r].plat)
  /\ txn[r].stamp => \E p \in Platform : Succeeded(r, p)
  /\ pc[r] \in {"log", "mark"} => delivered[txn[r].hash][txn[r].plat] > 0
  /\ pc[r] = "mark" => Succeeded(r, txn[r].plat)
LogInv == \A r \in Runner : Working(r) => TruthfulLog(r)

-----------------------------------------------------------------------------
(* The runs implement the ledger of jobs: a job is owned by the runner      *)
(* whose open transaction has inserted it.                                 *)
owners == [h \in Hash |-> {q \in Runner : claim[q] = h}]
late == [q \in Runner |-> IF pc[q] = "late" THEN txn[q].hash ELSE NoHash]
Ledger == INSTANCE JobLedger WITH stored <- jobs
ImplementsLedger == Ledger!Spec

(* Every run ends: the wait for another runner's hash is no deadlock, as a *)
(* waiting runner holds no hash itself.                                    *)
RunsEnd == \A r \in Runner : ~At(r, "idle") ~> At(r, "idle")
=============================================================================
