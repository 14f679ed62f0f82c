--------------------------- MODULE PipelineRun_proofs ---------------------------
(***************************************************************************)
(* Theorems about PipelineRun, for any runners, jobs, batches, platforms,  *)
(* retries and faults.                                                     *)
(***************************************************************************)
EXTENDS PipelineRun, FiniteSetTheorems, SequenceTheorems, TLAPS

-----------------------------------------------------------------------------
(* The pieces of state have their types before a run is even started.      *)
LEMMA NewTxnType ==
  ASSUME NEW h \in Hash \cup {NoHash}
  PROVE  NewTxn(h) \in Txn
BY PipelineRunAssumption DEF NewTxn, Txn, Platform, Status

LEMMA NoCountsType == NoCounts \in Counts
BY DEF NoCounts, Counts

LEMMA RunRowType ==
  ASSUME NEW finished \in BOOLEAN, NEW n \in Counts
  PROVE  RunRow(finished, n) \in Row
BY DEF RunRow, Row

(* How many listings of a batch pass is a number.                          *)
LEMMA PassingIsFinite ==
  ASSUME NEW batch \in Seq(Listing), NEW S
  PROVE  /\ Passing(batch, S) \subseteq DOMAIN batch
         /\ ToPost(batch, S) \subseteq Passing(batch, S)
         /\ Cardinality(Passing(batch, S)) \in Nat
<1>1. Passing(batch, S) \subseteq 1..Len(batch)
  BY DEF Passing, CleanJobs, NewJobs
<1>2. IsFiniteSet(1..Len(batch))
  BY FS_Interval
<1>3. IsFiniteSet(Passing(batch, S))
  BY <1>1, <1>2, FS_Subset
<1> QED
  BY <1>1, <1>3, FS_CardinalityType DEF ToPost

(* A row of run_log is replaced by a row, and a new one is added after the *)
(* others.                                                                 *)
LEMMA FinishRowType ==
  ASSUME runLog \in [Runner -> Seq(Row)], NEW r \in Runner, NEW n \in Counts, FinishRow(r, n)
  PROVE  runLog' \in [Runner -> Seq(Row)]
<1>1. RunRow(TRUE, n) \in Row
  BY RunRowType
<1>2. [runLog[r] EXCEPT ![Len(runLog[r])] = RunRow(TRUE, n)] \in Seq(Row)
  <2>1. CASE Len(runLog[r]) \in 1..Len(runLog[r])
    BY <1>1, <2>1, ExceptSeq
  <2>2. CASE Len(runLog[r]) \notin 1..Len(runLog[r])
    <3>1. runLog[r] \in [1..Len(runLog[r]) -> Row]
      BY LenProperties
    <3>2. [runLog[r] EXCEPT ![Len(runLog[r])] = RunRow(TRUE, n)] = runLog[r]
      BY <2>2, <3>1
    <3> QED
      BY <3>2
  <2> QED
    BY <2>1, <2>2
<1> QED
  BY <1>2 DEF FinishRow

LEMMA NewRunRowType ==
  ASSUME runLog \in [Runner -> Seq(Row)], NEW r \in Runner
  PROVE  NewRunRow(r) \in [Runner -> Seq(Row)]
<1>1. RunRow(FALSE, NoCounts) \in Row
  BY RunRowType, NoCountsType
<1>2. Append(runLog[r], RunRow(FALSE, NoCounts)) \in Seq(Row)
  BY <1>1, AppendProperties
<1> QED
  BY <1>2 DEF NewRunRow
(* One field of a run's counts changes.                                    *)
LEMMA CountsType ==
  ASSUME NEW c \in [Runner -> Counts], NEW r \in Runner, NEW n \in Nat
  PROVE  /\ [c EXCEPT ![r].errors = @ + n] \in [Runner -> Counts]
         /\ [c EXCEPT ![r].ingested = n] \in [Runner -> Counts]
         /\ [c EXCEPT ![r].new = n] \in [Runner -> Counts]
         /\ [c EXCEPT ![r].posted = @ + n] \in [Runner -> Counts]
<1>1. [c EXCEPT ![r].errors = @ + n] \in [Runner -> Counts]
  BY DEF Counts
<1>2. [c EXCEPT ![r].ingested = n] \in [Runner -> Counts]
  BY DEF Counts
<1>3. [c EXCEPT ![r].new = n] \in [Runner -> Counts]
  BY DEF Counts
<1>4. [c EXCEPT ![r].posted = @ + n] \in [Runner -> Counts]
  BY DEF Counts
<1> QED
  BY <1>1, <1>2, <1>3, <1>4

LEMMA DeliverType ==
  ASSUME delivered \in [Hash -> [Platform -> Nat]], txn \in [Runner -> Txn],
         NEW r \in Runner, txn[r].hash \in Hash, Deliver(r)
  PROVE  delivered' \in [Hash -> [Platform -> Nat]]
<1>1. txn[r].plat \in Platform
  BY DEF Txn
<1> QED
  BY <1>1 DEF Deliver

(* A line is added to the log of an open transaction, and nothing else in  *)
(* it changes.                                                             *)
LEMMA LogType ==
  ASSUME txn \in [Runner -> Txn], NEW r \in Runner, NEW s \in Status
  PROVE  Logged(r, s) \in Txn
<1> DEFINE t == txn[r]
<1>1. t \in Txn /\ t.plat \in Platform /\ t.log[t.plat] \in Seq(Status)
  BY DEF Txn
<1>2. Append(t.log[t.plat], s) \in Seq(Status)
  BY <1>1, AppendProperties
<1>3. [t.log EXCEPT ![t.plat] = Append(@, s)] \in [Platform -> Seq(Status)]
  BY <1>1, <1>2 DEF Txn
<1> HIDE DEF t
<1>4. [t EXCEPT !.log = [t.log EXCEPT ![t.plat] = Append(@, s)]] \in Txn
  BY <1>1, <1>3 DEF Txn
<1> QED
  BY <1>4 DEF Logged, t

LEMMA LogKeeps ==
  ASSUME txn \in [Runner -> Txn], NEW r \in Runner, NEW s
  PROVE  /\ Logged(r, s).attempt = txn[r].attempt
         /\ Logged(r, s).errors = txn[r].errors
         /\ Logged(r, s).plat = txn[r].plat
         /\ Logged(r, s).hash = txn[r].hash
         /\ Logged(r, s).stamp = txn[r].stamp
         /\ Logged(r, s).log = [txn[r].log EXCEPT ![txn[r].plat] = Append(@, s)]
<1> DEFINE t == txn[r]
<1>1. t \in Txn
  OBVIOUS
<1> HIDE DEF t
<1>2. LET u == [t EXCEPT !.log[t.plat] = Append(@, s)]
      IN  /\ u.attempt = t.attempt /\ u.errors = t.errors /\ u.plat = t.plat
          /\ u.hash = t.hash /\ u.stamp = t.stamp
          /\ u.log = [t.log EXCEPT ![t.plat] = Append(@, s)]
  BY <1>1 DEF Txn
<1> QED
  BY <1>2 DEF Logged, t

LEMMA AttemptType ==
  ASSUME NEW t \in Txn, NEW n \in 1..MaxRetries
  PROVE  [t EXCEPT !.attempt = n] \in Txn
BY DEF Txn

LEMMA MarkType ==
  ASSUME NEW t \in Txn, NEW p \in Platform
  PROVE  [t EXCEPT !.stamp = TRUE, !.postedAny = TRUE, !.plat = p] \in Txn
<1>1. [t EXCEPT !.stamp = TRUE] \in Txn
  BY DEF Txn
<1>2. ASSUME NEW u \in Txn PROVE [u EXCEPT !.postedAny = TRUE, !.plat = p] \in Txn
  BY DEF Txn
<1>3. [[t EXCEPT !.stamp = TRUE] EXCEPT !.postedAny = TRUE, !.plat = p] \in Txn
  BY <1>1, <1>2
<1> QED
  BY <1>3

LEMMA GiveUpType ==
  ASSUME NEW t \in Txn, NEW p \in Platform
  PROVE  [t EXCEPT !.errors = @ + 1, !.plat = p] \in Txn
<1>1. [t EXCEPT !.errors = @ + 1] \in Txn
  <2>1. t.errors + 1 \in Nat
    BY DEF Txn
  <2>2. ASSUME NEW n \in Nat PROVE [t EXCEPT !.errors = n] \in Txn
    BY DEF Txn
  <2> QED
    BY <2>1, <2>2
<1>2. ASSUME NEW u \in Txn PROVE [u EXCEPT !.plat = p] \in Txn
  BY DEF Txn
<1>3. [[t EXCEPT !.errors = @ + 1] EXCEPT !.plat = p] \in Txn
  BY <1>1, <1>2
<1> QED
  BY <1>3

(* What LogFailure leaves of the open transaction's record.                *)
LEMMA LogFailureKeeps ==
  ASSUME txn \in [Runner -> Txn], NEW r \in Runner, LogFailure(r)
  PROVE  /\ txn'[r].hash = txn[r].hash
         /\ txn'[r].stamp = txn[r].stamp
         /\ txn'[r].log = [txn[r].log EXCEPT ![txn[r].plat] = Append(@, "failed")]
         /\ txn'[r].plat \in {txn[r].plat, NextPlat(r)}
         /\ \A q \in Runner \ {r} : txn'[q] = txn[q]
<1> DEFINE t == Logged(r, "failed")
<1>1. t \in Txn
  BY LogType DEF Status
<1>2. /\ t.hash = txn[r].hash /\ t.stamp = txn[r].stamp /\ t.plat = txn[r].plat
      /\ t.log = [txn[r].log EXCEPT ![txn[r].plat] = Append(@, "failed")]
  BY LogKeeps
<1>3. /\ \/ txn'[r] = [t EXCEPT !.attempt = @ + 1]
         \/ txn'[r] = [t EXCEPT !.errors = @ + 1, !.plat = NextPlat(r)]
      /\ \A q \in Runner \ {r} : txn'[q] = txn[q]
  BY DEF LogFailure
<1> HIDE DEF t
<1>4. /\ txn'[r].hash = t.hash /\ txn'[r].stamp = t.stamp /\ txn'[r].log = t.log
      /\ txn'[r].plat \in {t.plat, NextPlat(r)}
  BY <1>1, <1>3 DEF Txn
<1> QED
  BY <1>2, <1>3, <1>4

LEMMA NextPlatType ==
  ASSUME txn \in [Runner -> Txn], NEW r \in Runner
  PROVE  NextPlat(r) \in Platform /\ PairLabel(r) \in Label
<1>1. txn[r].plat \in Platform
  BY DEF Txn
<1> QED
  BY <1>1, PipelineRunAssumption DEF NextPlat, PairLabel, Platform, Label

-----------------------------------------------------------------------------
LEMMA InitType == Init => TypeOK
<1> SUFFICES ASSUME Init PROVE TypeOK
  OBVIOUS
<1>1. NewTxn(NoHash) \in Txn
  BY NewTxnType
<1>2. << >> \in Seq(Status) /\ << >> \in Seq(Row) /\ << >> \in Seq(Listing)
  BY EmptySeq
<1> QED
  BY <1>1, <1>2, NoCountsType DEF Init, TypeOK, Label

(* The local state a run gives up when it ends.                            *)
LEMMA ForgetType ==
  ASSUME TypeOK, NEW r \in Runner, Forget(r)
  PROVE  /\ raw' \in [Runner -> Seq(Listing)]
         /\ todo' \in [Runner -> SUBSET Nat] /\ \A q \in Runner : todo'[q] \subseteq DOMAIN raw'[q]
         /\ txn' \in [Runner -> Txn]
         /\ counts' \in [Runner -> Counts]
<1>1. NewTxn(NoHash) \in Txn
  BY NewTxnType
<1>2. << >> \in Seq(Listing)
  BY EmptySeq
<1> QED
  BY <1>1, <1>2, NoCountsType DEF TypeOK, Forget

(* No step does anything to the count of faults but leave it or add one.   *)
LEMMA FaultsStep ==
  ASSUME faults \in Nat, [Next]_vars
  PROVE  faults' = faults \/ faults' = faults + 1
<1> USE DEF Fault, NoFault
<1>1. ASSUME NEW r \in Runner, StartRun(r) \/ Step(r) PROVE faults' = faults
  BY <1>1
  DEF Step, StartRun, Ingest, RunPipeline, InsertJob, InsertRejected, FormatAndInsertPost,
      Publish, PublishRefused, PublishLate, LogSuccess, MarkJobPosted, LogFailure, Commit,
      Rollback, Finalise, RecordRunFailure
<1>2. ASSUME NEW r \in Runner, Failure(r) PROVE faults' = faults + 1
  BY <1>2
  DEF Failure, StartRunFails, RunPipelineFails, InsertFails, FormatFails, StatementFails,
      PublishAnswerLost, ConnectionLost, CommitFails, RollbackFails, FinaliseFails,
      RecordRunFailureFails, Crash
<1> QED
  BY <1>1, <1>2 DEF Next, AllRunsDone, vars

LEMMA TypeStep ==
  ASSUME TypeOK, ClaimInv, [Next]_vars
  PROVE  TypeOK'
<1> USE DEF TypeOK, Goto, At, NoFault, Fault, tables
<1>0. faults' \in Nat
  BY FaultsStep
<1>1. CASE UNCHANGED vars
  BY <1>1 DEF vars
<1>2. CASE AllRunsDone
  BY <1>2 DEF AllRunsDone, vars
<1>3. ASSUME NEW r \in Runner, StartRun(r) PROVE TypeOK'
  BY <1>0, <1>3, NewRunRowType DEF StartRun, Label
<1>4. ASSUME NEW r \in Runner, StartRunFails(r) PROVE TypeOK'
  BY <1>0, <1>4, NewRunRowType DEF StartRunFails
<1>5. ASSUME NEW r \in Runner, Ingest(r) PROVE TypeOK'
  <2>1. PICK batch \in Batches :
          /\ raw' = [raw EXCEPT ![r] = batch]
          /\ counts' = [counts EXCEPT ![r].ingested = Len(batch)]
    BY <1>5 DEF Ingest
  <2>2. batch \in Seq(Listing) /\ Len(batch) \in Nat
    BY PipelineRunAssumption
  <2>3. counts' \in [Runner -> Counts]
    BY <2>1, <2>2, CountsType
  <2>4. raw' \in [Runner -> Seq(Listing)]
    BY <2>1, <2>2
  <2>5. \A q \in Runner : todo'[q] \subseteq DOMAIN raw'[q]
    BY <1>5, <2>1 DEF Ingest, ClaimInv
  <2> QED
    BY <1>0, <1>5, <2>3, <2>4, <2>5 DEF Ingest, Label
<1>6. ASSUME NEW r \in Runner, RunPipeline(r) PROVE TypeOK'
  <2>1. /\ ToPost(raw[r], jobs) \subseteq DOMAIN raw[r]
        /\ Cardinality(Passing(raw[r], jobs)) \in Nat
    BY PassingIsFinite
  <2>2. DOMAIN raw[r] \subseteq Nat
    OBVIOUS
  <2>3. /\ todo' \in [Runner -> SUBSET Nat]
        /\ \A q \in Runner : todo'[q] \subseteq DOMAIN raw'[q]
    BY <1>6, <2>1, <2>2 DEF RunPipeline
  <2>4. counts' \in [Runner -> Counts]
    BY <1>6, <2>1, CountsType DEF RunPipeline
  <2>5. LoopLabel(ToPost(raw[r], jobs)) \in Label
    BY DEF LoopLabel, Label
  <2> QED
    BY <1>0, <1>6, <2>3, <2>4, <2>5 DEF RunPipeline
<1>7. ASSUME NEW r \in Runner, RunPipelineFails(r) PROVE TypeOK'
  BY <1>0, <1>7, CountsType DEF RunPipelineFails, AddErrors, Label
<1>8. ASSUME NEW r \in Runner, InsertJob(r) PROVE TypeOK'
  <2>1. PICK i \in todo[r] :
          /\ claim' = [claim EXCEPT ![r] = HashAt(raw[r], i)]
          /\ todo' = [todo EXCEPT ![r] = @ \ {i}]
          /\ txn' = [txn EXCEPT ![r] = NewTxn(HashAt(raw[r], i))]
    BY <1>8 DEF InsertJob
  <2>2. HashAt(raw[r], i) \in Hash
    BY PipelineAssumption DEF HashAt
  <2>3. NewTxn(HashAt(raw[r], i)) \in Txn
    BY <2>2, NewTxnType
  <2> QED
    BY <1>0, <1>8, <2>1, <2>2, <2>3 DEF InsertJob, Label
<1>9. ASSUME NEW r \in Runner, InsertRejected(r) PROVE TypeOK'
  BY <1>0, <1>9 DEF InsertRejected, Label
<1>10. ASSUME NEW r \in Runner, InsertFails(r) PROVE TypeOK'
  BY <1>0, <1>10 DEF InsertFails, Label
<1>11. ASSUME NEW r \in Runner, FormatAndInsertPost(r) PROVE TypeOK'
  <2>1. [txn[r] EXCEPT !.attempt = 1] \in Txn
    <3>1. txn[r] \in Txn /\ 1 \in 1..MaxRetries
      BY PipelineRunAssumption
    <3> QED
      BY <3>1, AttemptType
  <2> QED
    BY <1>0, <1>11, <2>1 DEF FormatAndInsertPost, Label
<1>12. ASSUME NEW r \in Runner, FormatFails(r) PROVE TypeOK'
  BY <1>0, <1>12 DEF FormatFails, Label
<1>13. ASSUME NEW r \in Runner, StatementFails(r) PROVE TypeOK'
  BY <1>0, <1>13 DEF StatementFails, DropClaim, Label
<1>14. ASSUME NEW r \in Runner, Publish(r) PROVE TypeOK'
  <2>1. txn[r].hash \in Hash
    BY <1>14 DEF Publish, ClaimInv, Working
  <2>2. delivered' \in [Hash -> [Platform -> Nat]]
    BY <1>14, <2>1, DeliverType DEF Publish
  <2> QED
    BY <1>0, <1>14, <2>2 DEF Publish, Label
<1>15. ASSUME NEW r \in Runner, PublishRefused(r) PROVE TypeOK'
  BY <1>0, <1>15 DEF PublishRefused, Label
<1>16. ASSUME NEW r \in Runner, PublishAnswerLost(r) PROVE TypeOK'
  <2>1. txn[r].hash \in Hash
    BY <1>16 DEF PublishAnswerLost, ClaimInv, Working
  <2>2. delivered' \in [Hash -> [Platform -> Nat]]
    BY <1>16, <2>1, DeliverType DEF PublishAnswerLost
  <2> QED
    BY <1>0, <1>16, <2>2 DEF PublishAnswerLost, Label
<1>17. ASSUME NEW r \in Runner, ConnectionLost(r) PROVE TypeOK'
  BY <1>0, <1>17 DEF ConnectionLost, DropClaim, Label
<1>18. ASSUME NEW r \in Runner, PublishLate(r) PROVE TypeOK'
  <2>1. txn[r].hash \in Hash
    BY <1>18 DEF PublishLate, ClaimInv
  <2>2. delivered' \in [Hash -> [Platform -> Nat]]
    BY <1>18, <2>1, DeliverType DEF PublishLate
  <2> QED
    BY <1>0, <1>18, <2>2 DEF PublishLate, Label
<1>19. ASSUME NEW r \in Runner, LogSuccess(r) PROVE TypeOK'
  <2>1. Logged(r, "success") \in Txn
    BY LogType DEF Status
  <2>2. txn' \in [Runner -> Txn]
    BY <1>19, <2>1 DEF LogSuccess
  <2> QED
    BY <1>0, <1>19, <2>2 DEF LogSuccess, Label
<1>20. ASSUME NEW r \in Runner, MarkJobPosted(r) PROVE TypeOK'
  <2>1. NextPlat(r) \in Platform /\ PairLabel(r) \in Label
    BY NextPlatType
  <2>2. [txn[r] EXCEPT !.stamp = TRUE, !.postedAny = TRUE, !.plat = NextPlat(r)] \in Txn
    <3>1. txn[r] \in Txn
      OBVIOUS
    <3> QED
      BY <2>1, <3>1, MarkType
  <2>3. txn' \in [Runner -> Txn]
    BY <1>20, <2>2 DEF MarkJobPosted
  <2> QED
    BY <1>0, <1>20, <2>1, <2>3 DEF MarkJobPosted
<1>21. ASSUME NEW r \in Runner, LogFailure(r) PROVE TypeOK'
  <2> DEFINE logged == Logged(r, "failed")
  <2>1. NextPlat(r) \in Platform /\ PairLabel(r) \in Label
    BY NextPlatType
  <2>2. logged \in Txn
    BY LogType DEF Status
  <2>3. CASE RetriesLeft(r)
    <3>1. logged.attempt + 1 \in 1..MaxRetries
      <4>1. txn[r].attempt \in 1..MaxRetries /\ txn[r].attempt < MaxRetries
        BY <2>3 DEF RetriesLeft, Txn
      <4>2. logged.attempt = txn[r].attempt
        BY LogKeeps
      <4> QED
        BY <4>1, <4>2, PipelineRunAssumption
    <3>2. [logged EXCEPT !.attempt = logged.attempt + 1] \in Txn
      <4> HIDE DEF logged
      <4> QED
        BY <2>2, <3>1, AttemptType
    <3>3. txn' \in [Runner -> Txn]
      BY <1>21, <2>3, <3>2 DEF LogFailure
    <3> QED
      BY <1>0, <1>21, <2>3, <3>3 DEF LogFailure, Label
  <2>4. CASE ~RetriesLeft(r)
    <3>1. [logged EXCEPT !.errors = @ + 1, !.plat = NextPlat(r)] \in Txn
      <4> HIDE DEF logged
      <4> QED
        BY <2>1, <2>2, GiveUpType
    <3>2. txn' = [txn EXCEPT ![r] = [logged EXCEPT !.errors = @ + 1, !.plat = NextPlat(r)]]
      BY <1>21, <2>4 DEF LogFailure
    <3>3. pc' = [pc EXCEPT ![r] = PairLabel(r)]
      BY <1>21, <2>4 DEF LogFailure
    <3>4. txn' \in [Runner -> Txn] /\ pc' \in [Runner -> Label]
      BY <2>1, <3>1, <3>2, <3>3
    <3> QED
      BY <1>0, <1>21, <3>4 DEF LogFailure
  <2> QED
    BY <2>3, <2>4
<1>22. ASSUME NEW r \in Runner, Commit(r) PROVE TypeOK'
  <2>1. txn[r].hash \in Hash
    BY <1>22 DEF Commit, ClaimInv, Working
  <2>2. NewTxn(NoHash) \in Txn
    BY NewTxnType
  <2>3. txn[r].errors \in Nat /\ Posted(r) \in Nat /\ txn[r].log \in [Platform -> Seq(Status)]
    BY DEF Txn, Posted
  <2>4. counts' \in [Runner -> Counts]
    <3> DEFINE c == [counts EXCEPT ![r].posted = @ + Posted(r)]
    <3>1. c \in [Runner -> Counts]
      BY <2>3, CountsType
    <3>2. [c EXCEPT ![r].errors = @ + txn[r].errors] \in [Runner -> Counts]
      BY <2>3, <3>1, CountsType
    <3>3. counts' = [c EXCEPT ![r].errors = @ + txn[r].errors]
      BY <1>22 DEF Commit
    <3> QED
      BY <3>2, <3>3
  <2>5. LoopLabel(todo[r]) \in Label
    BY DEF LoopLabel, Label
  <2> QED
    BY <1>0, <1>22, <2>1, <2>2, <2>3, <2>4, <2>5 DEF Commit, Persist, DropClaim, EndJob
<1>23. ASSUME NEW r \in Runner, CommitFails(r) PROVE TypeOK'
  <2>1. txn[r].hash \in Hash
    BY <1>23 DEF CommitFails, ClaimInv, Working
  <2>2. txn[r].log \in [Platform -> Seq(Status)]
    BY DEF Txn
  <2> QED
    BY <1>0, <1>23, <2>1, <2>2 DEF CommitFails, Persist, DropClaim, Label
<1>24. ASSUME NEW r \in Runner, Rollback(r) PROVE TypeOK'
  <2>1. NewTxn(NoHash) \in Txn
    BY NewTxnType
  <2>2. LoopLabel(todo[r]) \in Label
    BY DEF LoopLabel, Label
  <2>3. counts' \in [Runner -> Counts]
    <3>1. txn[r].errors + 1 \in Nat
      BY DEF Txn
    <3> QED
      BY <1>24, <3>1, CountsType DEF Rollback, AddErrors
  <2> QED
    BY <1>0, <1>24, <2>1, <2>2, <2>3 DEF Rollback, DropClaim, EndJob
<1>25. ASSUME NEW r \in Runner, RollbackFails(r) PROVE TypeOK'
  BY <1>0, <1>25, CountsType DEF RollbackFails, AddErrors, DropClaim, Label
<1>26. ASSUME NEW r \in Runner, Finalise(r) PROVE TypeOK'
  <2>1. runLog' \in [Runner -> Seq(Row)]
    BY <1>26, FinishRowType DEF Finalise
  <2> QED
    BY <1>0, <1>26, <2>1, ForgetType DEF Finalise, Label
<1>27. ASSUME NEW r \in Runner, FinaliseFails(r) PROVE TypeOK'
  <2>1. runLog' \in [Runner -> Seq(Row)]
    BY <1>27, FinishRowType DEF FinaliseFails
  <2> QED
    BY <1>0, <1>27, <2>1, CountsType DEF FinaliseFails, AddErrors, Label
<1>28. ASSUME NEW r \in Runner, RecordRunFailure(r) PROVE TypeOK'
  <2>1. runLog' \in [Runner -> Seq(Row)]
    BY <1>28, FinishRowType DEF RecordRunFailure
  <2> QED
    BY <1>0, <1>28, <2>1, ForgetType DEF RecordRunFailure, Label
<1>29. ASSUME NEW r \in Runner, RecordRunFailureFails(r) PROVE TypeOK'
  <2>1. runLog' \in [Runner -> Seq(Row)]
    BY <1>29, FinishRowType DEF RecordRunFailureFails
  <2> QED
    BY <1>0, <1>29, <2>1, ForgetType DEF RecordRunFailureFails, Label
<1>30. ASSUME NEW r \in Runner, Crash(r) PROVE TypeOK'
  BY <1>0, <1>30, ForgetType DEF Crash, DropClaim, Label
<1> QED
  BY <1>1, <1>2, <1>3, <1>4, <1>5, <1>6, <1>7, <1>8, <1>9, <1>10, <1>11, <1>12, <1>13,
     <1>14, <1>15, <1>16, <1>17, <1>18, <1>19, <1>20, <1>21, <1>22, <1>23, <1>24, <1>25,
     <1>26, <1>27, <1>28, <1>29, <1>30
  DEF Next, Step, Failure
(* The claims stay exclusive: an insert takes one only while nobody holds  *)
(* the hash, and whatever drops one also leaves the handler or the loop.   *)
LEMMA ClaimStep ==
  ASSUME TypeOK, ClaimInv, [Next]_vars
  PROVE  ClaimInv'
<1> USE DEF ClaimInv, Working, Goto, At, NoFault, Fault, tables, DropClaim
<1>0. /\ pc \in [Runner -> Label] /\ todo \in [Runner -> SUBSET Nat]
      /\ claim \in [Runner -> Hash \cup {NoHash}] /\ txn \in [Runner -> Txn] /\ jobs \subseteq Hash
  BY DEF TypeOK
<1>1. CASE UNCHANGED vars
  BY <1>1 DEF vars
<1>2. CASE AllRunsDone
  BY <1>2 DEF AllRunsDone, vars
<1>3. ASSUME NEW r \in Runner, StartRun(r) PROVE ClaimInv'
  BY <1>0, <1>3 DEF StartRun, MayStart
<1>4. ASSUME NEW r \in Runner, StartRunFails(r) PROVE ClaimInv'
  BY <1>0, <1>4 DEF StartRunFails, MayStart
<1>5. ASSUME NEW r \in Runner, Ingest(r) PROVE ClaimInv'
  BY <1>0, <1>5 DEF Ingest
<1>6. ASSUME NEW r \in Runner, RunPipeline(r) PROVE ClaimInv'
  BY <1>0, <1>6 DEF RunPipeline, LoopLabel
<1>7. ASSUME NEW r \in Runner, RunPipelineFails(r) PROVE ClaimInv'
  BY <1>0, <1>7 DEF RunPipelineFails
<1>8. ASSUME NEW r \in Runner, InsertJob(r) PROVE ClaimInv'
  <2>1. PICK i \in todo[r] :
          /\ HashFree(HashAt(raw[r], i)) /\ HashAt(raw[r], i) \notin jobs
          /\ claim' = [claim EXCEPT ![r] = HashAt(raw[r], i)]
          /\ todo' = [todo EXCEPT ![r] = @ \ {i}]
          /\ txn' = [txn EXCEPT ![r] = NewTxn(HashAt(raw[r], i))]
    BY <1>8 DEF InsertJob
  <2>2. HashAt(raw[r], i) \in Hash /\ HashAt(raw[r], i) # NoHash
    BY PipelineAssumption, PipelineRunAssumption DEF HashAt, TypeOK
  <2>3. NewTxn(HashAt(raw[r], i)).hash = HashAt(raw[r], i)
    BY DEF NewTxn
  <2> HIDE DEF Working
  <2> QED
    BY <1>0, <1>8, <2>1, <2>2, <2>3 DEF InsertJob, HashFree, Working
<1>9. ASSUME NEW r \in Runner, InsertRejected(r) PROVE ClaimInv'
  BY <1>0, <1>9 DEF InsertRejected
<1>10. ASSUME NEW r \in Runner, InsertFails(r) PROVE ClaimInv'
  BY <1>0, <1>10 DEF InsertFails
<1>11. ASSUME NEW r \in Runner, FormatAndInsertPost(r) PROVE ClaimInv'
  BY <1>0, <1>11 DEF FormatAndInsertPost, Txn
<1>12. ASSUME NEW r \in Runner, FormatFails(r) PROVE ClaimInv'
  BY <1>0, <1>12 DEF FormatFails
<1>13. ASSUME NEW r \in Runner, StatementFails(r) PROVE ClaimInv'
  BY <1>0, <1>13 DEF StatementFails
<1>14. ASSUME NEW r \in Runner, Publish(r) PROVE ClaimInv'
  BY <1>0, <1>14 DEF Publish
<1>15. ASSUME NEW r \in Runner, PublishRefused(r) PROVE ClaimInv'
  BY <1>0, <1>15 DEF PublishRefused
<1>16. ASSUME NEW r \in Runner, PublishAnswerLost(r) PROVE ClaimInv'
  BY <1>0, <1>16 DEF PublishAnswerLost
<1>17. ASSUME NEW r \in Runner, ConnectionLost(r) PROVE ClaimInv'
  BY <1>0, <1>17 DEF ConnectionLost
<1>18. ASSUME NEW r \in Runner, PublishLate(r) PROVE ClaimInv'
  BY <1>0, <1>18 DEF PublishLate
<1>19. ASSUME NEW r \in Runner, LogSuccess(r) PROVE ClaimInv'
  <2>1. txn' = [txn EXCEPT ![r] = Logged(r, "success")]
    BY <1>19 DEF LogSuccess
  <2>2. Logged(r, "success").hash = txn[r].hash
    BY <1>0, LogKeeps
  <2>3. \A q \in Runner : txn'[q].hash = txn[q].hash
    BY <1>0, <2>1, <2>2
  <2> QED
    BY <1>0, <1>19, <2>3 DEF LogSuccess
<1>20. ASSUME NEW r \in Runner, MarkJobPosted(r) PROVE ClaimInv'
  <2>1. \A q \in Runner : txn'[q].hash = txn[q].hash
    BY <1>0, <1>20 DEF MarkJobPosted, Txn
  <2>2. PairLabel(r) \in {"format", "commit"}
    BY DEF PairLabel
  <2> QED
    BY <1>0, <1>20, <2>1, <2>2 DEF MarkJobPosted
<1>21. ASSUME NEW r \in Runner, LogFailure(r) PROVE ClaimInv'
  <2>1. \A q \in Runner : txn'[q].hash = txn[q].hash
    BY <1>0, <1>21, LogFailureKeeps
  <2>2. pc'[r] \in {"publish", "format", "commit"} /\ \A q \in Runner \ {r} : pc'[q] = pc[q]
    BY <1>0, <1>21 DEF LogFailure, PairLabel
  <2> QED
    BY <1>0, <1>21, <2>1, <2>2 DEF LogFailure
<1>22. ASSUME NEW r \in Runner, Commit(r) PROVE ClaimInv'
  BY <1>0, <1>22 DEF Commit, EndJob, NewTxn, LoopLabel, Persist
<1>23. ASSUME NEW r \in Runner, CommitFails(r) PROVE ClaimInv'
  BY <1>0, <1>23 DEF CommitFails, Persist
<1>24. ASSUME NEW r \in Runner, Rollback(r) PROVE ClaimInv'
  BY <1>0, <1>24 DEF Rollback, EndJob, NewTxn, LoopLabel
<1>25. ASSUME NEW r \in Runner, RollbackFails(r) PROVE ClaimInv'
  BY <1>0, <1>25 DEF RollbackFails
<1>26. ASSUME NEW r \in Runner, Finalise(r) PROVE ClaimInv'
  BY <1>0, <1>26 DEF Finalise, Forget, NewTxn
<1>27. ASSUME NEW r \in Runner, FinaliseFails(r) PROVE ClaimInv'
  BY <1>0, <1>27 DEF FinaliseFails
<1>28. ASSUME NEW r \in Runner, RecordRunFailure(r) PROVE ClaimInv'
  BY <1>0, <1>28 DEF RecordRunFailure, Forget, NewTxn
<1>29. ASSUME NEW r \in Runner, RecordRunFailureFails(r) PROVE ClaimInv'
  BY <1>0, <1>29 DEF RecordRunFailureFails, Forget, NewTxn
<1>30. ASSUME NEW r \in Runner, Crash(r) PROVE ClaimInv'
  BY <1>0, <1>30 DEF Crash, Forget, NewTxn
<1> QED
  BY <1>1, <1>2, <1>3, <1>4, <1>5, <1>6, <1>7, <1>8, <1>9, <1>10, <1>11, <1>12, <1>13, <1>14, <1>15, <1>16, <1>17, <1>18, <1>19, <1>20, <1>21, <1>22, <1>23, <1>24, <1>25, <1>26, <1>27, <1>28, <1>29, <1>30
  DEF Next, Step, Failure

-----------------------------------------------------------------------------
LEMMA InitClaim == Init => ClaimInv
BY DEF Init, ClaimInv, Working, At

LEMMA ClaimsAreExclusive == Spec => [](TypeOK /\ ClaimInv)
<1>1. Init => TypeOK /\ ClaimInv
  BY InitType, InitClaim
<1>2. TypeOK /\ ClaimInv /\ [Next]_vars => (TypeOK /\ ClaimInv)'
  BY TypeStep, ClaimStep
<1> QED
  BY <1>1, <1>2, PTL DEF Spec

(* Every table, every record of an open transaction and every local of a   *)
(* run has its type in every reachable state.                              *)
THEOREM TypeCorrect == Spec => []TypeOK
BY ClaimsAreExclusive, PTL

-----------------------------------------------------------------------------
LEMMA ContainsAppend ==
  ASSUME NEW S, NEW s \in Seq(S), NEW x \in S, NEW e
  PROVE  Contains(Append(s, x), e) <=> Contains(s, e) \/ x = e
<1>1. /\ Len(s) \in Nat /\ Len(Append(s, x)) = Len(s) + 1
      /\ \A i \in 1..Len(s) : Append(s, x)[i] = s[i]
      /\ Append(s, x)[Len(s) + 1] = x
  BY AppendProperties, LenProperties
<1>2. \A i : i \in 1..(Len(s) + 1) <=> i \in 1..Len(s) \/ i = Len(s) + 1
  BY <1>1
<1> QED
  BY <1>1, <1>2 DEF Contains

LEMMA ContainsEmpty == ASSUME NEW e PROVE ~Contains(<< >>, e)
BY DEF Contains

(* A step of one runner leaves the others' locals and transactions alone.  *)
LEMMA LocalStep ==
  ASSUME TypeOK, NEW r \in Runner, StartRun(r) \/ Step(r) \/ Failure(r),
         NEW q \in Runner, q # r
  PROVE  /\ pc'[q] = pc[q] /\ txn'[q] = txn[q] /\ claim'[q] = claim[q]
<1> USE DEF Goto, DropClaim, EndJob, Forget
<1>0. pc \in [Runner -> Label] /\ claim \in [Runner -> Hash \cup {NoHash}] /\ txn \in [Runner -> Txn]
  BY DEF TypeOK
<1>1. CASE StartRun(r) \/ StartRunFails(r) \/ Ingest(r) \/ RunPipeline(r) \/ RunPipelineFails(r)
  BY <1>0, <1>1 DEF StartRun, StartRunFails, Ingest, RunPipeline, RunPipelineFails
<1>2. CASE InsertJob(r) \/ InsertRejected(r) \/ InsertFails(r)
  BY <1>0, <1>2 DEF InsertJob, InsertRejected, InsertFails
<1>3. CASE FormatAndInsertPost(r) \/ FormatFails(r) \/ StatementFails(r)
  BY <1>0, <1>3 DEF FormatAndInsertPost, FormatFails, StatementFails
<1>4. CASE Publish(r) \/ PublishRefused(r) \/ PublishAnswerLost(r) \/ ConnectionLost(r) \/ PublishLate(r)
  BY <1>0, <1>4 DEF Publish, PublishRefused, PublishAnswerLost, ConnectionLost, PublishLate
<1>5. CASE LogSuccess(r) \/ MarkJobPosted(r)
  BY <1>0, <1>5 DEF LogSuccess, MarkJobPosted
<1>6. CASE LogFailure(r)
  BY <1>0, <1>6 DEF LogFailure
<1>7. CASE Commit(r) \/ CommitFails(r) \/ Rollback(r) \/ RollbackFails(r)
  BY <1>0, <1>7 DEF Commit, CommitFails, Rollback, RollbackFails
<1>8. CASE Finalise(r) \/ FinaliseFails(r) \/ RecordRunFailure(r) \/ RecordRunFailureFails(r) \/ Crash(r)
  BY <1>0, <1>8 DEF Finalise, FinaliseFails, RecordRunFailure, RecordRunFailureFails, Crash
<1> QED
  BY <1>1, <1>2, <1>3, <1>4, <1>5, <1>6, <1>7, <1>8 DEF Step, Failure

(* A runner is evicted by the loss of its connection, which is a fault.    *)
LEMMA EvictionIsAFault ==
  ASSUME TypeOK, NEW r \in Runner, StartRun(r) \/ Step(r) \/ Failure(r),
         pc[r] # "late", pc'[r] = "late"
  PROVE  faults' = faults + 1
<1> USE DEF Goto, LoopLabel
<1>0. pc \in [Runner -> Label]
  BY DEF TypeOK
<1>1. CASE ConnectionLost(r)
  BY <1>0, <1>1 DEF ConnectionLost, Fault
<1>2. CASE StartRun(r) \/ StartRunFails(r) \/ Ingest(r) \/ RunPipeline(r) \/ RunPipelineFails(r)
  BY <1>0, <1>2 DEF StartRun, StartRunFails, Ingest, RunPipeline, RunPipelineFails
<1>3. CASE InsertJob(r) \/ InsertRejected(r) \/ InsertFails(r)
  BY <1>0, <1>3 DEF InsertJob, InsertRejected, InsertFails
<1>4. CASE FormatAndInsertPost(r) \/ FormatFails(r) \/ StatementFails(r)
  BY <1>0, <1>4 DEF FormatAndInsertPost, FormatFails, StatementFails
<1>5. CASE Publish(r) \/ PublishRefused(r) \/ PublishAnswerLost(r) \/ PublishLate(r)
  BY <1>0, <1>5 DEF Publish, PublishRefused, PublishAnswerLost, PublishLate
<1>6. CASE LogSuccess(r) \/ MarkJobPosted(r) \/ LogFailure(r)
  BY <1>0, <1>6 DEF LogSuccess, MarkJobPosted, LogFailure, PairLabel
<1>7. CASE Commit(r) \/ CommitFails(r) \/ Rollback(r) \/ RollbackFails(r)
  BY <1>0, <1>7 DEF Commit, CommitFails, Rollback, RollbackFails, EndJob
<1>8. CASE Finalise(r) \/ FinaliseFails(r) \/ RecordRunFailure(r) \/ RecordRunFailureFails(r) \/ Crash(r)
  BY <1>0, <1>8 DEF Finalise, FinaliseFails, RecordRunFailure, RecordRunFailureFails, Crash, Forget
<1> QED
  BY <1>1, <1>2, <1>3, <1>4, <1>5, <1>6, <1>7, <1>8 DEF Step, Failure

(* There are no more evicted runners than faults.                          *)
EvictedInv == Cardinality(Evicted) <= faults

LEMMA EvictedStep == TypeOK /\ EvictedInv /\ [Next]_vars => EvictedInv'
<1> SUFFICES ASSUME TypeOK, EvictedInv, [Next]_vars PROVE EvictedInv'
  OBVIOUS
<1> DEFINE S == Evicted
           T == Evicted'
<1>0. /\ S \subseteq Runner /\ T \subseteq Runner
      /\ Cardinality(S) <= faults /\ faults \in Nat
      /\ faults' = faults \/ faults' = faults + 1
  BY FaultsStep DEF Evicted, EvictedInv, TypeOK
<1>1. IsFiniteSet(S) /\ IsFiniteSet(T)
  BY <1>0, FS_Subset, PipelineRunAssumption
<1>2. SUFFICES Cardinality(T) <= faults'
  BY DEF EvictedInv
<1>3. CASE S = T
  <2>1. Cardinality(S) \in Nat
    BY <1>1, FS_CardinalityType
  <2> QED
    BY <1>0, <1>3, <2>1
<1>4. CASE S # T
  <2>1. PICK r \in Runner : StartRun(r) \/ Step(r) \/ Failure(r)
    BY <1>4 DEF Next, AllRunsDone, vars, Evicted, At
  <2>2. S \ {r} = T \ {r}
    BY <2>1, LocalStep DEF Evicted, At
  <2>3. r \in T /\ r \notin S => faults' = faults + 1
    BY <2>1, EvictionIsAFault DEF Evicted, At
  <2> HIDE DEF S, T
  <2>4. /\ Cardinality(S) \in Nat /\ Cardinality(T) \in Nat
        /\ Cardinality(S \ {r}) = IF r \in S THEN Cardinality(S) - 1 ELSE Cardinality(S)
        /\ Cardinality(T \ {r}) = IF r \in T THEN Cardinality(T) - 1 ELSE Cardinality(T)
    BY <1>1, FS_RemoveElement, FS_CardinalityType
  <2> QED
    BY <1>0, <2>2, <2>3, <2>4
<1> QED
  BY <1>3, <1>4

(* However many runners share the database, and whatever fails, one at a   *)
(* time publishes a job under its own insert, and none once it is stored:  *)
(* the flushed insert of _process_job is a lock.  Those that publish it    *)
(* without the lock are evicted runners, no more of them than faults.      *)
THEOREM OnePublisher == Spec => []OnePublisherPerJob
<1>1. TypeOK /\ ClaimInv /\ EvictedInv => OnePublisherPerJob
  <2> SUFFICES ASSUME TypeOK, ClaimInv, EvictedInv, NEW h \in Hash
               PROVE  LET free == IF h \in jobs THEN 0 ELSE 1
                      IN  /\ Cardinality(Publishers(h) \ Evicted) <= free
                          /\ Cardinality(Publishers(h)) <= free + faults
    BY DEF OnePublisherPerJob
  <2> DEFINE P == Publishers(h)
             O == P \ Evicted
             free == IF h \in jobs THEN 0 ELSE 1
  <2>1. \A r \in O : r \in Runner /\ claim[r] = h /\ claim[r] # NoHash /\ h \notin jobs
    BY PipelineRunAssumption DEF ClaimInv, Publishers
  <2>2. \A r, q \in O : r = q
    BY <2>1 DEF ClaimInv
  <2>3. /\ P \subseteq O \cup Evicted /\ O \subseteq Runner /\ Evicted \subseteq Runner
    BY DEF Publishers, Evicted
  <2> HIDE DEF P, O
  <2>4. Cardinality(O) \in Nat /\ Cardinality(O) <= free
    <3>1. CASE O = {}
      <4>1. Cardinality(O) = 0
        BY <3>1, FS_EmptySet
      <4> QED
        BY <4>1
    <3>2. CASE O # {}
      <4>1. PICK r \in O : O = {r}
        BY <2>2, <3>2
      <4>2. Cardinality(O) = 1
        BY <4>1, FS_Singleton
      <4>3. free = 1
        BY <2>1, <3>2
      <4> QED
        BY <4>2, <4>3
    <3> QED
      BY <3>1, <3>2
  <2>5. IsFiniteSet(O) /\ IsFiniteSet(Evicted) /\ IsFiniteSet(O \cup Evicted)
    <3>1. IsFiniteSet(O) /\ IsFiniteSet(Evicted)
      BY <2>3, FS_Subset, PipelineRunAssumption
    <3> QED
      BY <3>1, FS_Union
  <2>6. Cardinality(P) \in Nat /\ Cardinality(P) <= Cardinality(O \cup Evicted)
    <3>1. IsFiniteSet(P) /\ Cardinality(P) <= Cardinality(O \cup Evicted)
      BY <2>3, <2>5, FS_Subset
    <3> QED
      BY <3>1, FS_CardinalityType
  <2>7. /\ Cardinality(Evicted) \in Nat /\ Cardinality(O \cap Evicted) \in Nat
        /\ Cardinality(O \cup Evicted)
             = Cardinality(O) + Cardinality(Evicted) - Cardinality(O \cap Evicted)
    <3>1. IsFiniteSet(O \cap Evicted)
      BY <2>5, FS_Subset
    <3> QED
      BY <2>5, <3>1, FS_Union, FS_CardinalityType
  <2>8. Cardinality(Evicted) <= faults /\ faults \in Nat
    BY DEF EvictedInv, TypeOK
  <2>9. Cardinality(P) <= free + faults
    BY <2>4, <2>6, <2>7, <2>8
  <2> QED
    BY <2>4, <2>9 DEF P, O
<1>2. Init => EvictedInv
  <2> SUFFICES ASSUME Init PROVE EvictedInv
    OBVIOUS
  <2>1. Evicted = {} /\ faults = 0
    BY DEF Init, Evicted, At
  <2>2. Cardinality(Evicted) = 0
    BY <2>1, FS_EmptySet
  <2> QED
    BY <2>1, <2>2 DEF EvictedInv
<1> QED
  BY <1>1, <1>2, EvictedStep, ClaimsAreExclusive, PTL DEF Spec

(* A post is made by a runner at its publish call, of its job and on the   *)
(* platform it has come to; no other step changes what is out.             *)
LEMMA DeliveredStep ==
  ASSUME TypeOK, ClaimInv, NEW r \in Runner, StartRun(r) \/ Step(r) \/ Failure(r)
  PROVE  \/ UNCHANGED delivered
         \/ /\ pc[r] \in {"publish", "late"}
            /\ Publish(r) \/ PublishAnswerLost(r) \/ PublishLate(r)
            /\ txn[r].hash \in Hash /\ txn[r].plat \in Platform
            /\ Deliver(r)
<1>1. CASE Publish(r) \/ PublishAnswerLost(r) \/ PublishLate(r)
  <2>1. txn[r].plat \in Platform
    BY DEF TypeOK, Txn
  <2>2. txn[r].hash \in Hash
    BY <1>1 DEF Publish, PublishAnswerLost, PublishLate, ClaimInv, Working, At
  <2> QED
    BY <1>1, <2>1, <2>2 DEF Publish, PublishAnswerLost, PublishLate, At
<1>2. CASE ~(Publish(r) \/ PublishAnswerLost(r) \/ PublishLate(r))
  BY <1>2
  DEF Step, Failure, StartRun, StartRunFails, Ingest, RunPipeline, RunPipelineFails, InsertJob,
      InsertRejected, InsertFails, FormatAndInsertPost, FormatFails, StatementFails,
      PublishRefused, ConnectionLost, LogSuccess, MarkJobPosted, LogFailure, Commit, CommitFails,
      Rollback, RollbackFails, Finalise, FinaliseFails, RecordRunFailure,
      RecordRunFailureFails, Crash
<1> QED
  BY <1>1, <1>2

(* One post more of one job on one platform.                               *)
LEMMA Bump ==
  ASSUME NEW d \in [Hash -> [Platform -> Nat]], NEW g \in Hash, NEW o \in Platform,
         NEW h \in Hash, NEW p \in Platform
  PROVE  [d EXCEPT ![g][o] = @ + 1][h][p] = IF h = g /\ p = o THEN d[h][p] + 1 ELSE d[h][p]
<1>1. CASE h = g
  <2>1. [d EXCEPT ![g][o] = @ + 1][h] = [d[g] EXCEPT ![o] = @ + 1]
    BY <1>1
  <2>2. d[g] \in [Platform -> Nat]
    OBVIOUS
  <2> QED
    BY <1>1, <2>1, <2>2
<1>2. CASE h # g
  <2>1. [d EXCEPT ![g][o] = @ + 1][h] = d[h]
    BY <1>2
  <2> QED
    BY <1>2, <2>1
<1> QED
  BY <1>1, <1>2

LEMMA DeliveredGrows ==
  ASSUME TypeOK, ClaimInv, NEW r \in Runner, StartRun(r) \/ Step(r) \/ Failure(r),
         NEW h \in Hash, NEW p \in Platform
  PROVE  delivered[h][p] \in Nat /\ delivered'[h][p] \in Nat /\ delivered'[h][p] >= delivered[h][p]
<1>1. delivered \in [Hash -> [Platform -> Nat]]
  BY DEF TypeOK
<1>2. delivered[h][p] \in Nat
  BY <1>1
<1>3. CASE UNCHANGED delivered
  BY <1>2, <1>3
<1>4. ASSUME txn[r].hash \in Hash, txn[r].plat \in Platform, Deliver(r)
      PROVE  delivered'[h][p] \in Nat /\ delivered'[h][p] >= delivered[h][p]
  <2>1. delivered'[h][p] = IF h = txn[r].hash /\ p = txn[r].plat THEN delivered[h][p] + 1
                           ELSE delivered[h][p]
    BY <1>1, <1>4, Bump DEF Deliver
  <2> QED
    BY <1>2, <2>1
<1> QED
  BY <1>2, <1>3, <1>4, DeliveredStep

(* What the logs of an open transaction contain once a line is added.      *)
LEMMA LogContains ==
  ASSUME NEW l \in [Platform -> Seq(Status)], NEW o \in Platform, NEW s \in Status,
         NEW p \in Platform
  PROVE  Contains([l EXCEPT ![o] = Append(@, s)][p], "success")
           <=> Contains(l[p], "success") \/ (p = o /\ s = "success")
<1>1. CASE p = o
  <2>1. [l EXCEPT ![o] = Append(@, s)][p] = Append(l[o], s) /\ l[o] \in Seq(Status)
    BY <1>1
  <2> QED
    BY <1>1, <2>1, ContainsAppend
<1>2. CASE p # o
  <2>1. [l EXCEPT ![o] = Append(@, s)][p] = l[p]
    BY <1>2
  <2> QED
    BY <1>2, <2>1
<1> QED
  BY <1>1, <1>2

LEMMA LogStep ==
  ASSUME TypeOK, TypeOK', ClaimInv, LogInv, [Next]_vars
  PROVE  LogInv'
<1> USE DEF Goto, At
<1>0. /\ pc \in [Runner -> Label] /\ txn \in [Runner -> Txn] /\ txn' \in [Runner -> Txn]
      /\ delivered \in [Hash -> [Platform -> Nat]] /\ delivered' \in [Hash -> [Platform -> Nat]]
  BY DEF TypeOK
<1>1. CASE UNCHANGED vars
  BY <1>1 DEF vars, LogInv, Working, TruthfulLog, Succeeded
<1>2. CASE AllRunsDone
  BY <1>2 DEF AllRunsDone, vars, LogInv, Working, TruthfulLog, Succeeded
<1>3. ASSUME NEW r \in Runner, StartRun(r) \/ Step(r) \/ Failure(r)
      PROVE  LogInv'
  <2> DEFINE h == txn[r].hash
             o == txn[r].plat
  <2>1. \A g \in Hash, p \in Platform : delivered[g][p] > 0 => delivered'[g][p] > 0
    BY <1>3, DeliveredGrows
  <2>2. ASSUME NEW q \in Runner, q # r, Working(q)'
        PROVE  TruthfulLog(q)'
    <3>1. pc'[q] = pc[q] /\ txn'[q] = txn[q]
      BY <1>3, <2>2, LocalStep
    <3>2. Working(q)
      BY <2>2, <3>1 DEF Working
    <3>3. TruthfulLog(q) /\ txn[q].hash \in Hash /\ txn[q].plat \in Platform
      BY <1>0, <3>2 DEF LogInv, ClaimInv, Txn
    <3> QED
      BY <2>1, <3>1, <3>3 DEF TruthfulLog, Succeeded
  <2>3. ASSUME Working(r)'
        PROVE  TruthfulLog(r)'
    <3>0. o \in Platform /\ txn[r].log \in [Platform -> Seq(Status)]
      BY <1>0 DEF Txn
    <3>9. \A p \in Platform : Succeeded(r, p)' <=> Contains(txn'[r].log[p], "success")
      BY DEF Succeeded, Contains
    <3>1. CASE InsertJob(r)
      <4>1. PICK g : txn'[r] = NewTxn(g)
        BY <1>0, <3>1 DEF InsertJob
      <4>2. /\ ~txn'[r].stamp /\ pc'[r] = "format"
            /\ \A p \in Platform : txn'[r].log[p] = << >>
        BY <1>0, <3>1, <4>1 DEF InsertJob, NewTxn
      <4> QED
        BY <4>2, ContainsEmpty DEF TruthfulLog, Succeeded
    <3>2. CASE FormatAndInsertPost(r)
      <4>1. Working(r) /\ pc[r] = "format" /\ pc'[r] = "publish"
        BY <1>0, <3>2 DEF FormatAndInsertPost, Working
      <4>2. /\ txn'[r].hash = h /\ txn'[r].stamp = txn[r].stamp /\ txn'[r].log = txn[r].log
            /\ delivered' = delivered
        BY <1>0, <3>2 DEF FormatAndInsertPost, Txn
      <4> QED
        BY <4>1, <4>2 DEF TruthfulLog, Succeeded, LogInv
    <3>3. CASE Publish(r) \/ PublishAnswerLost(r)
      <4>1. Working(r) /\ pc[r] = "publish" /\ pc'[r] \in {"log", "logfail"} /\ txn' = txn
        BY <1>0, <3>3 DEF Publish, PublishAnswerLost, Working
      <4>2. h \in Hash /\ delivered'[h][o] > 0
        <5>1. h \in Hash /\ delivered[h][o] \in Nat
          BY <1>0, <3>0, <4>1 DEF ClaimInv
        <5>2. delivered'[h][o] = delivered[h][o] + 1
          BY <1>0, <3>0, <3>3, <5>1, Bump DEF Publish, PublishAnswerLost, Deliver
        <5> QED
          BY <5>1, <5>2
      <4> QED
        BY <2>1, <4>1, <4>2 DEF TruthfulLog, Succeeded, LogInv
    <3>4. CASE PublishRefused(r)
      BY <1>0, <3>4 DEF PublishRefused, TruthfulLog, Succeeded, LogInv, Working
    <3>5. CASE LogSuccess(r)
      <4>1. Working(r) /\ pc[r] = "log" /\ pc'[r] = "mark" /\ delivered' = delivered
        BY <1>0, <3>5 DEF LogSuccess, Working
      <4>2. /\ txn'[r].hash = h /\ txn'[r].stamp = txn[r].stamp /\ txn'[r].plat = o
            /\ txn'[r].log = [txn[r].log EXCEPT ![o] = Append(@, "success")]
        BY <1>0, <3>5, LogKeeps DEF LogSuccess
      <4>3. \A p \in Platform : Succeeded(r, p)' <=> Succeeded(r, p) \/ p = o
        <5>1. "success" \in Status
          BY DEF Status
        <5>2. ASSUME NEW p \in Platform
              PROVE  Contains(txn'[r].log[p], "success") <=> Contains(txn[r].log[p], "success") \/ p = o
          <6> DEFINE l == txn[r].log
          <6>1. l \in [Platform -> Seq(Status)]
            BY <3>0
          <6> HIDE DEF l, o
          <6>2. Contains([l EXCEPT ![o] = Append(@, "success")][p], "success")
                  <=> Contains(l[p], "success") \/ (p = o /\ "success" = "success")
            BY <3>0, <5>1, <6>1, LogContains
          <6> QED
            BY <4>2, <6>2 DEF l
        <5> QED
          BY <3>9, <5>2 DEF Succeeded
      <4> QED
        BY <3>0, <4>1, <4>2, <4>3 DEF TruthfulLog, LogInv
    <3>6. CASE MarkJobPosted(r)
      <4>1. Working(r) /\ pc[r] = "mark" /\ pc'[r] \in {"format", "commit"} /\ delivered' = delivered
        BY <1>0, <3>6 DEF MarkJobPosted, Working, PairLabel
      <4>2. txn'[r].hash = h /\ txn'[r].stamp /\ txn'[r].log = txn[r].log
        BY <1>0, <3>6 DEF MarkJobPosted, Txn
      <4> QED
        BY <3>0, <4>1, <4>2 DEF TruthfulLog, Succeeded, LogInv
    <3>7. CASE LogFailure(r)
      <4>1. /\ Working(r) /\ pc[r] = "logfail" /\ pc'[r] \in {"publish", "format", "commit"}
            /\ delivered' = delivered
        BY <1>0, <3>7 DEF LogFailure, Working, PairLabel
      <4>2. /\ txn'[r].hash = h /\ txn'[r].stamp = txn[r].stamp
            /\ txn'[r].log = [txn[r].log EXCEPT ![o] = Append(@, "failed")]
        BY <1>0, <3>7, LogFailureKeeps
      <4>3. \A p \in Platform : Succeeded(r, p)' <=> Succeeded(r, p)
        <5>1. "failed" \in Status
          BY DEF Status
        <5>2. ASSUME NEW p \in Platform
              PROVE  Contains(txn'[r].log[p], "success") <=> Contains(txn[r].log[p], "success")
          <6> DEFINE l == txn[r].log
          <6>1. l \in [Platform -> Seq(Status)]
            BY <3>0
          <6> HIDE DEF l, o
          <6>2. Contains([l EXCEPT ![o] = Append(@, "failed")][p], "success")
                  <=> Contains(l[p], "success") \/ (p = o /\ "failed" = "success")
            BY <3>0, <5>1, <6>1, LogContains
          <6> QED
            BY <4>2, <6>2 DEF l
        <5> QED
          BY <3>9, <5>2 DEF Succeeded
      <4> QED
        BY <4>1, <4>2, <4>3 DEF TruthfulLog, LogInv
    <3>8. ASSUME ~(\/ InsertJob(r) \/ FormatAndInsertPost(r) \/ Publish(r) \/ PublishAnswerLost(r)
                   \/ PublishRefused(r) \/ LogSuccess(r) \/ MarkJobPosted(r) \/ LogFailure(r))
          PROVE  FALSE
      BY <1>0, <1>3, <2>3, <3>8
      DEF Working, Step, Failure, StartRun, StartRunFails, MayStart, Ingest, RunPipeline,
          RunPipelineFails, InsertRejected, InsertFails, FormatFails, StatementFails,
          ConnectionLost, PublishLate, Commit, CommitFails, Rollback, RollbackFails, Finalise,
          FinaliseFails, RecordRunFailure, RecordRunFailureFails, Crash, EndJob, LoopLabel
    <3> QED
      BY <3>1, <3>2, <3>3, <3>4, <3>5, <3>6, <3>7, <3>8
  <2> QED
    BY <2>2, <2>3 DEF LogInv
<1> QED
  BY <1>1, <1>2, <1>3 DEF Next

-----------------------------------------------------------------------------
(* Only the commit of a job changes the tables, and it adds the job.       *)
LEMMA TablesStep ==
  ASSUME TypeOK, ClaimInv, NEW r \in Runner, StartRun(r) \/ Step(r) \/ Failure(r)
  PROVE  \/ UNCHANGED tables
         \/ /\ Persist(r)
            /\ Working(r) /\ pc[r] = "commit"
            /\ txn[r].hash \in Hash /\ txn[r].hash \notin jobs
<1>1. CASE Commit(r) \/ CommitFails(r)
  <2>1. Working(r) /\ pc[r] = "commit"
    BY <1>1 DEF Commit, CommitFails, Working, At
  <2>2. txn[r].hash \in Hash /\ txn[r].hash \notin jobs
    BY <2>1, PipelineRunAssumption DEF ClaimInv
  <2> QED
    BY <1>1, <2>1, <2>2 DEF Commit, CommitFails
<1>2. CASE ~(Commit(r) \/ CommitFails(r))
  BY <1>2
  DEF Step, Failure, StartRun, StartRunFails, Ingest, RunPipeline, RunPipelineFails, InsertJob,
      InsertRejected, InsertFails, FormatAndInsertPost, FormatFails, StatementFails, Publish,
      PublishRefused, PublishAnswerLost, ConnectionLost, PublishLate, LogSuccess, MarkJobPosted,
      LogFailure, Rollback, RollbackFails, Finalise, FinaliseFails, RecordRunFailure,
      RecordRunFailureFails, Crash, tables
<1> QED
  BY <1>1, <1>2

LEMMA JobsGrow ==
  ASSUME TypeOK, ClaimInv, NEW r \in Runner, StartRun(r) \/ Step(r) \/ Failure(r)
  PROVE  jobs \subseteq jobs'
BY TablesStep DEF Persist, tables

LEMMA LoggedStep ==
  ASSUME TypeOK, ClaimInv, LogInv, LoggedSuccessWasDelivered, [Next]_vars
  PROVE  LoggedSuccessWasDelivered'
<1>1. CASE UNCHANGED vars
  BY <1>1 DEF vars, LoggedSuccessWasDelivered
<1>2. CASE AllRunsDone
  BY <1>2 DEF AllRunsDone, vars, LoggedSuccessWasDelivered
<1>3. ASSUME NEW r \in Runner, StartRun(r) \/ Step(r) \/ Failure(r)
      PROVE  LoggedSuccessWasDelivered'
  <2>1. \A h \in Hash, p \in Platform : delivered[h][p] > 0 => delivered'[h][p] > 0
    BY <1>3, DeliveredGrows
  <2>2. CASE UNCHANGED tables
    BY <2>1, <2>2 DEF LoggedSuccessWasDelivered, tables
  <2>3. CASE Persist(r) /\ Working(r)
    <3>1. plog' = [plog EXCEPT ![txn[r].hash] = txn[r].log]
      BY <2>3 DEF Persist
    <3>2. ASSUME NEW h \in Hash, NEW p \in Platform, Contains(plog'[h][p], "success")
          PROVE  delivered[h][p] > 0
      <4>1. CASE h = txn[r].hash
        <5>1. plog'[h] = txn[r].log
          BY <3>1, <4>1 DEF TypeOK
        <5> QED
          BY <2>3, <3>2, <4>1, <5>1 DEF LogInv, TruthfulLog, Succeeded
      <4>2. CASE h # txn[r].hash
        <5>1. plog'[h] = plog[h]
          BY <3>1, <4>2 DEF TypeOK
        <5> QED
          BY <3>2, <5>1 DEF LoggedSuccessWasDelivered
      <4> QED
        BY <4>1, <4>2
    <3>3. \A h \in Hash, p \in Platform :
            Contains(plog'[h][p], "success") => delivered'[h][p] > 0
      BY <2>1, <3>2
    <3> QED
      BY <3>3 DEF LoggedSuccessWasDelivered, Contains
  <2> QED
    BY <1>3, <2>2, <2>3, TablesStep
<1> QED
  BY <1>1, <1>2, <1>3 DEF Next

LEMMA StampStep ==
  ASSUME TypeOK, ClaimInv, LogInv, StampMatchesLog, [Next]_vars
  PROVE  StampMatchesLog'
<1>1. CASE UNCHANGED vars
  BY <1>1 DEF vars, StampMatchesLog
<1>2. CASE AllRunsDone
  BY <1>2 DEF AllRunsDone, vars, StampMatchesLog
<1>3. ASSUME NEW r \in Runner, StartRun(r) \/ Step(r) \/ Failure(r)
      PROVE  StampMatchesLog'
  <2>1. CASE UNCHANGED tables
    BY <2>1 DEF StampMatchesLog, tables
  <2>2. CASE Persist(r) /\ Working(r) /\ pc[r] = "commit" /\ txn[r].hash \notin jobs
    <3> DEFINE logged(h) == \E p \in Platform : Contains(plog'[h][p], "success")
    <3>1. ASSUME NEW h \in Hash, h = txn[r].hash
          PROVE  h \in postedAt' <=> h \in jobs' /\ logged(h)
      <4>1. plog'[h] = txn[r].log /\ h \in jobs'
        BY <2>2, <3>1 DEF Persist, TypeOK
      <4>2. h \notin postedAt
        BY <2>2, <3>1 DEF StampMatchesLog
      <4>3. txn[r].stamp <=> logged(h)
        BY <2>2, <4>1 DEF LogInv, TruthfulLog, Succeeded
      <4> QED
        BY <2>2, <3>1, <4>1, <4>2, <4>3 DEF Persist
    <3>2. ASSUME NEW h \in Hash, h # txn[r].hash
          PROVE  h \in postedAt' <=> h \in jobs' /\ logged(h)
      <4>1. /\ plog'[h] = plog[h]
            /\ h \in jobs' <=> h \in jobs
            /\ h \in postedAt' <=> h \in postedAt
        BY <2>2, <3>2 DEF Persist, TypeOK
      <4> QED
        BY <4>1 DEF StampMatchesLog
    <3>3. \A h \in Hash : h \in postedAt' <=> h \in jobs' /\ logged(h)
      BY <3>1, <3>2
    <3> QED
      BY <3>3 DEF StampMatchesLog, Contains
  <2> QED
    BY <1>3, <2>1, <2>2, TablesStep
<1> QED
  BY <1>1, <1>2, <1>3 DEF Next

-----------------------------------------------------------------------------
(* The evicted runners about to post a job are finitely many, and a step   *)
(* of r changes only whether r is one of them.                             *)
LEMMA StragglerStep ==
  ASSUME TypeOK, NEW r \in Runner, StartRun(r) \/ Step(r) \/ Failure(r),
         NEW h \in Hash, NEW p \in Platform
  PROVE  /\ Cardinality(Straggler(h, p)) \in Nat
         /\ Cardinality(Straggler(h, p)') =
              Cardinality(Straggler(h, p))
                + (IF r \in Straggler(h, p)' THEN 1 ELSE 0)
                - (IF r \in Straggler(h, p) THEN 1 ELSE 0)
<1> DEFINE S == Straggler(h, p)
           T == Straggler(h, p)'
<1>1. /\ S \subseteq Runner /\ T \subseteq Runner
      /\ S \ {r} = T \ {r}
  BY LocalStep DEF Straggler, At
<1>2. IsFiniteSet(S) /\ IsFiniteSet(T)
  BY <1>1, FS_Subset, PipelineRunAssumption
<1> HIDE DEF S, T
<1>3. /\ Cardinality(S) \in Nat /\ Cardinality(T) \in Nat
      /\ Cardinality(S \ {r}) = IF r \in S THEN Cardinality(S) - 1 ELSE Cardinality(S)
      /\ Cardinality(T \ {r}) = IF r \in T THEN Cardinality(T) - 1 ELSE Cardinality(T)
  BY <1>2, FS_RemoveElement, FS_CardinalityType
<1>4. Cardinality(T) = Cardinality(S) + (IF r \in T THEN 1 ELSE 0) - (IF r \in S THEN 1 ELSE 0)
  <2>1. Cardinality(S \ {r}) = Cardinality(T \ {r})
    BY <1>1
  <2> QED
    BY <1>3, <2>1
<1>5. Cardinality(Straggler(h, p)') = Cardinality(T)
  BY DEF T
<1> QED
  BY <1>3, <1>4, <1>5 DEF S, T

(* A job once owed to a platform stays owed, unless a fault is paid.       *)
LEMMA OwedStep ==
  ASSUME TypeOK, TypeOK', ClaimInv, NEW r \in Runner, StartRun(r) \/ Step(r) \/ Failure(r),
         NEW h \in Hash, NEW p \in Platform, faults' = faults, Owed(h, p) = 1
  PROVE  Owed(h, p)' = 1
<1>1. CASE h \in jobs
  BY <1>1, JobsGrow DEF Owed
<1>2. ASSUME NEW q \in Runner, txn[q].hash = h, Sent(q, p), q # r
      PROVE  Owed(h, p)' = 1
  <2>1. pc'[q] = pc[q] /\ txn'[q] = txn[q]
    BY <1>2, LocalStep
  <2>2. txn'[q].hash = h /\ Sent(q, p)'
    BY <1>2, <2>1 DEF Sent, Working
  <2> QED
    BY <2>2 DEF Owed
<1>3. ASSUME txn[r].hash = h, Sent(r, p)
      PROVE  Owed(h, p)' = 1
  <2> USE DEF Goto, At
  <2>0. /\ pc \in [Runner -> Label] /\ txn \in [Runner -> Txn] /\ txn' \in [Runner -> Txn]
        /\ faults \in Nat /\ txn[r].plat \in Nat /\ p \in Nat /\ NumPlatforms \in Nat
        /\ p <= NumPlatforms
    <3>1. /\ txn[r].plat \in Platform /\ pc \in [Runner -> Label] /\ txn \in [Runner -> Txn]
          /\ faults \in Nat
      BY DEF TypeOK, Txn
    <3>2. txn' \in [Runner -> Txn]
      BY DEF TypeOK
    <3> QED
      BY <3>1, <3>2, PipelineRunAssumption DEF Platform
  <2>1. ~Failure(r)
    <3>1. Failure(r) => faults' = faults + 1
      BY DEF Fault, Failure, StartRunFails, RunPipelineFails, InsertFails, FormatFails, StatementFails,
          PublishAnswerLost, ConnectionLost, CommitFails, RollbackFails, FinaliseFails,
          RecordRunFailureFails, Crash
    <3> QED
      BY <2>0, <3>1
  <2>2. CASE Commit(r)
    BY <1>3, <2>2 DEF Commit, Persist, Owed
  <2>3. CASE FormatAndInsertPost(r)
    <3>1. txn'[r].hash = h /\ txn'[r].plat = txn[r].plat /\ pc'[r] = "publish" /\ p < txn[r].plat
      BY <1>3, <2>0, <2>3 DEF FormatAndInsertPost, Txn, Sent
    <3> QED
      BY <3>1 DEF Owed, Sent, Working
  <2>4. CASE Publish(r) \/ PublishRefused(r)
    <3>1. txn'[r] = txn[r] /\ pc'[r] \in {"log", "logfail"} /\ p < txn[r].plat
      BY <1>3, <2>0, <2>4 DEF Publish, PublishRefused, Sent
    <3> QED
      BY <1>3, <3>1 DEF Owed, Sent, Working
  <2>5. CASE LogSuccess(r)
    <3>1. txn'[r].hash = h /\ txn'[r].plat = txn[r].plat /\ pc'[r] = "mark"
      BY <1>3, <2>0, <2>5, LogKeeps DEF LogSuccess
    <3> QED
      BY <1>3, <3>1 DEF Owed, Sent, Working
  <2>6. CASE MarkJobPosted(r)
    <3>1. txn'[r].hash = h /\ txn'[r].plat = NextPlat(r) /\ pc'[r] = PairLabel(r)
      BY <1>3, <2>0, <2>6 DEF MarkJobPosted, Txn
    <3>2. p < txn[r].plat \/ p = txn[r].plat
      BY <1>3 DEF Sent
    <3> QED
      BY <2>0, <3>1, <3>2 DEF Owed, Sent, Working, NextPlat, PairLabel
  <2>7. CASE LogFailure(r)
    <3>1. p < txn[r].plat
      BY <1>3, <2>7 DEF LogFailure, Sent
    <3>2. txn'[r].hash = h /\ txn'[r].plat \in {txn[r].plat, NextPlat(r)}
      BY <1>3, <2>0, <2>7, LogFailureKeeps
    <3>3. pc'[r] \in {"publish", "format", "commit"} /\ txn'[r].plat \in Nat
      BY <2>0, <2>7 DEF LogFailure, PairLabel, Txn, Platform
    <3> QED
      BY <2>0, <3>1, <3>2, <3>3 DEF Owed, Sent, Working, NextPlat
  <2> QED
    BY <1>3, <2>0, <2>1, <2>2, <2>3, <2>4, <2>5, <2>6, <2>7
    DEF Sent, Working, Step, StartRun, MayStart, Ingest, RunPipeline, InsertJob, InsertRejected,
        PublishLate, Rollback, Finalise, RecordRunFailure
<1> QED
  BY <1>1, <1>2, <1>3 DEF Owed

LEMMA DeliveryStep ==
  ASSUME TypeOK, TypeOK', ClaimInv, DeliveryInv, [Next]_vars
  PROVE  DeliveryInv'
<1>1. CASE UNCHANGED vars
  BY <1>1 DEF vars, DeliveryInv, Straggler, Owed, Sent, Working, At
<1>2. CASE AllRunsDone
  BY <1>2 DEF AllRunsDone, vars, DeliveryInv, Straggler, Owed, Sent, Working, At
<1>3. ASSUME NEW r \in Runner, StartRun(r) \/ Step(r) \/ Failure(r),
             NEW h \in Hash, NEW p \in Platform
      PROVE  delivered'[h][p] + Cardinality(Straggler(h, p)') <= faults' + Owed(h, p)'
  <2> DEFINE here == h = txn[r].hash /\ p = txn[r].plat
             K == Cardinality(Straggler(h, p))
             L == Cardinality(Straggler(h, p)')
             in == r \in Straggler(h, p)
             in2 == r \in Straggler(h, p)'
  <2>0. p \in Nat /\ ~(p < p)
    BY PipelineRunAssumption DEF Platform
  <2>1. /\ delivered[h][p] \in Nat /\ delivered'[h][p] \in Nat /\ faults \in Nat
        /\ delivered[h][p] + K <= faults + Owed(h, p)
    BY <1>3, DeliveredGrows DEF DeliveryInv, TypeOK
  <2>2. /\ K \in Nat
        /\ L = K + (IF in2 THEN 1 ELSE 0) - (IF in THEN 1 ELSE 0)
    BY <1>3, StragglerStep
  <2>3. /\ Owed(h, p) \in {0, 1} /\ Owed(h, p)' \in {0, 1}
        /\ faults' \in {faults, faults + 1}
        /\ faults' = faults => Owed(h, p)' >= Owed(h, p)
    <3>1. Owed(h, p) \in {0, 1} /\ Owed(h, p)' \in {0, 1}
      BY DEF Owed
    <3>2. faults' \in {faults, faults + 1}
      BY <2>1, FaultsStep
    <3> QED
      BY <1>3, <3>1, <3>2, OwedStep
  <2>4. CASE ConnectionLost(r)
    <3>1. /\ faults' = faults + 1 /\ delivered' = delivered /\ txn' = txn
          /\ pc[r] = "publish" /\ \A q \in Runner \ {r} : pc'[q] = pc[q]
          /\ ~in
      BY <2>4 DEF ConnectionLost, Fault, Goto, At, TypeOK, Straggler
    <3>2. CASE ~in2
      BY <2>1, <2>2, <2>3, <3>1, <3>2
    <3>3. CASE in2
      <4>1. here
        BY <3>1, <3>3 DEF Straggler
      <4>2. Owed(h, p)' >= Owed(h, p)
        <5>1. ASSUME NEW q \in Runner, txn[q].hash = h, Sent(q, p)
              PROVE  txn'[q].hash = h /\ Sent(q, p)'
          <6>1. q # r
            BY <3>1, <4>1, <5>1, <2>0 DEF Sent
          <6> QED
            BY <3>1, <5>1, <6>1 DEF Sent, Working
        <5>2. jobs' = jobs
          BY <2>4 DEF ConnectionLost, tables
        <5> QED
          BY <2>3, <5>1, <5>2 DEF Owed
      <4> QED
        BY <2>1, <2>2, <2>3, <3>1, <4>2
    <3> QED
      BY <3>2, <3>3
  <2>5. ASSUME ~ConnectionLost(r)
        PROVE  ~in2
    <3> SUFFICES pc'[r] # "late"
      BY DEF Straggler, At
    <3>0. pc \in [Runner -> Label]
      BY DEF TypeOK
    <3> USE DEF Goto
    <3>1. CASE \/ StartRun(r) \/ StartRunFails(r) \/ Ingest(r) \/ RunPipeline(r)
               \/ RunPipelineFails(r) \/ InsertJob(r) \/ InsertRejected(r) \/ InsertFails(r)
      BY <3>0, <3>1 DEF StartRun, StartRunFails, Ingest, RunPipeline, RunPipelineFails,
         InsertJob, InsertRejected, InsertFails, LoopLabel, MayStart, At
    <3>2. CASE \/ FormatAndInsertPost(r) \/ FormatFails(r) \/ StatementFails(r) \/ Publish(r)
               \/ PublishRefused(r) \/ PublishAnswerLost(r) \/ PublishLate(r)
      BY <3>0, <3>2 DEF FormatAndInsertPost, FormatFails, StatementFails, Publish,
         PublishRefused, PublishAnswerLost, PublishLate
    <3>3. CASE LogSuccess(r) \/ MarkJobPosted(r) \/ LogFailure(r)
      BY <3>0, <3>3 DEF LogSuccess, MarkJobPosted, LogFailure, PairLabel
    <3>4. CASE Commit(r) \/ CommitFails(r) \/ Rollback(r) \/ RollbackFails(r)
      BY <3>0, <3>4 DEF Commit, CommitFails, Rollback, RollbackFails, EndJob, LoopLabel
    <3>5. CASE \/ Finalise(r) \/ FinaliseFails(r) \/ RecordRunFailure(r)
               \/ RecordRunFailureFails(r) \/ Crash(r)
      BY <3>0, <3>5 DEF Finalise, FinaliseFails, RecordRunFailure, RecordRunFailureFails, Crash,
         Forget
    <3> QED
      BY <1>3, <2>5, <3>1, <3>2, <3>3, <3>4, <3>5 DEF Step, Failure
  <2>6. CASE delivered'[h][p] = delivered[h][p] /\ ~ConnectionLost(r)
    BY <2>1, <2>2, <2>3, <2>5, <2>6
  <2>7. CASE delivered'[h][p] # delivered[h][p]
    <3>1. /\ here /\ delivered'[h][p] = delivered[h][p] + 1
          /\ Publish(r) \/ PublishAnswerLost(r) \/ PublishLate(r)
          /\ ~ConnectionLost(r)
      <4>1. /\ Deliver(r) /\ txn[r].hash \in Hash /\ txn[r].plat \in Platform
            /\ Publish(r) \/ PublishAnswerLost(r) \/ PublishLate(r)
        BY <1>3, <2>7, DeliveredStep
      <4>2. delivered'[h][p] = IF here THEN delivered[h][p] + 1 ELSE delivered[h][p]
        <5>1. delivered \in [Hash -> [Platform -> Nat]]
          BY DEF TypeOK
        <5> QED
          BY <4>1, <5>1, Bump DEF Deliver
      <4>3. ~ConnectionLost(r)
        BY <4>1 DEF ConnectionLost, Publish, PublishAnswerLost, PublishLate, Goto, At, TypeOK
      <4> QED
        BY <2>7, <4>1, <4>2, <4>3
    <3>2. CASE PublishLate(r)
      <4>1. in
        BY <3>1, <3>2 DEF PublishLate, Straggler
      <4> QED
        BY <2>1, <2>2, <2>3, <2>5, <3>1, <4>1
    <3>3. CASE PublishAnswerLost(r)
      <4>1. /\ faults' = faults + 1 /\ jobs' = jobs /\ txn' = txn
            /\ pc[r] = "publish" /\ pc'[r] = "logfail" /\ \A q \in Runner \ {r} : pc'[q] = pc[q]
        BY <3>3 DEF PublishAnswerLost, Fault, Goto, At, TypeOK, tables
      <4>2. ASSUME NEW q \in Runner, txn[q].hash = h, Sent(q, p)
            PROVE  txn'[q].hash = h /\ Sent(q, p)'
        <5>1. q # r
          BY <3>1, <4>1, <4>2, <2>0 DEF Sent
        <5> QED
          BY <4>1, <4>2, <5>1 DEF Sent, Working
      <4>3. Owed(h, p)' >= Owed(h, p)
        BY <2>3, <4>1, <4>2 DEF Owed
      <4> QED
        BY <2>1, <2>2, <2>3, <2>5, <3>1, <4>1, <4>3
    <3>4. CASE Publish(r)
      <4>1. pc[r] = "publish" /\ pc'[r] = "log" /\ txn' = txn /\ Working(r)
        BY <3>4 DEF Publish, Goto, At, TypeOK, Working
      <4>2. h \notin jobs /\ \A q \in Runner : Working(q) /\ txn[q].hash = h => q = r
        <5>1. claim[r] = h /\ claim[r] # NoHash /\ h \notin jobs
          BY <3>1, <4>1, PipelineRunAssumption DEF ClaimInv
        <5> QED
          BY <5>1 DEF ClaimInv
      <4>3. Owed(h, p) = 0
        BY <3>1, <4>1, <4>2, <2>0 DEF Owed, Sent
      <4>4. Owed(h, p)' = 1
        BY <3>1, <4>1 DEF Owed, Sent, Working
      <4>5. ~in
        BY <4>1 DEF Straggler, At
      <4> QED
        BY <2>1, <2>2, <2>3, <2>5, <3>1, <4>3, <4>4, <4>5
    <3> QED
      BY <3>1, <3>2, <3>3, <3>4
  <2> QED
    BY <2>4, <2>6, <2>7
<1>4. ASSUME NEW r \in Runner, StartRun(r) \/ Step(r) \/ Failure(r)
      PROVE  DeliveryInv'
  <2>1. \A h \in Hash, p \in Platform :
          delivered'[h][p] + Cardinality(Straggler(h, p)') <= faults' + Owed(h, p)'
    BY <1>3, <1>4
  <2> QED
    BY <2>1 DEF DeliveryInv
<1> QED
  BY <1>1, <1>2, <1>4 DEF Next

-----------------------------------------------------------------------------
SafetyInv ==
  TypeOK /\ ClaimInv /\ LogInv /\ DeliveryInv /\ LoggedSuccessWasDelivered /\ StampMatchesLog

LEMMA InitSafety == Init => SafetyInv
<1> SUFFICES ASSUME Init PROVE SafetyInv
  OBVIOUS
<1>1. TypeOK /\ ClaimInv
  BY InitType, InitClaim
<1>2. \A r \in Runner : ~Working(r) /\ ~At(r, "late")
  BY DEF Init, Working, At
<1>3. LogInv
  BY <1>2 DEF LogInv
<1>4. DeliveryInv
  <2>1. ASSUME NEW h \in Hash, NEW p \in Platform
        PROVE  delivered[h][p] + Cardinality(Straggler(h, p)) <= faults + Owed(h, p)
    <3>1. Straggler(h, p) = {} /\ delivered[h][p] = 0 /\ faults = 0 /\ Owed(h, p) \in {0, 1}
      BY <1>2, <2>1 DEF Init, Straggler, Owed
    <3>2. Cardinality(Straggler(h, p)) = 0
      BY <3>1, FS_EmptySet
    <3> QED
      BY <3>1, <3>2
  <2> QED
    BY <2>1 DEF DeliveryInv
<1>5. \A h \in Hash, p \in Platform : ~Contains(plog[h][p], "success")
  BY ContainsEmpty DEF Init
<1>6. LoggedSuccessWasDelivered /\ StampMatchesLog
  BY <1>5 DEF Init, LoggedSuccessWasDelivered, StampMatchesLog
<1> QED
  BY <1>1, <1>3, <1>4, <1>6 DEF SafetyInv

LEMMA SafetyStep == SafetyInv /\ [Next]_vars => SafetyInv'
<1> SUFFICES ASSUME SafetyInv, [Next]_vars PROVE SafetyInv'
  OBVIOUS
<1>1. TypeOK' /\ ClaimInv'
  BY TypeStep, ClaimStep DEF SafetyInv
<1> QED
  BY <1>1, LogStep, DeliveryStep, LoggedStep, StampStep DEF SafetyInv

LEMMA SafetyInvariant == Spec => []SafetyInv
BY InitSafety, SafetyStep, PTL DEF Spec

(* On every platform a job is posted once, and once more at most for each  *)
(* fault: no interleaving of runners and no number of retries duplicates   *)
(* a post by itself.                                                       *)
THEOREM DuplicatesAreFaults == Spec => []DuplicatesCostFaults
<1>1. SafetyInv => DuplicatesCostFaults
  <2> SUFFICES ASSUME SafetyInv, NEW h \in Hash, NEW p \in Platform
               PROVE  delivered[h][p] <= 1 + faults
    BY DEF DuplicatesCostFaults
  <2>1. /\ delivered[h][p] \in Nat /\ faults \in Nat
        /\ delivered[h][p] + Cardinality(Straggler(h, p)) <= faults + Owed(h, p)
    BY DEF SafetyInv, TypeOK, DeliveryInv
  <2>2. Owed(h, p) \in {0, 1}
    BY DEF Owed
  <2>3. Cardinality(Straggler(h, p)) \in Nat
    <3>1. Straggler(h, p) \subseteq Runner
      BY DEF Straggler
    <3> QED
      BY <3>1, FS_Subset, FS_CardinalityType, PipelineRunAssumption
  <2> QED
    BY <2>1, <2>2, <2>3
<1> QED
  BY <1>1, SafetyInvariant, PTL

(* A success that publish_log shows is a post that went out.               *)
THEOREM LogIsTruthful == Spec => []LoggedSuccessWasDelivered
<1>1. SafetyInv => LoggedSuccessWasDelivered
  BY DEF SafetyInv
<1> QED
  BY <1>1, SafetyInvariant, PTL

(* posted_at is set on exactly the stored jobs with a logged success.      *)
THEOREM StampIsTruthful == Spec => []StampMatchesLog
<1>1. SafetyInv => StampMatchesLog
  BY DEF SafetyInv
<1> QED
  BY <1>1, SafetyInvariant, PTL

(* What the tables say of a stored job never changes, and no runner that   *)
(* still has its transaction posts the job again.                          *)
THEOREM StoredIsFinal == Spec => PersistedIsFinal
<1> DEFINE Final == \A h \in jobs :
       /\ h \in jobs' /\ plog'[h] = plog[h] /\ (h \in postedAt' <=> h \in postedAt)
       /\ delivered'[h] # delivered[h] =>
            \E r \in Runner : pc[r] = "late" /\ txn[r].hash = h
<1>1. ASSUME TypeOK, ClaimInv, [Next]_vars
      PROVE  Final \/ UNCHANGED vars
  <2>1. CASE UNCHANGED vars
    BY <2>1
  <2>2. CASE AllRunsDone
    BY <2>2 DEF AllRunsDone
  <2>3. ASSUME NEW r \in Runner, StartRun(r) \/ Step(r) \/ Failure(r), NEW h \in jobs
        PROVE  /\ h \in jobs' /\ plog'[h] = plog[h] /\ (h \in postedAt' <=> h \in postedAt)
               /\ delivered'[h] # delivered[h] => pc[r] = "late" /\ txn[r].hash = h
    <3>1. h \in jobs' /\ plog'[h] = plog[h] /\ (h \in postedAt' <=> h \in postedAt)
      <4>1. h \in Hash /\ plog \in [Hash -> [Platform -> Seq(Status)]]
        BY <1>1 DEF TypeOK
      <4>2. CASE UNCHANGED tables
        BY <4>2 DEF tables
      <4>3. CASE Persist(r) /\ txn[r].hash \notin jobs
        BY <4>1, <4>3 DEF Persist
      <4> QED
        BY <1>1, <2>3, <4>2, <4>3, TablesStep
    <3>2. ASSUME delivered'[h] # delivered[h]
          PROVE  pc[r] = "late" /\ txn[r].hash = h
      <4>1. /\ pc[r] \in {"publish", "late"}
            /\ txn[r].hash \in Hash /\ txn[r].plat \in Platform
            /\ Deliver(r)
        BY <1>1, <2>3, <3>2, DeliveredStep
      <4>2. txn[r].hash = h
        <5>1. CASE txn[r].hash # h
          BY <1>1, <3>2, <4>1, <5>1 DEF Deliver, TypeOK
        <5> QED
          BY <5>1
      <4>3. pc[r] # "publish"
        BY <1>1, <4>2, PipelineRunAssumption DEF ClaimInv, Working, TypeOK
      <4> QED
        BY <4>1, <4>2, <4>3
    <3> QED
      BY <3>1, <3>2
  <2> QED
    BY <1>1, <2>1, <2>2, <2>3 DEF Next
<1>2. TypeOK /\ ClaimInv /\ [Next]_vars => [Final]_vars
  BY <1>1
<1>3. PersistedIsFinal <=> [][Final]_vars
  BY PTL DEF PersistedIsFinal
<1> HIDE DEF Final
<1> QED
  BY <1>2, <1>3, ClaimsAreExclusive, PTL DEF Spec

-----------------------------------------------------------------------------
(* Every step of a run is a step of JobLedger, or changes nothing it shows. *)

(* A runner that drops its claim leaves the job without an owner.          *)
LEMMA OwnerLeaves ==
  ASSUME TypeOK, ClaimInv, NEW r \in Runner, claim[r] \in Hash, DropClaim(r)
  PROVE  /\ r \in owners[claim[r]]
         /\ owners' = [owners EXCEPT ![claim[r]] = {}]
<1>1. \A q \in Runner : claim'[q] = IF q = r THEN NoHash ELSE claim[q]
  BY DEF DropClaim, TypeOK
<1>2. \A q \in Runner : claim[q] = claim[r] => q = r
  BY PipelineRunAssumption DEF ClaimInv
<1>3. ASSUME NEW h \in Hash
      PROVE  owners'[h] = [owners EXCEPT ![claim[r]] = {}][h]
  <2>1. owners'[h] = {q \in Runner : claim'[q] = h}
    BY DEF owners
  <2>2. CASE h = claim[r]
    <3>1. \A q \in Runner : claim'[q] # h
      BY <1>1, <1>2, <2>2, PipelineRunAssumption
    <3> QED
      BY <2>1, <2>2, <3>1 DEF owners
  <2>3. CASE h # claim[r]
    <3>1. \A q \in Runner : claim'[q] = h <=> claim[q] = h
      BY <1>1, <2>3, PipelineRunAssumption
    <3> QED
      BY <2>1, <2>3, <3>1 DEF owners
  <2> QED
    BY <2>2, <2>3
<1> QED
  BY <1>3 DEF owners

(* A runner without a claim that drops it again changes no owner.          *)
LEMMA NothingToDrop ==
  ASSUME TypeOK, NEW r \in Runner, claim[r] = NoHash, DropClaim(r)
  PROVE  claim' = claim
BY DEF DropClaim, TypeOK

(* What a step does to the evicted runners is what it does to r.           *)
LEMMA LateStep ==
  ASSUME TypeOK, TypeOK', NEW r \in Runner, StartRun(r) \/ Step(r) \/ Failure(r)
  PROVE  /\ late \in [Runner -> Hash \cup {NoHash}]
         /\ late' = [late EXCEPT ![r] = IF pc'[r] = "late" THEN txn'[r].hash ELSE NoHash]
<1>1. late \in [Runner -> Hash \cup {NoHash}]
  <2>1. \A q \in Runner : txn[q].hash \in Hash \cup {NoHash}
    BY DEF TypeOK, Txn
  <2> QED
    BY <2>1 DEF late
<1>2. \A q \in Runner \ {r} : late'[q] = late[q]
  BY LocalStep DEF late
<1>3. late'[r] = IF pc'[r] = "late" THEN txn'[r].hash ELSE NoHash
  BY DEF late
<1>4. DOMAIN late' = Runner /\ late' = [q \in Runner |-> late'[q]]
  BY DEF late
<1> QED
  BY <1>1, <1>2, <1>3, <1>4

(* A step that touches no claim, no stored job and no post, and that       *)
(* neither makes nor ends a late attempt, is a stutter of the ledger.      *)
LEMMA Stutter ==
  ASSUME TypeOK, TypeOK', NEW r \in Runner, StartRun(r) \/ Step(r) \/ Failure(r),
         claim' = claim, jobs' = jobs, delivered' = delivered,
         pc[r] # "late", pc'[r] # "late"
  PROVE  UNCHANGED Ledger!vars
<1>1. owners' = owners
  BY DEF owners
<1>2. late[r] = NoHash /\ late' = [late EXCEPT ![r] = NoHash]
  BY LateStep DEF late
<1>3. late' = late
  BY <1>2, LateStep
<1> QED
  BY <1>1, <1>3 DEF Ledger!vars

(* A runner leaves its transaction without storing the job, outside of a   *)
(* late attempt.                                                           *)
LEMMA Leave ==
  ASSUME TypeOK, TypeOK', ClaimInv, NEW r \in Runner, StartRun(r) \/ Step(r) \/ Failure(r),
         DropClaim(r), jobs' = jobs, delivered' = delivered,
         pc[r] # "late", pc'[r] # "late"
  PROVE  Ledger!Next \/ UNCHANGED Ledger!vars
<1>1. CASE claim[r] = NoHash
  BY <1>1, NothingToDrop, Stutter
<1>2. CASE claim[r] # NoHash
  <2>1. claim[r] \in Hash
    BY <1>2 DEF TypeOK
  <2>2. /\ r \in owners[claim[r]]
        /\ owners' = [owners EXCEPT ![claim[r]] = {}]
    BY <2>1, OwnerLeaves
  <2>3. late[r] = NoHash /\ late' = [late EXCEPT ![r] = NoHash]
    BY LateStep DEF late
  <2>4. late' = late
    BY <2>3, LateStep
  <2>5. Ledger!Release(r, claim[r])
    BY <2>2, <2>4 DEF Ledger!Release
  <2> QED
    BY <2>1, <2>5 DEF Ledger!Next
<1> QED
  BY <1>1, <1>2

LEMMA RefinementStep ==
  ASSUME TypeOK, TypeOK', ClaimInv, [Next]_vars
  PROVE  Ledger!Next \/ UNCHANGED Ledger!vars
<1> USE DEF Goto, At
<1>1. CASE UNCHANGED vars
  BY <1>1 DEF vars, Ledger!vars, owners, late
<1>2. CASE AllRunsDone
  BY <1>2 DEF AllRunsDone, vars, Ledger!vars, owners, late
<1>3. ASSUME NEW r \in Runner, StartRun(r) \/ Step(r) \/ Failure(r)
      PROVE  Ledger!Next \/ UNCHANGED Ledger!vars
  <2>0. /\ pc \in [Runner -> Label] /\ claim \in [Runner -> Hash \cup {NoHash}]
        /\ txn \in [Runner -> Txn] /\ txn[r].plat \in Platform
    BY DEF TypeOK, Txn
  <2>1. CASE InsertJob(r)
    <3>1. PICK i \in todo[r] :
            /\ HashFree(HashAt(raw[r], i)) /\ HashAt(raw[r], i) \notin jobs
            /\ claim' = [claim EXCEPT ![r] = HashAt(raw[r], i)]
      BY <2>1 DEF InsertJob
    <3> DEFINE g == HashAt(raw[r], i)
    <3>2. g \in Hash
      BY PipelineAssumption DEF HashAt, TypeOK
    <3>3. claim[r] = NoHash /\ pc[r] = "insert" /\ pc'[r] = "format"
      BY <2>0, <2>1 DEF InsertJob, ClaimInv, Working
    <3>4. /\ jobs' = jobs /\ delivered' = delivered
      BY <2>1 DEF InsertJob, tables
    <3> HIDE DEF g
    <3>5. owners[g] = {} /\ \A h \in Hash : r \notin owners[h]
      BY <3>1, <3>2, <3>3, PipelineRunAssumption DEF owners, HashFree, g
    <3>6. owners' = [owners EXCEPT ![g] = {r}]
      <4>1. \A q \in Runner : claim'[q] = IF q = r THEN g ELSE claim[q]
        BY <2>0, <3>1 DEF g
      <4>2. ASSUME NEW h \in Hash
            PROVE  {q \in Runner : claim'[q] = h} = [owners EXCEPT ![g] = {r}][h]
        <5>1. CASE h = g
          BY <3>1, <3>2, <4>1, <5>1 DEF owners, HashFree, g
        <5>2. CASE h # g
          BY <3>3, <4>1, <5>2, PipelineRunAssumption DEF owners
        <5> QED
          BY <5>1, <5>2
      <4> QED
        BY <4>2 DEF owners
    <3>7. late[r] = NoHash /\ late' = late
      BY <1>3, <3>3, LateStep DEF late
    <3>8. Ledger!Claim(r, g)
      BY <3>1, <3>4, <3>5, <3>6, <3>7 DEF Ledger!Claim, Ledger!Owned, g
    <3> QED
      BY <3>2, <3>8 DEF Ledger!Next
  <2>2. CASE Publish(r) \/ PublishAnswerLost(r)
    <3>1. /\ pc[r] = "publish" /\ pc'[r] \in {"log", "logfail"} /\ Deliver(r)
          /\ claim' = claim /\ jobs' = jobs /\ claim[r] = txn[r].hash /\ txn[r].hash \in Hash
      BY <2>0, <2>2 DEF Publish, PublishAnswerLost, tables, ClaimInv, Working
    <3>2. r \in owners[txn[r].hash] /\ owners' = owners
      BY <3>1 DEF owners
    <3>3. late' = late
      BY <1>3, <3>1, LateStep DEF late
    <3>4. Ledger!Deliver(r, txn[r].hash, txn[r].plat)
      BY <3>1, <3>2, <3>3 DEF Ledger!Deliver, Ledger!Post, Deliver
    <3> QED
      BY <2>0, <3>1, <3>4 DEF Ledger!Next
  <2>3. CASE ConnectionLost(r)
    <3>1. /\ pc[r] = "publish" /\ pc'[r] = "late" /\ txn' = txn /\ delivered' = delivered
          /\ DropClaim(r) /\ jobs' = jobs /\ claim[r] = txn[r].hash /\ txn[r].hash \in Hash
      BY <2>0, <2>3 DEF ConnectionLost, tables, ClaimInv, Working
    <3>2. r \in owners[txn[r].hash] /\ owners' = [owners EXCEPT ![txn[r].hash] = {}]
      BY <3>1, OwnerLeaves
    <3>3. late' = [late EXCEPT ![r] = txn[r].hash]
      BY <1>3, <3>1, LateStep
    <3>4. Ledger!Evict(r, txn[r].hash)
      BY <3>1, <3>2, <3>3 DEF Ledger!Evict
    <3> QED
      BY <3>1, <3>4 DEF Ledger!Next
  <2>4. CASE pc[r] = "late" /\ (PublishLate(r) \/ Crash(r))
    <3>1. /\ claim[r] = NoHash /\ txn[r].hash \in Hash
      BY <2>4 DEF ClaimInv, Working
    <3>2. /\ pc'[r] \in {"rollback", "idle"} /\ claim' = claim /\ jobs' = jobs
          /\ UNCHANGED delivered \/ Deliver(r)
      BY <2>0, <2>4, <3>1, NothingToDrop DEF PublishLate, Crash, tables
    <3>3. owners' = owners /\ late[r] = txn[r].hash /\ late' = [late EXCEPT ![r] = NoHash]
      BY <1>3, <2>4, <3>2, LateStep DEF owners, late
    <3>4. Ledger!EndLate(r)
      BY <2>0, <3>1, <3>2, <3>3, PipelineRunAssumption DEF Ledger!EndLate, Ledger!Post, Deliver
    <3> QED
      BY <3>4 DEF Ledger!Next
  <2>5. CASE (Commit(r) \/ CommitFails(r)) /\ Persist(r)
    <3>1. /\ pc[r] = "commit" /\ pc'[r] # "late" /\ DropClaim(r) /\ delivered' = delivered
          /\ claim[r] = txn[r].hash /\ txn[r].hash \in Hash /\ jobs' = jobs \cup {txn[r].hash}
      BY <2>0, <2>5 DEF Commit, CommitFails, EndJob, LoopLabel, Persist, ClaimInv, Working
    <3>2. r \in owners[txn[r].hash] /\ owners' = [owners EXCEPT ![txn[r].hash] = {}]
      BY <3>1, OwnerLeaves
    <3>3. late[r] = NoHash /\ late' = late
      BY <1>3, <3>1, LateStep DEF late
    <3>4. Ledger!Store(r, txn[r].hash)
      BY <3>1, <3>2, <3>3 DEF Ledger!Store
    <3> QED
      BY <3>1, <3>4 DEF Ledger!Next
  <2>6. CASE \/ CommitFails(r) /\ UNCHANGED tables
             \/ StatementFails(r) \/ Rollback(r) \/ RollbackFails(r)
             \/ Crash(r) /\ pc[r] # "late"
    <3>1. /\ pc[r] # "late" /\ pc'[r] # "late" /\ DropClaim(r) /\ delivered' = delivered
          /\ jobs' = jobs
      BY <2>0, <2>6 DEF CommitFails, StatementFails, Rollback, RollbackFails, Crash, EndJob,
         LoopLabel, tables
    <3> QED
      BY <1>3, <3>1, Leave
  <2>7. CASE \/ StartRun(r) \/ StartRunFails(r) \/ Ingest(r) \/ RunPipeline(r)
             \/ RunPipelineFails(r) \/ InsertRejected(r) \/ InsertFails(r)
             \/ FormatAndInsertPost(r) \/ FormatFails(r) \/ PublishRefused(r)
             \/ LogSuccess(r) \/ MarkJobPosted(r) \/ LogFailure(r) \/ Finalise(r)
             \/ FinaliseFails(r) \/ RecordRunFailure(r) \/ RecordRunFailureFails(r)
    <3>1. /\ pc[r] # "late" /\ pc'[r] # "late" /\ claim' = claim /\ delivered' = delivered
          /\ jobs' = jobs
      BY <2>0, <2>7
      DEF StartRun, StartRunFails, MayStart, Ingest, RunPipeline, RunPipelineFails,
          InsertRejected, InsertFails, FormatAndInsertPost, FormatFails, PublishRefused,
          LogSuccess, MarkJobPosted, LogFailure, Finalise, FinaliseFails, RecordRunFailure,
          RecordRunFailureFails, LoopLabel, PairLabel, tables
    <3> QED
      BY <1>3, <3>1, Stutter
  <2>8. PublishLate(r) => pc[r] = "late"
    BY DEF PublishLate
  <2>9. CommitFails(r) => Persist(r) \/ UNCHANGED tables
    BY DEF CommitFails
  <2>10. Commit(r) => Persist(r)
    BY DEF Commit
  <2> QED
    BY <1>3, <2>1, <2>2, <2>3, <2>4, <2>5, <2>6, <2>7, <2>8, <2>9, <2>10 DEF Step, Failure
<1> QED
  BY <1>1, <1>2, <1>3 DEF Next

(* The runs implement the ledger of jobs, for any number of runners, runs, *)
(* platforms, retries and faults: a job has one owner at a time, only the  *)
(* owner posts and stores it, and a stored job stays as it is.             *)
THEOREM RunsImplementLedger == Spec => ImplementsLedger
<1>1. Init => Ledger!Init
  <2> SUFFICES ASSUME Init PROVE Ledger!Init
    OBVIOUS
  <2>1. owners = [h \in Hash |-> {}]
    BY PipelineRunAssumption DEF Init, owners
  <2>2. late = [r \in Runner |-> NoHash]
    BY DEF Init, late
  <2> QED
    BY <2>1, <2>2 DEF Init, Ledger!Init
<1>2. TypeOK /\ ClaimInv /\ [Next]_vars => [Ledger!Next]_Ledger!vars
  BY TypeStep, RefinementStep
<1> QED
  BY <1>1, <1>2, ClaimsAreExclusive, PTL DEF Spec, ImplementsLedger, Ledger!Spec

-----------------------------------------------------------------------------
(***************************************************************************)
(* What the runs leave behind: the rows of run_log, and the attempts in    *)
(* publish_log.                                                            *)
(***************************************************************************)

(* The row of a run is there while the run is active, and unfinished until *)
(* it is finalised; after a failure it may be finished already, with no    *)
(* more errors than will be written then, and the same posts.              *)
LastRow(r) == runLog[r][Len(runLog[r])]
RowsInv ==
  \A r \in Runner :
    /\ ~At(r, "idle") => runLog[r] # << >>
    /\ pc[r] \notin {"idle", "record"} => ~LastRow(r).finished
    /\ At(r, "record") /\ LastRow(r).finished =>
         /\ LastRow(r).counts.posted = counts[r].posted
         /\ LastRow(r).counts.errors <= counts[r].errors

(* Unfinished rows that no active run will finish.                         *)
Orphan(r, i) ==
  /\ i \in DOMAIN runLog[r] /\ ~runLog[r][i].finished
  /\ At(r, "idle") \/ i # Len(runLog[r])
Orphans == {x \in Runner \X Nat : Orphan(x[1], x[2])}
OrphansInv == IsFiniteSet(Orphans) /\ Cardinality(Orphans) <= faults

-----------------------------------------------------------------------------
(* What a step of r does to its row: begin one, leave it, finish it; the   *)
(* last two also on the way to the failure record.                         *)
Begins(r) ==
  /\ At(r, "idle") /\ runLog' = NewRunRow(r) /\ pc'[r] = "ingest"
BeginFails(r) ==
  /\ At(r, "idle") /\ runLog' \in {runLog, NewRunRow(r)} /\ pc'[r] = "idle"
Continues(r) ==
  /\ pc[r] \notin {"idle", "record"} /\ pc'[r] # "idle" /\ UNCHANGED runLog
Ends(r) ==
  /\ pc[r] \in {"finalise", "record"} /\ pc'[r] = "idle" /\ FinishRow(r, counts[r])
Abandons(r) ==
  /\ ~At(r, "idle") /\ pc'[r] = "idle" /\ UNCHANGED runLog
Repeats(r) ==
  /\ At(r, "finalise") /\ pc'[r] = "record" /\ FinishRow(r, counts[r])
  /\ counts'[r] = [counts[r] EXCEPT !.errors = @ + 1]

LEMMA RecordStep ==
  ASSUME TypeOK, NEW r \in Runner, StartRun(r) \/ Step(r) \/ Failure(r)
  PROVE  \/ Begins(r) \/ Continues(r) \/ Repeats(r) \/ Ends(r)
         \/ (BeginFails(r) \/ Abandons(r) \/ Ends(r)) /\ faults' = faults + 1
<1> USE DEF Goto, At
<1>0. pc \in [Runner -> Label] /\ counts \in [Runner -> Counts]
  BY DEF TypeOK
<1>1. CASE StartRun(r)
  BY <1>0, <1>1 DEF StartRun, MayStart, Begins
<1>2. CASE StartRunFails(r)
  BY <1>0, <1>2 DEF StartRunFails, MayStart, BeginFails, Fault
<1>3. CASE Ingest(r) \/ RunPipeline(r) \/ RunPipelineFails(r)
  BY <1>0, <1>3 DEF Ingest, RunPipeline, RunPipelineFails, Continues, LoopLabel
<1>4. CASE InsertJob(r) \/ InsertRejected(r) \/ InsertFails(r) \/ FormatAndInsertPost(r)
             \/ FormatFails(r) \/ StatementFails(r)
  BY <1>0, <1>4 DEF InsertJob, InsertRejected, InsertFails, FormatAndInsertPost, FormatFails,
     StatementFails, Continues
<1>5. CASE Publish(r) \/ PublishRefused(r) \/ PublishAnswerLost(r) \/ ConnectionLost(r)
             \/ PublishLate(r)
  BY <1>0, <1>5 DEF Publish, PublishRefused, PublishAnswerLost, ConnectionLost, PublishLate,
     Continues
<1>6. CASE LogSuccess(r) \/ MarkJobPosted(r) \/ LogFailure(r)
  BY <1>0, <1>6 DEF LogSuccess, MarkJobPosted, LogFailure, PairLabel, Continues
<1>7. CASE Commit(r) \/ CommitFails(r) \/ Rollback(r) \/ RollbackFails(r)
  BY <1>0, <1>7 DEF Commit, CommitFails, Rollback, RollbackFails, EndJob, LoopLabel, Continues
<1>8. CASE Finalise(r) \/ RecordRunFailure(r)
  BY <1>0, <1>8 DEF Finalise, RecordRunFailure, Ends
<1>9. CASE FinaliseFails(r)
  BY <1>0, <1>9 DEF FinaliseFails, AddErrors, Repeats, Continues
<1>10. CASE RecordRunFailureFails(r) \/ Crash(r)
  BY <1>0, <1>10 DEF RecordRunFailureFails, Crash, Ends, Abandons, Fault
<1> QED
  BY <1>1, <1>2, <1>3, <1>4, <1>5, <1>6, <1>7, <1>8, <1>9, <1>10 DEF Step, Failure

LEMMA Appended ==
  ASSUME NEW S, NEW s \in Seq(S), NEW x \in S
  PROVE  /\ Len(s) \in Nat /\ DOMAIN s = 1..Len(s)
         /\ Len(Append(s, x)) = Len(s) + 1 /\ DOMAIN Append(s, x) = 1..(Len(s) + 1)
         /\ \A i \in 1..Len(s) : Append(s, x)[i] = s[i]
         /\ Append(s, x)[Len(s) + 1] = x
<1>1. Append(s, x) \in Seq(S) /\ Len(Append(s, x)) = Len(s) + 1
  BY AppendProperties
<1> QED
  BY <1>1, AppendProperties, LenProperties

(* The rows after a row was begun, and after one was finished.             *)
LEMMA BegunRows ==
  ASSUME TypeOK, NEW r \in Runner, runLog' = NewRunRow(r)
  PROVE  /\ \A q \in Runner : q # r => runLog'[q] = runLog[q]
         /\ Len(runLog[r]) \in Nat /\ Len(runLog'[r]) = Len(runLog[r]) + 1
         /\ DOMAIN runLog'[r] = 1..(Len(runLog[r]) + 1) /\ DOMAIN runLog[r] = 1..Len(runLog[r])
         /\ \A i \in 1..Len(runLog[r]) : runLog'[r][i] = runLog[r][i]
         /\ LastRow(r)' = RunRow(FALSE, NoCounts)
<1> DEFINE before == runLog[r]
           row == RunRow(FALSE, NoCounts)
           after == Append(before, row)
<1>1. before \in Seq(Row) /\ row \in Row
  BY RunRowType, NoCountsType DEF TypeOK
<1>2. /\ runLog'[r] = after
      /\ \A q \in Runner : q # r => runLog'[q] = runLog[q]
  BY DEF TypeOK, NewRunRow
<1> HIDE DEF before, row
<1>3. /\ Len(before) \in Nat /\ DOMAIN before = 1..Len(before)
      /\ Len(after) = Len(before) + 1 /\ DOMAIN after = 1..(Len(before) + 1)
      /\ \A i \in 1..Len(before) : after[i] = before[i]
      /\ after[Len(before) + 1] = row
  BY <1>1, Appended
<1> HIDE DEF after
<1>4. LastRow(r)' = row
  BY <1>2, <1>3 DEF LastRow
<1> QED
  BY <1>2, <1>3, <1>4 DEF before, row

LEMMA FinishedRows ==
  ASSUME TypeOK, NEW r \in Runner, runLog[r] # << >>, FinishRow(r, counts[r])
  PROVE  /\ \A q \in Runner : q # r => runLog'[q] = runLog[q]
         /\ Len(runLog[r]) \in Nat /\ Len(runLog'[r]) = Len(runLog[r])
         /\ Len(runLog[r]) \in DOMAIN runLog[r] /\ DOMAIN runLog'[r] = DOMAIN runLog[r]
         /\ DOMAIN runLog[r] = 1..Len(runLog[r])
         /\ \A i \in DOMAIN runLog[r] :
              runLog'[r][i] = IF i = Len(runLog[r]) THEN RunRow(TRUE, counts[r]) ELSE runLog[r][i]
<1>1. runLog[r] \in Seq(Row) /\ runLog \in [Runner -> Seq(Row)]
  BY DEF TypeOK
<1>2. /\ DOMAIN runLog[r] = 1..Len(runLog[r]) /\ Len(runLog[r]) \in Nat
      /\ Len(runLog[r]) \in DOMAIN runLog[r]
  BY <1>1, LenProperties, EmptySeq
<1>3. runLog'[r] = [runLog[r] EXCEPT ![Len(runLog[r])] = RunRow(TRUE, counts[r])]
  BY <1>1 DEF FinishRow
<1>4. runLog'[r] \in Seq(Row)
  BY FinishRowType DEF TypeOK
<1>5. DOMAIN runLog'[r] = DOMAIN runLog[r]
  BY <1>3
<1>6. Len(runLog'[r]) = Len(runLog[r])
  BY <1>2, <1>4, <1>5, LenProperties
<1>7. \A q \in Runner : q # r => runLog'[q] = runLog[q]
  BY <1>1 DEF FinishRow
<1>8. \A i \in DOMAIN runLog[r] :
        runLog'[r][i] = IF i = Len(runLog[r]) THEN RunRow(TRUE, counts[r]) ELSE runLog[r][i]
  BY <1>1, <1>2, <1>3
<1> QED
  BY <1>2, <1>5, <1>6, <1>7, <1>8

LEMMA OtherRows ==
  ASSUME TypeOK, RowsInv, NEW r \in Runner, StartRun(r) \/ Step(r) \/ Failure(r),
         NEW q \in Runner, q # r
  PROVE  runLog'[q] = runLog[q] /\ counts'[q] = counts[q] /\ pc'[q] = pc[q]
<1>1. pc'[q] = pc[q]
  BY LocalStep
<1>2. runLog'[q] = runLog[q]
  <2>1. CASE runLog' = NewRunRow(r)
    BY <2>1, BegunRows
  <2>2. CASE FinishRow(r, counts[r])
    BY <2>2 DEF FinishRow, TypeOK
  <2> QED
    BY <2>1, <2>2, RecordStep DEF Begins, BeginFails, Continues, Repeats, Ends, Abandons
<1>3. counts'[q] = counts[q]
  <2>1. counts \in [Runner -> Counts]
    BY DEF TypeOK
  <2> QED
    BY <2>1 DEF StartRun, Step, Failure, StartRunFails, Ingest, RunPipeline, RunPipelineFails,
       InsertJob, InsertRejected, InsertFails, FormatAndInsertPost, FormatFails, StatementFails,
       Publish, PublishRefused, PublishAnswerLost, ConnectionLost, PublishLate, LogSuccess,
       MarkJobPosted, LogFailure, Commit, CommitFails, Rollback, RollbackFails, Finalise,
       FinaliseFails, RecordRunFailure, RecordRunFailureFails, Crash, AddErrors, Forget
<1> QED
  BY <1>1, <1>2, <1>3

-----------------------------------------------------------------------------
LEMMA InitRows == Init => RowsInv
BY DEF Init, RowsInv, At

LEMMA RowsStep ==
  ASSUME TypeOK, TypeOK', RowsInv, [Next]_vars
  PROVE  RowsInv'
<1>1. CASE UNCHANGED vars
  BY <1>1 DEF vars, RowsInv, LastRow, At
<1>2. CASE AllRunsDone
  BY <1>2 DEF AllRunsDone, vars, RowsInv, LastRow, At
<1>3. ASSUME NEW r \in Runner, StartRun(r) \/ Step(r) \/ Failure(r)
      PROVE  RowsInv'
  <2> DEFINE Inv(q) ==
        /\ ~At(q, "idle") => runLog[q] # << >>
        /\ pc[q] \notin {"idle", "record"} => ~LastRow(q).finished
        /\ At(q, "record") /\ LastRow(q).finished =>
             /\ LastRow(q).counts.posted = counts[q].posted
             /\ LastRow(q).counts.errors <= counts[q].errors
  <2>0. Inv(r)
    BY DEF RowsInv
  <2>1. ASSUME NEW q \in Runner, q # r PROVE Inv(q)'
    <3>1. runLog'[q] = runLog[q] /\ counts'[q] = counts[q] /\ pc'[q] = pc[q]
      BY <1>3, <2>1, OtherRows
    <3> QED
      BY <3>1 DEF RowsInv, LastRow, At
  <2>2. Inv(r)'
    <3>1. CASE Begins(r)
      <4>1. Len(runLog'[r]) > 0 /\ ~LastRow(r)'.finished
        BY <3>1, BegunRows DEF Begins, RunRow
      <4> QED
        BY <3>1, <4>1 DEF Begins, At
    <3>2. CASE Continues(r)
      BY <2>0, <3>2 DEF Continues, LastRow, At
    <3>3. CASE Repeats(r)
      <4>1. runLog[r] # << >>
        BY <2>0, <3>3 DEF Repeats, At
      <4>2. Len(runLog'[r]) = Len(runLog[r]) /\ LastRow(r)' = RunRow(TRUE, counts[r])
        BY <3>3, <4>1, FinishedRows DEF Repeats, LastRow
      <4>3. runLog'[r] # << >>
        BY <4>1, <4>2, EmptySeq DEF TypeOK
      <4>4. counts[r] \in Counts /\ counts'[r] = [counts[r] EXCEPT !.errors = @ + 1]
        BY <3>3 DEF Repeats, TypeOK
      <4>5. counts'[r].posted = counts[r].posted /\ counts[r].errors <= counts'[r].errors
        BY <4>4 DEF Counts
      <4> QED
        BY <3>3, <4>2, <4>3, <4>5 DEF Repeats, At, RunRow
    <3>4. CASE Ends(r) \/ BeginFails(r) \/ Abandons(r)
      BY <3>4 DEF Ends, BeginFails, Abandons, At
    <3> QED
      BY <1>3, <3>1, <3>2, <3>3, <3>4, RecordStep
  <2>3. \A q \in Runner : Inv(q)'
    BY <2>1, <2>2
  <2> QED
    BY <2>3 DEF RowsInv
<1> QED
  BY <1>1, <1>2, <1>3 DEF Next

LEMMA RowsInvariant == Spec => [](TypeOK /\ RowsInv)
<1>1. RowsInv /\ (TypeOK /\ [Next]_vars) /\ TypeOK' => RowsInv'
  BY RowsStep
<1> QED
  BY <1>1, InitRows, TypeCorrect, PTL DEF Spec

(* A finished row of run_log stays finished with the posts it counts; a    *)
(* second UPDATE, after a commit that was applied and raised, only adds to *)
(* its errors (pipeline_run, _record_run_failure).                         *)
THEOREM FinishedRunsStand == Spec => FinishedRowsStand
<1> DEFINE Stands(r, i) ==
      runLog[r][i].finished =>
        /\ i \in DOMAIN runLog'[r] /\ runLog'[r][i].finished
        /\ runLog'[r][i].counts.errors >= runLog[r][i].counts.errors
        /\ runLog'[r][i].counts.posted = runLog[r][i].counts.posted
<1> DEFINE Stand == \A r \in Runner : \A i \in DOMAIN runLog[r] : Stands(r, i)
<1>1. ASSUME TypeOK, RowsInv, [Next]_vars
      PROVE  Stand \/ UNCHANGED vars
  <2>1. CASE UNCHANGED vars \/ AllRunsDone
    BY <2>1 DEF AllRunsDone
  <2>2. ASSUME NEW r \in Runner, StartRun(r) \/ Step(r) \/ Failure(r),
               NEW q \in Runner, NEW i \in DOMAIN runLog[q]
        PROVE  Stands(q, i)
    <3>0. runLog[q][i].counts.errors \in Nat
      <4>1. runLog[q] \in Seq(Row)
        BY <1>1 DEF TypeOK
      <4>2. runLog[q][i] \in Row
        BY <4>1, LenProperties, ElementOfSeq
      <4> QED
        BY <4>2 DEF Row, Counts
    <3>1. CASE runLog'[q] = runLog[q]
      BY <3>0, <3>1
    <3>2. CASE q = r /\ runLog' = NewRunRow(r)
      <4>0. /\ Len(runLog[r]) \in Nat /\ DOMAIN runLog[r] = 1..Len(runLog[r])
            /\ DOMAIN runLog'[r] = 1..(Len(runLog[r]) + 1)
            /\ \A j \in 1..Len(runLog[r]) : runLog'[r][j] = runLog[r][j]
        BY <1>1, <3>2, BegunRows
      <4>1. i \in DOMAIN runLog'[r] /\ runLog'[r][i] = runLog[r][i]
        BY <3>2, <4>0
      <4> QED
        BY <3>0, <3>2, <4>1
    <3>3. CASE q = r /\ pc[r] \in {"finalise", "record"} /\ FinishRow(r, counts[r])
      <4>1. runLog[r] # << >>
        BY <1>1, <3>3 DEF RowsInv, At
      <4>2. i \in DOMAIN runLog'[r]
        BY <1>1, <3>3, <4>1, FinishedRows
      <4>3. CASE i # Len(runLog[r])
        <5>1. runLog'[r][i] = runLog[r][i]
          BY <1>1, <3>3, <4>1, <4>3, FinishedRows
        <5> QED
          BY <3>0, <3>3, <4>2, <5>1
      <4>4. CASE i = Len(runLog[r])
        <5>1. runLog'[r][i] = RunRow(TRUE, counts[r])
          BY <1>1, <3>3, <4>1, <4>4, FinishedRows
        <5>2. runLog[r][i].finished =>
                /\ runLog[r][i].counts.posted = counts[r].posted
                /\ runLog[r][i].counts.errors <= counts[r].errors
          BY <1>1, <3>3, <4>4 DEF RowsInv, LastRow, At
        <5>3. counts[r].errors \in Nat
          BY <1>1 DEF TypeOK, Counts
        <5> QED
          BY <3>0, <3>3, <4>2, <5>1, <5>2, <5>3 DEF RunRow
      <4> QED
        BY <4>3, <4>4
    <3>4. q # r => runLog'[q] = runLog[q]
      BY <1>1, <2>2, OtherRows
    <3> QED
      BY <1>1, <2>2, <3>1, <3>2, <3>3, <3>4, RecordStep
      DEF Begins, BeginFails, Continues, Repeats, Ends, Abandons, At
  <2> QED
    BY <1>1, <2>1, <2>2 DEF Next
<1>2. TypeOK /\ RowsInv /\ [Next]_vars => [Stand]_vars
  BY <1>1
<1>3. FinishedRowsStand <=> [][Stand]_vars
  BY PTL DEF FinishedRowsStand
<1> HIDE DEF Stand
<1> QED
  BY <1>2, <1>3, RowsInvariant, PTL DEF Spec

-----------------------------------------------------------------------------
(* One step orphans at most the last row of the runner it is a step of,    *)
(* and none if it is no fault.                                             *)
LEMMA OrphansOfOthers ==
  ASSUME TypeOK, RowsInv, NEW r \in Runner, StartRun(r) \/ Step(r) \/ Failure(r),
         NEW q \in Runner, q # r, NEW i, Orphan(q, i)'
  PROVE  Orphan(q, i)
BY OtherRows DEF Orphan, At

LEMMA OrphansOfOne ==
  ASSUME TypeOK, RowsInv, NEW r \in Runner, StartRun(r) \/ Step(r) \/ Failure(r),
         NEW i, Orphan(r, i)'
  PROVE  Orphan(r, i) \/ (i = Len(runLog'[r]) /\ faults' = faults + 1)
<1> USE DEF At
<1>1. CASE UNCHANGED runLog
  <2>1. CASE At(r, "idle") \/ ~At(r, "idle")'
    BY <1>1, <2>1 DEF Orphan
  <2>2. CASE ~At(r, "idle") /\ At(r, "idle")'
    <3>1. CASE Abandons(r) /\ faults' = faults + 1
      BY <1>1, <2>2, <3>1 DEF Orphan
    <3>2. CASE Ends(r)
      <4>1. runLog[r] # << >>
        BY <2>2 DEF RowsInv
      <4>2. /\ Len(runLog'[r]) = Len(runLog[r]) /\ DOMAIN runLog'[r] = DOMAIN runLog[r]
            /\ Len(runLog[r]) \in DOMAIN runLog[r]
            /\ runLog'[r][Len(runLog[r])] = RunRow(TRUE, counts[r])
        BY <3>2, <4>1, FinishedRows DEF Ends
      <4> QED
        BY <1>1, <4>2 DEF Orphan, RunRow
    <3> QED
      BY <2>2, <3>1, <3>2, RecordStep DEF Begins, BeginFails, Continues, Repeats
  <2> QED
    BY <2>1, <2>2
<1>2. CASE At(r, "idle") /\ runLog' = NewRunRow(r)
  <2>1. /\ Len(runLog[r]) \in Nat /\ DOMAIN runLog[r] = 1..Len(runLog[r])
        /\ Len(runLog'[r]) = Len(runLog[r]) + 1 /\ DOMAIN runLog'[r] = 1..(Len(runLog[r]) + 1)
        /\ \A j \in 1..Len(runLog[r]) : runLog'[r][j] = runLog[r][j]
    BY <1>2, BegunRows
  <2>2. CASE i = Len(runLog'[r])
    <3>1. pc'[r] = "idle"
      BY <2>2 DEF Orphan
    <3> QED
      BY <1>2, <2>2, <3>1, RecordStep DEF Begins, BeginFails, Continues, Repeats, Ends, Abandons
  <2>3. CASE i # Len(runLog'[r])
    BY <1>2, <2>1, <2>3 DEF Orphan
  <2> QED
    BY <2>2, <2>3
<1>3. CASE Repeats(r) \/ Ends(r)
  <2>1. runLog[r] # << >>
    BY <1>3 DEF RowsInv, Repeats, Ends
  <2>2. /\ Len(runLog'[r]) = Len(runLog[r]) /\ DOMAIN runLog'[r] = DOMAIN runLog[r]
        /\ \A j \in DOMAIN runLog[r] :
             runLog'[r][j] = IF j = Len(runLog[r]) THEN RunRow(TRUE, counts[r]) ELSE runLog[r][j]
    BY <1>3, <2>1, FinishedRows DEF Repeats, Ends
  <2> QED
    BY <2>2 DEF Orphan, RunRow
<1> QED
  BY <1>1, <1>2, <1>3, RecordStep DEF Begins, BeginFails, Continues, Abandons

LEMMA InitOrphans == Init => OrphansInv
<1> SUFFICES ASSUME Init PROVE OrphansInv
  OBVIOUS
<1>1. Orphans = {}
  BY DEF Init, Orphans, Orphan
<1> QED
  BY <1>1, FS_EmptySet DEF Init, OrphansInv

LEMMA OrphansStep ==
  ASSUME TypeOK, RowsInv, OrphansInv, [Next]_vars
  PROVE  OrphansInv'
<1>1. CASE UNCHANGED vars \/ AllRunsDone
  <2>1. Orphans' = Orphans /\ faults' = faults
    BY <1>1 DEF AllRunsDone, vars, Orphans, Orphan, At
  <2> QED
    BY <2>1 DEF OrphansInv
<1>2. ASSUME NEW r \in Runner, StartRun(r) \/ Step(r) \/ Failure(r)
      PROVE  OrphansInv'
  <2> DEFINE row == <<r, Len(runLog'[r])>>
  <2>1. ASSUME NEW x \in Orphans' PROVE x \in Orphans \/ (x = row /\ faults' = faults + 1)
    <3>1. x \in Runner \X Nat /\ Orphan(x[1], x[2])'
      BY <2>1 DEF Orphans
    <3>2. CASE x[1] # r
      <4>1. Orphan(x[1], x[2])
        BY <1>2, <3>1, <3>2, OrphansOfOthers
      <4> QED
        BY <3>1, <4>1 DEF Orphans
    <3>3. CASE x[1] = r
      <4>1. Orphan(r, x[2]) \/ (x[2] = Len(runLog'[r]) /\ faults' = faults + 1)
        BY <1>2, <3>1, <3>3, OrphansOfOne
      <4> QED
        BY <3>1, <3>3, <4>1 DEF Orphans
    <3> QED
      BY <3>2, <3>3
  <2>2. IsFiniteSet(Orphans) /\ Cardinality(Orphans) <= faults /\ faults \in Nat
    BY DEF OrphansInv, TypeOK
  <2>3. Cardinality(Orphans) \in Nat
    BY <2>2, FS_CardinalityType
  <2>4. CASE faults' = faults
    <3>1. Orphans' \subseteq Orphans
      BY <2>1, <2>2, <2>4
    <3>2. IsFiniteSet(Orphans') /\ Cardinality(Orphans') <= Cardinality(Orphans)
      BY <2>2, <3>1, FS_Subset
    <3>3. Cardinality(Orphans') \in Nat
      BY <3>2, FS_CardinalityType
    <3> QED
      BY <2>2, <2>3, <2>4, <3>2, <3>3 DEF OrphansInv
  <2>5. CASE faults' = faults + 1
    <3>1. Orphans' \subseteq Orphans \cup {row}
      BY <2>1
    <3>2. /\ IsFiniteSet(Orphans \cup {row})
          /\ Cardinality(Orphans \cup {row}) <= Cardinality(Orphans) + 1
          /\ Cardinality(Orphans \cup {row}) \in Nat
      <4> HIDE DEF row
      <4>1. /\ IsFiniteSet(Orphans \cup {row})
            /\ Cardinality(Orphans \cup {row}) =
                 IF row \in Orphans THEN Cardinality(Orphans) ELSE Cardinality(Orphans) + 1
        BY <2>2, FS_AddElement
      <4> QED
        BY <2>3, <4>1
    <3>3. IsFiniteSet(Orphans') /\ Cardinality(Orphans') <= Cardinality(Orphans \cup {row})
      BY <3>1, <3>2, FS_Subset
    <3>4. Cardinality(Orphans') \in Nat
      BY <3>3, FS_CardinalityType
    <3> QED
      BY <2>2, <2>3, <2>5, <3>2, <3>3, <3>4 DEF OrphansInv
  <2> QED
    BY <2>2, <2>4, <2>5, FaultsStep
<1> QED
  BY <1>1, <1>2 DEF Next

LEMMA OrphansInvariant == Spec => [](TypeOK /\ OrphansInv)
<1>1. TypeOK /\ RowsInv /\ OrphansInv /\ [Next]_vars => OrphansInv'
  BY OrphansStep
<1> QED
  BY <1>1, InitOrphans, RowsInvariant, PTL DEF Spec

(* However the runs are killed, cancelled and started again, and whatever  *)
(* their statements do, an unfinished row of run_log is that of an active  *)
(* run or has cost a fault of its own (pipeline_run).                      *)
THEOREM UnfinishedRunsNeedFaults == Spec => []InterruptedRunsNeedFaults
<1>1. ASSUME TypeOK, OrphansInv PROVE InterruptedRunsNeedFaults
  <2> DEFINE Active == {r \in Runner : ~At(r, "idle")}
             last == [r \in Active |-> <<r, Len(runLog[r])>>]
             Current == {last[r] : r \in Active}
  <2>1. Unfinished \subseteq Orphans \cup Current
    <3> SUFFICES ASSUME NEW x \in Unfinished PROVE x \in Orphans \cup Current
      OBVIOUS
    <3>1. PICK r \in Runner : \E i \in DOMAIN runLog[r] : x = <<r, i>>
      BY DEF Unfinished, Rows
    <3>2. PICK i \in DOMAIN runLog[r] : x = <<r, i>>
      BY <3>1
    <3>3. ~runLog[r][i].finished
      BY <3>2 DEF Unfinished
    <3>4. i \in Nat
      <4>1. runLog[r] \in Seq(Row)
        BY <1>1 DEF TypeOK
      <4> QED
        BY <4>1, LenProperties
    <3>5. CASE Orphan(r, i)
      BY <3>2, <3>4, <3>5 DEF Orphans
    <3>6. CASE ~Orphan(r, i)
      <4>1. r \in Active /\ i = Len(runLog[r])
        BY <3>2, <3>3, <3>6 DEF Orphan
      <4> QED
        BY <3>2, <4>1
    <3> QED
      BY <3>5, <3>6
  <2>2. /\ IsFiniteSet(Active) /\ Cardinality(Active) \in Nat
        /\ IsFiniteSet(Current) /\ Cardinality(Current) <= Cardinality(Active)
        /\ Cardinality(Current) \in Nat
    <3>1. IsFiniteSet(Active)
      BY FS_Subset, PipelineRunAssumption
    <3>2. last \in Surjection(Active, Current)
      BY DEF Surjection
    <3>3. IsFiniteSet(Current) /\ Cardinality(Current) <= Cardinality(Active)
      BY <3>1, <3>2, FS_Surjection
    <3> QED
      BY <3>1, <3>3, FS_CardinalityType
  <2> HIDE DEF Active, Current
  <2>3. IsFiniteSet(Orphans) /\ Cardinality(Orphans) <= faults /\ faults \in Nat
    BY <1>1 DEF OrphansInv, TypeOK
  <2>4. Cardinality(Orphans) \in Nat
    BY <2>3, FS_CardinalityType
  <2>5. /\ IsFiniteSet(Orphans \cup Current)
        /\ Cardinality(Orphans \cup Current) <= Cardinality(Orphans) + Cardinality(Current)
    <3>1. Cardinality(Orphans \cap Current) \in Nat
      BY <2>3, FS_Intersection, FS_CardinalityType
    <3>2. /\ IsFiniteSet(Orphans \cup Current)
          /\ Cardinality(Orphans \cup Current) =
               Cardinality(Orphans) + Cardinality(Current) - Cardinality(Orphans \cap Current)
      BY <2>2, <2>3, FS_Union
    <3> QED
      BY <2>2, <2>4, <3>1, <3>2
  <2>6. IsFiniteSet(Unfinished) /\ Cardinality(Unfinished) <= Cardinality(Orphans \cup Current)
    BY <2>1, <2>5, FS_Subset
  <2>7. Cardinality(Unfinished) \in Nat /\ Cardinality(Orphans \cup Current) \in Nat
    BY <2>5, <2>6, FS_CardinalityType
  <2>8. Cardinality(Unfinished) <= faults + Cardinality(Active)
    BY <2>2, <2>3, <2>4, <2>5, <2>6, <2>7
  <2> QED
    BY <2>8 DEF InterruptedRunsNeedFaults, Active
<1> QED
  BY <1>1, OrphansInvariant, PTL

-----------------------------------------------------------------------------
(* The attempts at a post: those that were made and failed, and those that *)
(* are over, by a success or at max_retries.                               *)
Tried(s, n) == Len(s) = n /\ \A i \in 1..n : s[i] = "failed"
Over(s) ==
  /\ Len(s) \in 1..MaxRetries
  /\ \A i \in 1..(Len(s) - 1) : s[i] = "failed"
  /\ s[Len(s)] = "failed" => Len(s) = MaxRetries

(* Over on the platforms before the one at hand, not begun on those after  *)
(* it, and as far as its attempt counter says in between.                  *)
Attempted(label, t) ==
  /\ \A p \in Platform : p < t.plat => Over(t.log[p])
  /\ \A p \in Platform : p > t.plat => t.log[p] = << >>
  /\ label = "format" => t.log[t.plat] = << >>
  /\ label \in {"publish", "log", "logfail"} => Tried(t.log[t.plat], t.attempt - 1)
  /\ label \in {"mark", "commit"} => Over(t.log[t.plat])
  /\ label = "commit" => t.plat = NumPlatforms
AttemptInv == \A r \in Runner : Working(r) => Attempted(pc[r], txn[r])

LEMMA OneMore ==
  ASSUME NEW s \in Seq(Status), NEW n \in 1..MaxRetries, Tried(s, n - 1)
  PROVE  /\ Tried(Append(s, "failed"), n)
         /\ Over(Append(s, "success"))
         /\ n = MaxRetries => Over(Append(s, "failed"))
<1>1. "failed" \in Status /\ "success" \in Status
  BY DEF Status
<1>2. ASSUME NEW x \in Status
      PROVE  /\ Len(Append(s, x)) = n /\ Append(s, x)[n] = x
             /\ \A i \in 1..(n - 1) : Append(s, x)[i] = "failed"
  <2>1. /\ Len(s) = n - 1 /\ \A i \in 1..(n - 1) : s[i] = "failed"
        /\ n \in Nat
    BY PipelineRunAssumption DEF Tried
  <2>2. /\ Len(Append(s, x)) = Len(s) + 1
        /\ \A i \in 1..Len(s) : Append(s, x)[i] = s[i]
        /\ Append(s, x)[Len(s) + 1] = x
    BY Appended
  <2> HIDE DEF Tried
  <2> QED
    BY <2>1, <2>2
<1>3. \A i \in 1..n : i = n \/ i \in 1..(n - 1)
  BY PipelineRunAssumption
<1> QED
  BY <1>1, <1>2, <1>3 DEF Tried, Over

LEMMA NextPair ==
  ASSUME NEW t, NEW o \in Platform,
         t.plat = IF o < NumPlatforms THEN o + 1 ELSE o,
         \A p \in Platform : p < o => Over(t.log[p]),
         \A p \in Platform : p > o => t.log[p] = << >>,
         Over(t.log[o])
  PROVE  Attempted(IF o < NumPlatforms THEN "format" ELSE "commit", t)
<1>1. o \in 1..NumPlatforms /\ NumPlatforms \in Nat
  BY PipelineRunAssumption DEF Platform
<1>2. CASE o < NumPlatforms
  <2>1. t.plat = o + 1 /\ o + 1 \in Platform
    BY <1>1, <1>2 DEF Platform
  <2>2. \A p \in Platform : p < o + 1 => p < o \/ p = o
    BY <1>1 DEF Platform
  <2>3. \A p \in Platform : p > o + 1 => p > o
    BY <1>1 DEF Platform
  <2> QED
    BY <1>1, <1>2, <2>1, <2>2, <2>3 DEF Attempted
<1>3. CASE ~(o < NumPlatforms)
  BY <1>1, <1>3 DEF Attempted
<1> QED
  BY <1>2, <1>3

LEMMA InitAttempts == Init => AttemptInv /\ AttemptsRunToTheEnd
BY DEF Init, AttemptInv, AttemptsRunToTheEnd, Working

LEMMA AttemptStep ==
  ASSUME TypeOK, TypeOK', AttemptInv, [Next]_vars
  PROVE  AttemptInv'
<1> USE DEF Goto, At
<1>0. pc \in [Runner -> Label] /\ txn \in [Runner -> Txn] /\ txn' \in [Runner -> Txn]
  BY DEF TypeOK
<1>1. CASE UNCHANGED vars \/ AllRunsDone
  BY <1>1 DEF vars, AllRunsDone, AttemptInv, Working
<1>2. ASSUME NEW r \in Runner, StartRun(r) \/ Step(r) \/ Failure(r)
      PROVE  AttemptInv'
  <2> DEFINE o == txn[r].plat
             l == txn[r].log
  <2>0. o \in Platform /\ l \in [Platform -> Seq(Status)] /\ txn[r].attempt \in 1..MaxRetries
    BY <1>0 DEF Txn
  <2>1. ASSUME NEW q \in Runner, q # r, Working(q)'
        PROVE  Attempted(pc'[q], txn'[q])
    BY <1>2, <2>1, LocalStep DEF AttemptInv, Working
  <2>2. ASSUME Working(r)'
        PROVE  Attempted(pc'[r], txn'[r])
    <3>1. CASE InsertJob(r)
      <4>1. PICK g : txn'[r] = NewTxn(g)
        BY <1>0, <3>1 DEF InsertJob
      <4>2. /\ pc'[r] = "format" /\ txn'[r].plat = 1
            /\ \A p \in Platform : txn'[r].log[p] = << >>
        BY <1>0, <3>1, <4>1 DEF InsertJob, NewTxn
      <4>3. 1 \in Platform /\ \A p \in Platform : ~(p < 1)
        BY PipelineRunAssumption DEF Platform
      <4> QED
        BY <4>2, <4>3 DEF Attempted
    <3>2. CASE FormatAndInsertPost(r)
      <4>1. Attempted("format", txn[r]) /\ pc'[r] = "publish"
        BY <1>0, <3>2 DEF FormatAndInsertPost, Working, AttemptInv
      <4>2. txn'[r].log = l /\ txn'[r].plat = o /\ txn'[r].attempt = 1
        BY <1>0, <3>2 DEF FormatAndInsertPost, Txn
      <4>3. Tried(l[o], 0)
        BY <4>1, EmptySeq DEF Attempted, Tried
      <4> QED
        BY <4>1, <4>2, <4>3 DEF Attempted
    <3>3. CASE Publish(r) \/ PublishAnswerLost(r) \/ PublishRefused(r)
      <4>1. Attempted("publish", txn[r]) /\ pc'[r] \in {"log", "logfail"} /\ txn' = txn
        BY <1>0, <3>3 DEF Publish, PublishAnswerLost, PublishRefused, Working, AttemptInv
      <4> QED
        BY <4>1 DEF Attempted
    <3>4. CASE LogSuccess(r)
      <4>1. Attempted("log", txn[r]) /\ pc'[r] = "mark"
        BY <1>0, <3>4 DEF LogSuccess, Working, AttemptInv
      <4>2. txn'[r].plat = o /\ txn'[r].log = [l EXCEPT ![o] = Append(@, "success")]
        BY <1>0, <3>4, LogKeeps DEF LogSuccess
      <4>3. Over(Append(l[o], "success"))
        BY <2>0, <4>1, OneMore DEF Attempted
      <4>4. \A p \in Platform : p # o => txn'[r].log[p] = l[p]
        BY <2>0, <4>2
      <4>5. txn'[r].log[o] = Append(l[o], "success")
        BY <2>0, <4>2
      <4>6. \A p \in Platform : p < o \/ p > o => p # o
        BY <2>0 DEF Platform
      <4>7. \A p \in Platform : p < o => Over(txn'[r].log[p])
        BY <4>1, <4>4, <4>6 DEF Attempted
      <4>8. \A p \in Platform : p > o => txn'[r].log[p] = << >>
        BY <4>1, <4>4, <4>6 DEF Attempted
      <4> QED
        BY <4>1, <4>2, <4>3, <4>5, <4>7, <4>8 DEF Attempted
    <3>5. CASE MarkJobPosted(r)
      <4>1. Attempted("mark", txn[r]) /\ pc'[r] = PairLabel(r)
        BY <1>0, <3>5 DEF MarkJobPosted, Working, AttemptInv
      <4>2. txn'[r].plat = NextPlat(r) /\ txn'[r].log = l
        BY <1>0, <3>5 DEF MarkJobPosted, Txn
      <4> QED
        BY <2>0, <4>1, <4>2, NextPair DEF Attempted, NextPlat, PairLabel
    <3>6. CASE LogFailure(r)
      <4>1. Attempted("logfail", txn[r])
        BY <1>0, <3>6 DEF LogFailure, Working, AttemptInv
      <4>2. txn'[r].log = [l EXCEPT ![o] = Append(@, "failed")]
        BY <1>0, <3>6, LogFailureKeeps
      <4>3. /\ \A p \in Platform : p # o => txn'[r].log[p] = l[p]
            /\ txn'[r].log[o] = Append(l[o], "failed")
        BY <2>0, <4>2
      <4>4. /\ Tried(Append(l[o], "failed"), txn[r].attempt)
            /\ txn[r].attempt = MaxRetries => Over(Append(l[o], "failed"))
        BY <2>0, <4>1, OneMore DEF Attempted
      <4>5. /\ \A p \in Platform : p < o => Over(txn'[r].log[p])
            /\ \A p \in Platform : p > o => txn'[r].log[p] = << >>
        <5>1. \A p \in Platform : (p < o => p # o) /\ (p > o => p # o)
          BY <2>0 DEF Platform
        <5>2. /\ \A p \in Platform : p < o => Over(l[p])
              /\ \A p \in Platform : p > o => l[p] = << >>
          BY <4>1 DEF Attempted
        <5> HIDE DEF o, l
        <5> QED
          BY <4>3, <5>1, <5>2
      <4>6. CASE RetriesLeft(r)
        <5>1. pc'[r] = "publish" /\ txn'[r].plat = o /\ txn'[r].attempt = txn[r].attempt + 1
          <6> DEFINE t == Logged(r, "failed")
          <6>1. t \in Txn /\ t.plat = o /\ t.attempt = txn[r].attempt
            BY <1>0, LogType, LogKeeps DEF Status
          <6>2. txn'[r] = [t EXCEPT !.attempt = @ + 1] /\ pc'[r] = "publish"
            BY <1>0, <3>6, <4>6 DEF LogFailure
          <6> HIDE DEF t, o
          <6> QED
            BY <6>1, <6>2 DEF Txn
        <5>2. (txn[r].attempt + 1) - 1 = txn[r].attempt
          BY <2>0
        <5> QED
          BY <4>3, <4>4, <4>5, <5>1, <5>2 DEF Attempted
      <4>7. CASE ~RetriesLeft(r)
        <5>1. pc'[r] = PairLabel(r) /\ txn'[r].plat = NextPlat(r)
          <6> DEFINE t == Logged(r, "failed")
          <6>1. t \in Txn
            BY <1>0, LogType DEF Status
          <6>2. /\ txn'[r] = [t EXCEPT !.errors = @ + 1, !.plat = NextPlat(r)]
                /\ pc'[r] = PairLabel(r)
            BY <1>0, <3>6, <4>7 DEF LogFailure
          <6> HIDE DEF t
          <6> QED
            BY <6>1, <6>2 DEF Txn
        <5>2. txn[r].attempt = MaxRetries
          BY <2>0, <4>7, PipelineRunAssumption DEF RetriesLeft
        <5>3. Over(txn'[r].log[o])
          BY <4>3, <4>4, <5>2
        <5> QED
          BY <2>0, <4>5, <5>1, <5>3, NextPair DEF NextPlat, PairLabel
      <4> QED
        BY <4>6, <4>7
    <3>7. ASSUME ~(\/ InsertJob(r) \/ FormatAndInsertPost(r) \/ Publish(r) \/ PublishAnswerLost(r)
                   \/ PublishRefused(r) \/ LogSuccess(r) \/ MarkJobPosted(r) \/ LogFailure(r))
          PROVE  FALSE
      BY <1>0, <1>2, <2>2, <3>7
      DEF Working, Step, Failure, StartRun, StartRunFails, MayStart, Ingest, RunPipeline,
          RunPipelineFails, InsertRejected, InsertFails, FormatFails, StatementFails,
          ConnectionLost, PublishLate, Commit, CommitFails, Rollback, RollbackFails, Finalise,
          FinaliseFails, RecordRunFailure, RecordRunFailureFails, Crash, EndJob, LoopLabel
    <3> QED
      BY <3>1, <3>2, <3>3, <3>4, <3>5, <3>6, <3>7
  <2> QED
    BY <2>1, <2>2 DEF AttemptInv
<1> QED
  BY <1>1, <1>2 DEF Next

LEMMA StoredAttemptsStep ==
  ASSUME TypeOK, ClaimInv, AttemptInv, AttemptsRunToTheEnd, [Next]_vars
  PROVE  AttemptsRunToTheEnd'
<1> DEFINE Ended == \A h \in jobs, p \in Platform : Over(plog[h][p])
<1>1. /\ AttemptsRunToTheEnd <=> Ended
      /\ AttemptsRunToTheEnd' <=> Ended'
  BY DEF AttemptsRunToTheEnd, Over
<1>2. CASE UNCHANGED vars \/ AllRunsDone
  BY <1>1, <1>2 DEF vars, AllRunsDone, Over
<1>3. ASSUME NEW r \in Runner, StartRun(r) \/ Step(r) \/ Failure(r)
      PROVE  Ended'
  <2>1. CASE UNCHANGED tables
    BY <1>1, <2>1 DEF tables, Over
  <2>2. CASE Persist(r) /\ Working(r) /\ pc[r] = "commit" /\ txn[r].hash \in Hash
    <3>1. txn[r].plat = NumPlatforms /\ Attempted("commit", txn[r])
      BY <2>2 DEF AttemptInv, Attempted
    <3>2. \A p \in Platform : Over(txn[r].log[p])
      <4>1. \A p \in Platform : p < NumPlatforms \/ p = NumPlatforms
        BY PipelineRunAssumption DEF Platform
      <4> QED
        BY <3>1, <4>1 DEF Attempted
    <3>3. ASSUME NEW h \in jobs', NEW p \in Platform PROVE Over(plog'[h][p])
      <4>1. plog \in [Hash -> [Platform -> Seq(Status)]] /\ jobs \subseteq Hash
        BY DEF TypeOK
      <4>2. CASE h = txn[r].hash
        <5>1. plog'[h] = txn[r].log
          BY <2>2, <4>1, <4>2 DEF Persist
        <5> QED
          BY <3>2, <5>1
      <4>3. CASE h # txn[r].hash
        <5>1. h \in jobs /\ plog'[h] = plog[h]
          BY <2>2, <4>1, <4>3 DEF Persist
        <5> QED
          BY <1>1, <5>1
      <4> QED
        BY <4>2, <4>3
    <3> QED
      BY <3>3 DEF Over
  <2> QED
    BY <1>3, <2>1, <2>2, TablesStep
<1> QED
  BY <1>1, <1>2, <1>3 DEF Next

(* Of every stored job publish_log has all attempts on every platform: the *)
(* ones that failed, and a success or the last of max_retries, whatever    *)
(* was rolled back or repeated on the way (publish_with_retry).            *)
THEOREM StoredAttemptsAreOver == Spec => []AttemptsRunToTheEnd
<1> DEFINE Inv == AttemptInv /\ AttemptsRunToTheEnd
<1>1. (TypeOK /\ ClaimInv) /\ TypeOK' /\ Inv /\ [Next]_vars => Inv'
  BY AttemptStep, StoredAttemptsStep
<1> QED
  BY <1>1, InitAttempts, ClaimsAreExclusive, PTL DEF Spec

-----------------------------------------------------------------------------
(* A sum is the size of a set of marks: as many for each element as it     *)
(* counts for.                                                             *)
Marks(S, n) == UNION {{x} \X (1..n[x]) : x \in S}

LEMMA MarksAre ==
  ASSUME NEW S, NEW n \in [S -> Nat]
  PROVE  \A y : y \in Marks(S, n) <=> \E x \in S : \E k \in 1..n[x] : y = <<x, k>>
BY DEF Marks

LEMMA MarksAreFinite ==
  ASSUME NEW S, IsFiniteSet(S), NEW n \in [S -> Nat]
  PROVE  IsFiniteSet(Marks(S, n))
<1> DEFINE f == [x \in S |-> {x} \X (1..n[x])]
           Each == {f[x] : x \in S}
<1>1. IsFiniteSet(Each)
  <2>1. f \in Surjection(S, Each)
    BY DEF Surjection
  <2> QED
    BY <2>1, FS_Surjection
<1>2. ASSUME NEW T \in Each PROVE IsFiniteSet(T)
  <2>1. PICK x \in S : T = {x} \X (1..n[x])
    BY <1>2
  <2>2. IsFiniteSet(1..n[x])
    <3>1. 1 \in Int /\ n[x] \in Int
      OBVIOUS
    <3> QED
      BY <3>1, FS_Interval
  <2>3. IsFiniteSet({x})
    BY FS_Singleton
  <2> QED
    BY <2>1, <2>2, <2>3, FS_Product
<1>3. Marks(S, n) = UNION Each
  BY DEF Marks
<1> HIDE DEF Each
<1> QED
  BY <1>1, <1>2, <1>3, FS_UNION

LEMMA SumType ==
  ASSUME NEW S, IsFiniteSet(S), NEW n \in [S -> Nat]
  PROVE  Sum(S, n) \in Nat /\ Sum(S, n) = Cardinality(Marks(S, n))
BY MarksAreFinite, FS_CardinalityType DEF Sum, Marks

LEMMA SumGrows ==
  ASSUME NEW S, NEW T, S \subseteq T, IsFiniteSet(T),
         NEW n \in [S -> Nat], NEW m \in [T -> Nat], \A x \in S : n[x] <= m[x]
  PROVE  Sum(S, n) <= Sum(T, m)
<1>1. Marks(S, n) \subseteq Marks(T, m)
  <2>1. \A x \in S : \A k \in 1..n[x] : k \in 1..m[x]
    OBVIOUS
  <2> QED
    BY <2>1, MarksAre
<1>2. IsFiniteSet(S)
  BY FS_Subset
<1> QED
  BY <1>1, <1>2, SumType, MarksAreFinite, FS_Subset

LEMMA SumAdds ==
  ASSUME NEW S, IsFiniteSet(S), NEW n \in [S -> Nat], NEW m \in [S -> Nat],
         NEW a \in S, NEW d \in Nat, m[a] = n[a] + d, \A x \in S : x # a => m[x] = n[x]
  PROVE  Sum(S, m) = Sum(S, n) + d
<1> DEFINE more == {a} \X ((n[a] + 1)..(n[a] + d))
<1>0. n[a] \in Nat
  OBVIOUS
<1>1. Marks(S, m) = Marks(S, n) \cup more /\ Marks(S, n) \cap more = {}
  <2>1. \A k : k \in 1..m[a] <=> k \in 1..n[a] \/ k \in (n[a] + 1)..(n[a] + d)
    BY <1>0
  <2>2. \A k : ~(k \in 1..n[a] /\ k \in (n[a] + 1)..(n[a] + d))
    BY <1>0
  <2>3. \A y : y \in more <=> \E k \in (n[a] + 1)..(n[a] + d) : y = <<a, k>>
    OBVIOUS
  <2> HIDE DEF more
  <2>4. ASSUME NEW y PROVE y \in Marks(S, m) <=> y \in Marks(S, n) \/ y \in more
    BY <2>1, <2>3, MarksAre
  <2>5. \A y : ~(y \in Marks(S, n) /\ y \in more)
    BY <2>2, <2>3, MarksAre
  <2> QED
    BY <2>4, <2>5
<1>2. IsFiniteSet(more) /\ Cardinality(more) = d
  <2>1. /\ IsFiniteSet((n[a] + 1)..(n[a] + d))
        /\ Cardinality((n[a] + 1)..(n[a] + d)) = d
    <3>1. n[a] + 1 \in Int /\ n[a] + d \in Int
      BY <1>0
    <3>2. /\ IsFiniteSet((n[a] + 1)..(n[a] + d))
          /\ Cardinality((n[a] + 1)..(n[a] + d)) =
               IF n[a] + 1 > n[a] + d THEN 0 ELSE (n[a] + d) - (n[a] + 1) + 1
      BY <3>1, FS_Interval
    <3> QED
      BY <1>0, <3>2
  <2>2. IsFiniteSet({a}) /\ Cardinality({a}) = 1
    BY FS_Singleton
  <2> DEFINE range == (n[a] + 1)..(n[a] + d)
  <2> HIDE DEF range
  <2>3. /\ IsFiniteSet({a} \X range)
        /\ Cardinality({a} \X range) = Cardinality({a}) * Cardinality(range)
    BY <2>1, <2>2, FS_Product DEF range
  <2> QED
    BY <2>1, <2>2, <2>3 DEF range
<1> HIDE DEF more
<1>3. IsFiniteSet(Marks(S, n))
  BY MarksAreFinite
<1>4. Cardinality(Marks(S, m)) = Cardinality(Marks(S, n)) + d
  <2>1. Cardinality(Marks(S, n) \cap more) = 0
    BY <1>1, FS_EmptySet
  <2>2. Cardinality(Marks(S, n)) \in Nat
    BY <1>3, FS_CardinalityType
  <2>3. Cardinality(Marks(S, n) \cup more) =
          Cardinality(Marks(S, n)) + Cardinality(more) - Cardinality(Marks(S, n) \cap more)
    BY <1>2, <1>3, FS_Union
  <2> QED
    BY <1>1, <1>2, <2>1, <2>2, <2>3
<1> QED
  BY <1>4, SumType

LEMMA RowsAreFinite ==
  ASSUME NEW log \in [Runner -> Seq(Row)]
  PROVE  IsFiniteSet(UNION {{<<r, i>> : i \in DOMAIN log[r]} : r \in Runner})
<1> DEFINE f == [r \in Runner |-> {<<r, i>> : i \in DOMAIN log[r]}]
           Each == {f[r] : r \in Runner}
<1>1. IsFiniteSet(Each)
  <2>1. f \in Surjection(Runner, Each)
    BY DEF Surjection
  <2> QED
    BY <2>1, FS_Surjection, PipelineRunAssumption
<1>2. ASSUME NEW T \in Each PROVE IsFiniteSet(T)
  <2>1. PICK r \in Runner : T = {<<r, i>> : i \in DOMAIN log[r]}
    BY <1>2
  <2>2. IsFiniteSet(DOMAIN log[r])
    <3>1. DOMAIN log[r] = 1..Len(log[r]) /\ Len(log[r]) \in Nat
      BY LenProperties
    <3>2. 1 \in Int /\ Len(log[r]) \in Int
      BY <3>1
    <3> QED
      BY <3>1, <3>2, FS_Interval
  <2>3. [i \in DOMAIN log[r] |-> <<r, i>>] \in Surjection(DOMAIN log[r], T)
    BY <2>1 DEF Surjection
  <2> QED
    BY <2>2, <2>3, FS_Surjection
<1>3. UNION {{<<r, i>> : i \in DOMAIN log[r]} : r \in Runner} = UNION Each
  OBVIOUS
<1> HIDE DEF Each
<1> QED
  BY <1>1, <1>2, <1>3, FS_UNION

-----------------------------------------------------------------------------
(* What the run of r has counted so far, and the platforms its open        *)
(* transaction has given up.                                               *)
CountsOf(r, i) ==
  IF ~At(r, "idle") /\ i = Len(runLog[r]) THEN counts[r] ELSE runLog[r][i].counts
Tally(field) == Sum(Rows, [x \in Rows |-> CountsOf(x[1], x[2])[field]])
Lost(r) == {p \in Platform : ~Succeeded(r, p) /\ (p < txn[r].plat \/ At(r, "commit"))}

CountsInv ==
  \A r \in Runner :
    /\ At(r, "idle") => counts[r] = NoCounts
    /\ \A i \in DOMAIN runLog[r] : ~runLog[r][i].finished => runLog[r][i].counts = NoCounts
    /\ txn[r].stamp = txn[r].postedAny
    /\ Working(r) => Cardinality(Lost(r)) <= txn[r].errors

(* The table of jobs stays finite, and all that is stamped is in it.       *)
StoredInv == IsFiniteSet(jobs) /\ postedAt \subseteq jobs

(* The runs have counted no more posts than there are jobs stamped; with   *)
(* no fault, as many, and an error for every post given up.                *)
TallyInv ==
  /\ Tally("posted") <= Cardinality(postedAt)
  /\ faults = 0 =>
       /\ Tally("posted") = Cardinality(postedAt)
       /\ Cardinality(GivenUp) <= Tally("errors")

-----------------------------------------------------------------------------
(* What a step of r does to the counts of its run.                         *)
LEMMA CountsStep ==
  ASSUME TypeOK, NEW r \in Runner, StartRun(r) \/ Step(r) \/ Failure(r)
  PROVE  /\ At(r, "idle") => counts'[r] = counts[r]
         /\ ~At(r, "idle") /\ pc'[r] = "idle" => counts'[r] = NoCounts
         /\ pc'[r] # "idle" /\ ~Commit(r) =>
              counts'[r].posted = counts[r].posted /\ counts'[r].errors >= counts[r].errors
         /\ Commit(r) =>
              /\ counts'[r].posted = counts[r].posted + Posted(r)
              /\ counts'[r].errors = counts[r].errors + txn[r].errors
              /\ UNCHANGED runLog /\ pc[r] = "commit" /\ pc'[r] \in {"insert", "finalise"}
<1> USE DEF Goto, At
<1>0. /\ pc \in [Runner -> Label] /\ counts \in [Runner -> Counts]
      /\ counts[r] \in Counts /\ counts[r].posted \in Nat /\ counts[r].errors \in Nat
      /\ txn[r].errors \in Nat
  BY DEF TypeOK, Counts, Txn
<1>1. CASE StartRun(r) \/ StartRunFails(r)
  BY <1>0, <1>1 DEF StartRun, StartRunFails, MayStart, Commit
<1>2. CASE Ingest(r)
  <2>1. PICK n : counts' = [counts EXCEPT ![r].ingested = n]
    BY <1>2 DEF Ingest
  <2>2. counts'[r].posted = counts[r].posted /\ counts'[r].errors = counts[r].errors
    BY <1>0, <2>1 DEF Counts
  <2> QED
    BY <1>0, <1>2, <2>2 DEF Ingest, Commit
<1>3. CASE RunPipeline(r)
  <2>1. PICK n : counts' = [counts EXCEPT ![r].new = n]
    BY <1>3 DEF RunPipeline
  <2>2. counts'[r].posted = counts[r].posted /\ counts'[r].errors = counts[r].errors
    BY <1>0, <2>1 DEF Counts
  <2> QED
    BY <1>0, <1>3, <2>2 DEF RunPipeline, Commit, LoopLabel
<1>4. ASSUME NEW n \in Nat, AddErrors(r, n)
      PROVE  counts'[r].posted = counts[r].posted /\ counts'[r].errors >= counts[r].errors
  BY <1>0, <1>4 DEF AddErrors, Counts
<1>5. CASE RunPipelineFails(r) \/ FinaliseFails(r) \/ RollbackFails(r)
  BY <1>0, <1>4, <1>5 DEF RunPipelineFails, FinaliseFails, RollbackFails, Commit
<1>6. CASE Rollback(r)
  <2>1. txn[r].errors + 1 \in Nat /\ AddErrors(r, txn[r].errors + 1)
    BY <1>0, <1>6 DEF Rollback
  <2> QED
    BY <1>0, <1>4, <1>6, <2>1 DEF Rollback, EndJob, LoopLabel, Commit
<1>7. CASE InsertJob(r) \/ InsertRejected(r) \/ InsertFails(r) \/ FormatAndInsertPost(r)
             \/ FormatFails(r) \/ StatementFails(r)
  BY <1>0, <1>7 DEF InsertJob, InsertRejected, InsertFails, FormatAndInsertPost, FormatFails,
     StatementFails, Commit
<1>8. CASE Publish(r) \/ PublishRefused(r) \/ PublishAnswerLost(r) \/ ConnectionLost(r)
             \/ PublishLate(r) \/ LogSuccess(r) \/ MarkJobPosted(r) \/ LogFailure(r)
  BY <1>0, <1>8 DEF Publish, PublishRefused, PublishAnswerLost, ConnectionLost, PublishLate,
     LogSuccess, MarkJobPosted, LogFailure, PairLabel, Commit
<1>9. CASE Commit(r)
  <2>1. counts' = [counts EXCEPT ![r].posted = @ + Posted(r), ![r].errors = @ + txn[r].errors]
    BY <1>9 DEF Commit
  <2>2. /\ counts'[r].posted = counts[r].posted + Posted(r)
        /\ counts'[r].errors = counts[r].errors + txn[r].errors
    BY <1>0, <2>1 DEF Counts
  <2> QED
    BY <1>0, <1>9, <2>2 DEF Commit, EndJob, LoopLabel
<1>10. CASE CommitFails(r)
  BY <1>0, <1>10 DEF CommitFails, Commit, EndJob, LoopLabel
<1>11. CASE Finalise(r) \/ RecordRunFailure(r) \/ RecordRunFailureFails(r) \/ Crash(r)
  BY <1>0, <1>11 DEF Finalise, RecordRunFailure, RecordRunFailureFails, Crash, Forget, Commit,
     EndJob, LoopLabel
<1> QED
  BY <1>1, <1>2, <1>3, <1>5, <1>6, <1>7, <1>8, <1>9, <1>10, <1>11 DEF Step, Failure

(* The two flags of a transaction are set and cleared together.            *)
LEMMA FlagsStep ==
  ASSUME TypeOK, TypeOK', NEW r \in Runner, StartRun(r) \/ Step(r) \/ Failure(r),
         txn[r].stamp = txn[r].postedAny
  PROVE  txn'[r].stamp = txn'[r].postedAny
<1> USE DEF Forget, EndJob
<1>0. txn \in [Runner -> Txn]
  BY DEF TypeOK
<1>1. ASSUME txn'[r] = txn[r] \/ \E h : txn'[r] = NewTxn(h)
      PROVE  txn'[r].stamp = txn'[r].postedAny
  <2>1. ASSUME NEW h PROVE NewTxn(h).stamp = NewTxn(h).postedAny
    BY DEF NewTxn
  <2> QED
    BY <1>1, <2>1
<1>2. CASE FormatAndInsertPost(r)
  BY <1>0, <1>2 DEF FormatAndInsertPost, Txn
<1>3. CASE MarkJobPosted(r)
  BY <1>0, <1>3 DEF MarkJobPosted, Txn
<1>4. CASE LogSuccess(r) \/ LogFailure(r)
  <2>1. ASSUME NEW s \in Status
        PROVE  /\ Logged(r, s) \in Txn /\ Logged(r, s).stamp = txn[r].stamp
               /\ Logged(r, s).postedAny = txn[r].postedAny
    <3> DEFINE t == txn[r]
    <3>1. t \in Txn
      BY <1>0
    <3> HIDE DEF t
    <3>2. [t EXCEPT !.log[t.plat] = Append(@, s)].postedAny = t.postedAny
      BY <3>1 DEF Txn
    <3> QED
      BY <1>0, <3>2, LogType, LogKeeps DEF Logged, t
  <2> DEFINE t(s) == Logged(r, s)
  <2>2. \/ txn'[r] = t("success")
        \/ txn'[r] = [t("failed") EXCEPT !.attempt = @ + 1]
        \/ txn'[r] = [t("failed") EXCEPT !.errors = @ + 1, !.plat = NextPlat(r)]
    BY <1>0, <1>4 DEF LogSuccess, LogFailure
  <2>3. "failed" \in Status /\ "success" \in Status
    BY DEF Status
  <2>4. /\ t("failed") \in Txn /\ t("failed").stamp = t("failed").postedAny
        /\ t("success") \in Txn /\ t("success").stamp = t("success").postedAny
    BY <2>1, <2>3
  <2> HIDE DEF t
  <2> QED
    BY <2>2, <2>4 DEF Txn
<1>5. CASE ~(FormatAndInsertPost(r) \/ MarkJobPosted(r) \/ LogSuccess(r) \/ LogFailure(r))
  <2>1. txn'[r] = txn[r] \/ \E h : txn'[r] = NewTxn(h)
    BY <1>0, <1>5
    DEF Step, Failure, StartRun, StartRunFails, Ingest, RunPipeline, RunPipelineFails, InsertJob,
        InsertRejected, InsertFails, FormatFails, StatementFails, Publish, PublishRefused,
        PublishAnswerLost, ConnectionLost, PublishLate, Commit, CommitFails, Rollback,
        RollbackFails, Finalise, FinaliseFails, RecordRunFailure, RecordRunFailureFails, Crash
  <2> QED
    BY <1>1, <2>1
<1> QED
  BY <1>2, <1>3, <1>4, <1>5

(* What is counted for a row before and after a step of r: only the commit *)
(* of a job counts a post, and only a fault takes counts back.             *)
LEMMA CountsOfStep ==
  ASSUME TypeOK, TypeOK', RowsInv, CountsInv, NEW r \in Runner,
         StartRun(r) \/ Step(r) \/ Failure(r), NEW q \in Runner
  PROVE  /\ DOMAIN runLog[q] \subseteq DOMAIN runLog'[q]
         /\ \A i \in DOMAIN runLog'[q] \ DOMAIN runLog[q] : CountsOf(q, i)' = NoCounts
         /\ \A i \in DOMAIN runLog[q] :
              \/ CountsOf(q, i)' = CountsOf(q, i)
              \/ /\ q = r /\ i = Len(runLog[r]) /\ ~At(r, "idle")
                 /\ CountsOf(r, i) = counts[r]
                 /\ \/ /\ pc'[r] # "idle" /\ Len(runLog'[r]) = Len(runLog[r])
                       /\ CountsOf(r, i)' = counts'[r]
                    \/ /\ faults' = faults + 1
                       /\ CountsOf(r, i)'.posted <= counts[r].posted
<1> USE DEF At
<1>1. CASE q # r
  BY <1>1, OtherRows DEF CountsOf
<1>2. CASE q = r
  <2>0. /\ counts[r] \in Counts /\ counts[r].posted \in Nat
        /\ runLog[r] \in Seq(Row) /\ runLog'[r] \in Seq(Row)
    BY DEF TypeOK, Counts
  <2>1. CASE Begins(r) \/ BeginFails(r)
    <3>1. CASE BeginFails(r) /\ UNCHANGED runLog
      BY <1>2, <3>1 DEF BeginFails, CountsOf
    <3>2. CASE runLog' = NewRunRow(r)
      <4>1. /\ Len(runLog[r]) \in Nat /\ Len(runLog'[r]) = Len(runLog[r]) + 1
            /\ DOMAIN runLog'[r] = 1..(Len(runLog[r]) + 1) /\ DOMAIN runLog[r] = 1..Len(runLog[r])
            /\ \A i \in 1..Len(runLog[r]) : runLog'[r][i] = runLog[r][i]
            /\ runLog'[r][Len(runLog'[r])] = RunRow(FALSE, NoCounts)
        BY <3>2, BegunRows DEF LastRow
      <4>2. counts'[r] = NoCounts
        BY <2>1, CountsStep DEF CountsInv, Begins, BeginFails
      <4>3. \A i \in 1..Len(runLog[r]) : i # Len(runLog[r]) + 1
        BY <4>1
      <4>4. \A i \in 1..(Len(runLog[r]) + 1) : i \notin 1..Len(runLog[r]) => i = Len(runLog[r]) + 1
        BY <4>1
      <4>5. 1..Len(runLog[r]) \subseteq 1..(Len(runLog[r]) + 1)
        BY <4>1
      <4>6. ASSUME NEW i, i = Len(runLog[r]) + 1 PROVE CountsOf(r, i)' = NoCounts
        BY <4>1, <4>2, <4>6 DEF CountsOf, RunRow
      <4>7. \A i \in 1..Len(runLog[r]) : CountsOf(r, i)' = CountsOf(r, i)
        BY <2>1, <4>1, <4>3 DEF CountsOf, Begins, BeginFails
      <4> QED
        BY <1>2, <4>1, <4>4, <4>5, <4>6, <4>7
    <3> QED
      BY <2>1, <3>1, <3>2 DEF Begins, BeginFails
  <2>2. CASE Continues(r)
    BY <1>2, <2>2 DEF Continues, CountsOf
  <2>3. CASE Repeats(r) \/ Ends(r)
    <3>1. FinishRow(r, counts[r]) /\ runLog[r] # << >> /\ ~At(r, "idle")
      BY <2>3 DEF RowsInv, Repeats, Ends
    <3>2. /\ Len(runLog'[r]) = Len(runLog[r]) /\ DOMAIN runLog'[r] = DOMAIN runLog[r]
          /\ \A i \in DOMAIN runLog[r] :
               runLog'[r][i] = IF i = Len(runLog[r]) THEN RunRow(TRUE, counts[r]) ELSE runLog[r][i]
      BY <3>1, FinishedRows
    <3>3. RunRow(TRUE, counts[r]).counts = counts[r]
      BY DEF RunRow
    <3>4. CASE Repeats(r)
      BY <1>2, <3>1, <3>2, <3>4 DEF Repeats, CountsOf
    <3>5. CASE Ends(r)
      BY <1>2, <3>1, <3>2, <3>3, <3>5 DEF Ends, CountsOf
    <3> QED
      BY <2>3, <3>4, <3>5
  <2>4. CASE Abandons(r) /\ faults' = faults + 1
    <3>1. ASSUME NEW i \in DOMAIN runLog[r], i = Len(runLog[r])
          PROVE  runLog[r][i].counts.posted <= counts[r].posted
      <4>1. CASE ~runLog[r][i].finished
        BY <2>0, <3>1, <4>1 DEF CountsInv, NoCounts
      <4>2. CASE runLog[r][i].finished
        BY <2>0, <2>4, <3>1, <4>2 DEF RowsInv, LastRow, Abandons
      <4> QED
        BY <4>1, <4>2
    <3>2. ASSUME NEW i \in DOMAIN runLog[r]
          PROVE  /\ CountsOf(r, i)' = runLog[r][i].counts
                 /\ CountsOf(r, i) = IF i = Len(runLog[r]) THEN counts[r] ELSE runLog[r][i].counts
      BY <2>4 DEF Abandons, CountsOf
    <3> QED
      BY <1>2, <2>4, <3>1, <3>2 DEF Abandons
  <2> QED
    BY <2>1, <2>2, <2>3, <2>4, RecordStep
<1> QED
  BY <1>1, <1>2

LEMMA LostIsFinite ==
  ASSUME NEW r
  PROVE  IsFiniteSet(Lost(r)) /\ Cardinality(Lost(r)) \in Nat
<1>1. IsFiniteSet(Platform)
  <2>1. 1 \in Int /\ NumPlatforms \in Int
    BY PipelineRunAssumption
  <2> QED
    BY <2>1, FS_Interval DEF Platform
<1>2. Lost(r) \subseteq Platform
  BY DEF Lost
<1> QED
  BY <1>1, <1>2, FS_Subset, FS_CardinalityType

LEMMA LostStep ==
  ASSUME TypeOK, TypeOK', ClaimInv, LogInv, CountsInv, NEW r \in Runner,
         StartRun(r) \/ Step(r) \/ Failure(r), Working(r)'
  PROVE  Cardinality(Lost(r)') <= txn'[r].errors
<1> USE DEF Goto, At
<1> DEFINE o == txn[r].plat
           e == txn[r].errors
<1>0. /\ pc \in [Runner -> Label] /\ txn \in [Runner -> Txn] /\ txn' \in [Runner -> Txn]
      /\ o \in Platform /\ o \in Nat /\ e \in Nat /\ txn[r].log \in [Platform -> Seq(Status)]
      /\ Working(r) => Cardinality(Lost(r)) <= e
  <2>1. pc \in [Runner -> Label] /\ txn \in [Runner -> Txn] /\ txn' \in [Runner -> Txn]
    BY DEF TypeOK
  <2>2. o \in Platform /\ e \in Nat /\ txn[r].log \in [Platform -> Seq(Status)]
    BY <2>1 DEF Txn
  <2>3. Working(r) => Cardinality(Lost(r)) <= e
    BY DEF CountsInv
  <2> QED
    BY <2>1, <2>2, <2>3 DEF Platform
<1>1. \A p \in Platform : Succeeded(r, p)' <=> Contains(txn'[r].log[p], "success")
  BY DEF Succeeded, Contains
<1>2. CASE InsertJob(r)
  <2>1. PICK g : txn'[r] = NewTxn(g)
    BY <1>0, <1>2 DEF InsertJob
  <2>2. txn'[r].plat = 1 /\ txn'[r].errors = 0 /\ pc'[r] = "format"
    BY <1>0, <1>2, <2>1 DEF InsertJob, NewTxn
  <2>3. Lost(r)' = {}
    BY <2>2 DEF Lost, Platform
  <2> QED
    BY <2>2, <2>3, FS_EmptySet
<1>3. CASE \/ FormatAndInsertPost(r) \/ Publish(r) \/ PublishAnswerLost(r) \/ PublishRefused(r)
  <2>1. /\ Working(r) /\ pc[r] # "commit" /\ pc'[r] # "commit"
        /\ txn'[r].log = txn[r].log /\ txn'[r].plat = o /\ txn'[r].errors = e
    BY <1>0, <1>3 DEF FormatAndInsertPost, Publish, PublishAnswerLost, PublishRefused, Working, Txn
  <2>2. Lost(r)' = Lost(r)
    BY <1>1, <2>1 DEF Lost, Succeeded
  <2> QED
    BY <1>0, <2>1, <2>2
<1>4. ASSUME NEW s \in Status, txn'[r].log = [txn[r].log EXCEPT ![o] = Append(@, s)]
      PROVE  \A p \in Platform : p # o => (Succeeded(r, p)' <=> Succeeded(r, p))
  <2>1. \A p \in Platform : p # o => txn'[r].log[p] = txn[r].log[p]
    BY <1>0, <1>4
  <2> QED
    BY <1>1, <2>1 DEF Succeeded
<1>5. CASE LogSuccess(r)
  <2>1. Working(r) /\ pc[r] = "log" /\ pc'[r] = "mark" /\ "success" \in Status
    BY <1>0, <1>5 DEF LogSuccess, Working, Status
  <2>2. /\ txn'[r].plat = o /\ txn'[r].errors = e
        /\ txn'[r].log = [txn[r].log EXCEPT ![o] = Append(@, "success")]
    BY <1>0, <1>5, LogKeeps DEF LogSuccess
  <2>3. Lost(r)' = Lost(r)
    <3>1. \A p \in Platform : p < o => p # o
      BY <1>0 DEF Platform
    <3>2. \A p \in Platform : p # o => (Succeeded(r, p)' <=> Succeeded(r, p))
      BY <1>4, <2>1, <2>2
    <3> HIDE DEF o
    <3>3. txn[r].plat = o
      BY DEF o
    <3> QED
      BY <2>1, <2>2, <3>1, <3>2, <3>3 DEF Lost
  <2> QED
    BY <1>0, <2>1, <2>2, <2>3
<1>6. ASSUME Working(r), pc[r] # "commit", pc'[r] = PairLabel(r), txn'[r].plat = NextPlat(r)
      PROVE  \A p \in Platform : p < txn'[r].plat \/ pc'[r] = "commit" => p = o \/ p < o
  <2>1. \A p \in Platform : p < o + 1 => p = o \/ p < o
    BY <1>0 DEF Platform
  <2>2. \A p \in Platform : ~(o < NumPlatforms) => p = o \/ p < o
    BY <1>0, PipelineRunAssumption DEF Platform
  <2> QED
    BY <1>6, <2>1, <2>2 DEF NextPlat, PairLabel
<1>7. CASE MarkJobPosted(r)
  <2>1. Working(r) /\ pc[r] = "mark" /\ pc'[r] = PairLabel(r) /\ Succeeded(r, o)
    BY <1>0, <1>7 DEF MarkJobPosted, Working, LogInv, TruthfulLog
  <2>2. txn'[r].errors = e /\ txn'[r].log = txn[r].log /\ txn'[r].plat = NextPlat(r)
    BY <1>0, <1>7 DEF MarkJobPosted, Txn
  <2>3. Lost(r)' \subseteq Lost(r)
    <3>1. \A p \in Platform : Succeeded(r, p)' <=> Succeeded(r, p)
      BY <1>1, <2>2 DEF Succeeded
    <3> QED
      BY <1>6, <2>1, <2>2, <3>1 DEF Lost
  <2>4. Cardinality(Lost(r)') <= Cardinality(Lost(r)) /\ Cardinality(Lost(r)') \in Nat
    BY <2>3, LostIsFinite, FS_Subset, FS_CardinalityType
  <2>5. Cardinality(Lost(r)) \in Nat
    BY LostIsFinite
  <2> QED
    BY <1>0, <2>1, <2>2, <2>4, <2>5
<1>8. CASE LogFailure(r)
  <2>1. Working(r) /\ pc[r] = "logfail" /\ "failed" \in Status
    BY <1>0, <1>8 DEF LogFailure, Working, Status
  <2>2. \A p \in Platform : p # o => (Succeeded(r, p)' <=> Succeeded(r, p))
    BY <1>0, <1>4, <1>8, <2>1, LogFailureKeeps
  <2> DEFINE t == Logged(r, "failed")
  <2>3. t \in Txn /\ t.plat = o /\ t.errors = e
    BY <1>0, <2>1, LogType, LogKeeps
  <2>4. CASE RetriesLeft(r)
    <3>1. txn'[r] = [t EXCEPT !.attempt = @ + 1] /\ pc'[r] = "publish"
      BY <1>0, <1>8, <2>4 DEF LogFailure
    <3> HIDE DEF t, o, e
    <3>2. txn'[r].plat = o /\ txn'[r].errors = e /\ txn[r].plat = o
      BY <2>3, <3>1 DEF Txn, o
    <3>3. \A p \in Platform : p < o => p # o
      BY <1>0 DEF Platform
    <3>4. Lost(r)' = Lost(r)
      BY <2>1, <2>2, <3>1, <3>2, <3>3 DEF Lost
    <3> QED
      BY <1>0, <2>1, <3>2, <3>4
  <2>5. CASE ~RetriesLeft(r)
    <3>1. txn'[r] = [t EXCEPT !.errors = @ + 1, !.plat = NextPlat(r)] /\ pc'[r] = PairLabel(r)
      BY <1>0, <1>8, <2>5 DEF LogFailure
    <3> HIDE DEF t
    <3>2. txn'[r].plat = NextPlat(r) /\ txn'[r].errors = e + 1
      BY <2>3, <3>1 DEF Txn
    <3>3. Lost(r)' \subseteq Lost(r) \cup {o}
      <4>1. \A p \in Platform : p < txn'[r].plat \/ pc'[r] = "commit" => p = o \/ p < o
        BY <1>6, <2>1, <3>1, <3>2
      <4> QED
        BY <2>2, <4>1 DEF Lost
    <3>4. /\ IsFiniteSet(Lost(r) \cup {o})
          /\ Cardinality(Lost(r) \cup {o}) <= Cardinality(Lost(r)) + 1
          /\ Cardinality(Lost(r) \cup {o}) \in Nat /\ Cardinality(Lost(r)) \in Nat
      <4> HIDE DEF o
      <4>1. /\ IsFiniteSet(Lost(r)) /\ Cardinality(Lost(r)) \in Nat
        BY LostIsFinite
      <4>2. /\ IsFiniteSet(Lost(r) \cup {o})
            /\ Cardinality(Lost(r) \cup {o}) =
                 IF o \in Lost(r) THEN Cardinality(Lost(r)) ELSE Cardinality(Lost(r)) + 1
        BY <4>1, FS_AddElement
      <4> QED
        BY <4>1, <4>2
    <3>5. /\ Cardinality(Lost(r)') <= Cardinality(Lost(r) \cup {o})
          /\ Cardinality(Lost(r)') \in Nat
      BY <3>3, <3>4, FS_Subset, FS_CardinalityType
    <3> QED
      BY <1>0, <2>1, <3>2, <3>4, <3>5
  <2> QED
    BY <2>4, <2>5
<1>9. ASSUME ~(\/ InsertJob(r) \/ FormatAndInsertPost(r) \/ Publish(r) \/ PublishAnswerLost(r)
               \/ PublishRefused(r) \/ LogSuccess(r) \/ MarkJobPosted(r) \/ LogFailure(r))
      PROVE  FALSE
  BY <1>0, <1>9
  DEF Working, Step, Failure, StartRun, StartRunFails, MayStart, Ingest, RunPipeline,
      RunPipelineFails, InsertRejected, InsertFails, FormatFails, StatementFails,
      ConnectionLost, PublishLate, Commit, CommitFails, Rollback, RollbackFails, Finalise,
      FinaliseFails, RecordRunFailure, RecordRunFailureFails, Crash, EndJob, LoopLabel
<1> QED
  BY <1>2, <1>3, <1>5, <1>7, <1>8, <1>9

LEMMA CountsInvStep ==
  ASSUME TypeOK, TypeOK', ClaimInv, LogInv, RowsInv, CountsInv, [Next]_vars
  PROVE  CountsInv'
<1> USE DEF At
<1>1. CASE UNCHANGED vars \/ AllRunsDone
  <2>1. UNCHANGED vars
    BY <1>1 DEF AllRunsDone
  <2> QED
    BY <2>1 DEF vars, CountsInv, Lost, Succeeded, Working
<1>2. ASSUME NEW r \in Runner, StartRun(r) \/ Step(r) \/ Failure(r)
      PROVE  CountsInv'
  <2> DEFINE Blank(q) ==
        \A i \in DOMAIN runLog[q] : ~runLog[q][i].finished => runLog[q][i].counts = NoCounts
  <2>1. ASSUME NEW q \in Runner, q # r
        PROVE  /\ At(q, "idle")' => counts'[q] = NoCounts
               /\ Blank(q)' /\ txn'[q].stamp = txn'[q].postedAny
               /\ Working(q)' => Cardinality(Lost(q)') <= txn'[q].errors
    <3>1. runLog'[q] = runLog[q] /\ counts'[q] = counts[q] /\ pc'[q] = pc[q] /\ txn'[q] = txn[q]
      BY <1>2, <2>1, OtherRows, LocalStep
    <3>2. Lost(q)' = Lost(q)
      BY <3>1 DEF Lost, Succeeded
    <3> QED
      BY <3>1, <3>2 DEF CountsInv, Working
  <2>2. At(r, "idle")' => counts'[r] = NoCounts
    BY <1>2, CountsStep DEF CountsInv
  <2>3. Blank(r)'
    <3>0. Blank(r)
      BY DEF CountsInv
    <3>1. CASE UNCHANGED runLog
      BY <3>0, <3>1
    <3>2. CASE runLog' = NewRunRow(r)
      <4>1. /\ Len(runLog[r]) \in Nat /\ Len(runLog'[r]) = Len(runLog[r]) + 1
            /\ DOMAIN runLog'[r] = 1..(Len(runLog[r]) + 1) /\ DOMAIN runLog[r] = 1..Len(runLog[r])
            /\ \A i \in 1..Len(runLog[r]) : runLog'[r][i] = runLog[r][i]
            /\ runLog'[r][Len(runLog'[r])] = RunRow(FALSE, NoCounts)
        BY <3>2, BegunRows DEF LastRow
      <4>2. \A i \in 1..(Len(runLog[r]) + 1) : i \notin 1..Len(runLog[r]) => i = Len(runLog[r]) + 1
        BY <4>1
      <4>3. RunRow(FALSE, NoCounts).counts = NoCounts
        BY DEF RunRow
      <4>4. ASSUME NEW i \in DOMAIN runLog'[r], ~runLog'[r][i].finished
            PROVE  runLog'[r][i].counts = NoCounts
        <5>1. CASE i \in 1..Len(runLog[r])
          BY <3>0, <4>1, <4>4, <5>1, Zenon
        <5>2. CASE i \notin 1..Len(runLog[r])
          BY <4>1, <4>2, <4>3, <4>4, <5>2, Zenon
        <5> QED
          BY <5>1, <5>2
      <4> QED
        BY <4>4
    <3>3. CASE FinishRow(r, counts[r]) /\ ~At(r, "idle")
      <4>1. runLog[r] # << >>
        BY <3>3 DEF RowsInv
      <4>2. RunRow(TRUE, counts[r]).finished
        BY DEF RunRow
      <4>3. /\ DOMAIN runLog'[r] = DOMAIN runLog[r]
            /\ \A i \in DOMAIN runLog[r] :
                 runLog'[r][i] = IF i = Len(runLog[r]) THEN RunRow(TRUE, counts[r]) ELSE runLog[r][i]
        BY <3>3, <4>1, FinishedRows
      <4> QED
        BY <3>0, <4>2, <4>3
    <3> QED
      BY <1>2, <3>1, <3>2, <3>3, RecordStep
      DEF Begins, BeginFails, Continues, Repeats, Ends, Abandons
  <2>4. txn'[r].stamp = txn'[r].postedAny
    BY <1>2, FlagsStep DEF CountsInv
  <2>5. Working(r)' => Cardinality(Lost(r)') <= txn'[r].errors
    BY <1>2, LostStep
  <2>6. ASSUME NEW q \in Runner
        PROVE  /\ At(q, "idle")' => counts'[q] = NoCounts
               /\ Blank(q)' /\ txn'[q].stamp = txn'[q].postedAny
               /\ Working(q)' => Cardinality(Lost(q)') <= txn'[q].errors
    <3>1. CASE q = r
      BY <2>2, <2>3, <2>4, <2>5, <3>1
    <3>2. CASE q # r
      BY <2>1, <3>2
    <3> QED
      BY <3>1, <3>2
  <2>7. \A q \in Runner : Lost(q)' = {p \in Platform : ~Succeeded(q, p)' /\ (p < txn'[q].plat \/ At(q, "commit")')}
    BY DEF Lost
  <2> HIDE DEF Blank
  <2> QED
    BY <2>6, <2>7 DEF CountsInv, Blank, Lost
<1> QED
  BY <1>1, <1>2 DEF Next

LEMMA StoredStep ==
  ASSUME TypeOK, ClaimInv, StoredInv, [Next]_vars
  PROVE  StoredInv'
<1>1. CASE UNCHANGED tables
  BY <1>1 DEF StoredInv, tables
<1>2. ASSUME NEW r \in Runner, Persist(r)
      PROVE  StoredInv'
  BY <1>2, FS_AddElement DEF StoredInv, Persist
<1> QED
  BY <1>1, <1>2, TablesStep DEF Next, AllRunsDone, vars, tables

(* One row more or less, or one that counts for more, in a tally.          *)
CountsOfType ==
  /\ IsFiniteSet(Rows)
  /\ \A q \in Runner : \A i \in DOMAIN runLog[q] : CountsOf(q, i) \in Counts
  /\ \A f \in {"posted", "errors"} :
       [x \in Rows |-> CountsOf(x[1], x[2])[f]] \in [Rows -> Nat]

LEMMA TallyType == TypeOK => CountsOfType
<1> SUFFICES ASSUME TypeOK PROVE CountsOfType
  OBVIOUS
<1>1. IsFiniteSet(Rows)
  BY RowsAreFinite DEF TypeOK, Rows
<1>2. ASSUME NEW q \in Runner, NEW i \in DOMAIN runLog[q]
      PROVE  CountsOf(q, i) \in Counts
  <2>1. runLog[q] \in Seq(Row)
    BY DEF TypeOK
  <2>2. runLog[q][i] \in Row
    BY <2>1, LenProperties, ElementOfSeq
  <2> QED
    BY <2>2 DEF TypeOK, CountsOf, Row
<1>3. \A x \in Rows : x[1] \in Runner /\ x[2] \in DOMAIN runLog[x[1]]
  BY DEF Rows
<1>4. \A c \in Counts : c["posted"] \in Nat /\ c["errors"] \in Nat
  BY DEF Counts
<1> QED
  BY <1>1, <1>2, <1>3, <1>4 DEF CountsOfType

LEMMA SumShrinks ==
  ASSUME NEW S, NEW T, IsFiniteSet(S), IsFiniteSet(T),
         NEW n \in [S -> Nat], NEW m \in [T -> Nat],
         \A x \in T : m[x] = 0 \/ (x \in S /\ m[x] <= n[x])
  PROVE  Sum(T, m) <= Sum(S, n)
<1>1. Marks(T, m) \subseteq Marks(S, n)
  <2>1. \A x \in T : \A k \in 1..m[x] : x \in S /\ k \in 1..n[x]
    OBVIOUS
  <2> QED
    BY <2>1, MarksAre
<1> QED
  BY <1>1, SumType, MarksAreFinite, FS_Subset

(* The tallies over the rows before and after a step of r.                 *)
LEMMA TallyStep ==
  ASSUME TypeOK, TypeOK', RowsInv, CountsInv, NEW r \in Runner,
         StartRun(r) \/ Step(r) \/ Failure(r)
  PROVE  /\ Tally("posted") \in Nat /\ Tally("posted")' \in Nat
         /\ Tally("errors") \in Nat /\ Tally("errors")' \in Nat
         /\ ~Commit(r) => Tally("posted")' <= Tally("posted")
         /\ ~Commit(r) /\ faults' = faults =>
              /\ Tally("posted")' = Tally("posted")
              /\ Tally("errors")' >= Tally("errors")
         /\ Commit(r) =>
              /\ Tally("posted")' = Tally("posted") + Posted(r)
              /\ Tally("errors")' = Tally("errors") + txn[r].errors
<1> DEFINE C(x) == CountsOf(x[1], x[2])
           D(x) == CountsOf(x[1], x[2])'
           n(f) == [x \in Rows |-> C(x)[f]]
           m(f) == [x \in Rows' |-> D(x)[f]]
           Field == {"posted", "errors"}
<1>1. /\ IsFiniteSet(Rows) /\ IsFiniteSet(Rows')
      /\ \A f \in Field : n(f) \in [Rows -> Nat] /\ m(f) \in [Rows' -> Nat]
      /\ \A x \in Rows : C(x) \in Counts
      /\ \A x \in Rows' : D(x) \in Counts
  <2>1. CountsOfType
    BY TallyType
  <2>2. CountsOfType'
    BY TallyType, PTL
  <2>3. \A x \in Rows : x[1] \in Runner /\ x[2] \in DOMAIN runLog[x[1]]
    BY DEF Rows
  <2>4. \A x \in Rows' : x[1] \in Runner /\ x[2] \in DOMAIN runLog'[x[1]]
    BY DEF Rows
  <2> QED
    BY <2>1, <2>2, <2>3, <2>4 DEF CountsOfType
<1>2. /\ \A f \in Field : Tally(f) = Sum(Rows, n(f)) /\ Tally(f)' = Sum(Rows', m(f))
  BY DEF Tally, Sum
<1>3. Rows \subseteq Rows' /\ \A x \in Rows' \ Rows : D(x) = NoCounts
  <2>1. ASSUME NEW x \in Rows PROVE x \in Rows'
    <3>1. PICK q \in Runner : \E i \in DOMAIN runLog[q] : x = <<q, i>>
      BY DEF Rows
    <3>2. DOMAIN runLog[q] \subseteq DOMAIN runLog'[q]
      BY CountsOfStep
    <3> QED
      BY <3>1, <3>2 DEF Rows
  <2>2. ASSUME NEW x \in Rows', x \notin Rows PROVE D(x) = NoCounts
    <3>1. PICK q \in Runner : \E i \in DOMAIN runLog'[q] : x = <<q, i>>
      BY DEF Rows
    <3>2. PICK i \in DOMAIN runLog'[q] : x = <<q, i>>
      BY <3>1
    <3>3. i \notin DOMAIN runLog[q]
      BY <2>2, <3>2 DEF Rows
    <3>4. CountsOf(q, i)' = NoCounts
      BY <3>3, CountsOfStep
    <3> QED
      BY <3>2, <3>4
  <2> QED
    BY <2>1, <2>2
<1>4. ASSUME NEW x \in Rows
      PROVE  \/ D(x) = C(x)
             \/ /\ x = <<r, Len(runLog[r])>> /\ ~At(r, "idle") /\ C(x) = counts[r]
                /\ \/ pc'[r] # "idle" /\ Len(runLog'[r]) = Len(runLog[r]) /\ D(x) = counts'[r]
                   \/ faults' = faults + 1 /\ D(x).posted <= counts[r].posted
  <2>1. PICK q \in Runner : \E i \in DOMAIN runLog[q] : x = <<q, i>>
    BY <1>4 DEF Rows
  <2>2. PICK i \in DOMAIN runLog[q] : x = <<q, i>>
    BY <2>1
  <2>3. \/ CountsOf(q, i)' = CountsOf(q, i)
        \/ /\ q = r /\ i = Len(runLog[r]) /\ ~At(r, "idle")
           /\ CountsOf(r, i) = counts[r]
           /\ \/ /\ pc'[r] # "idle" /\ Len(runLog'[r]) = Len(runLog[r])
                 /\ CountsOf(r, i)' = counts'[r]
              \/ /\ faults' = faults + 1
                 /\ CountsOf(r, i)'.posted <= counts[r].posted
    BY CountsOfStep
  <2> QED
    BY <2>2, <2>3
<1>5. /\ Tally("posted") \in Nat /\ Tally("posted")' \in Nat
      /\ Tally("errors") \in Nat /\ Tally("errors")' \in Nat
  <2>1. ASSUME NEW f \in Field PROVE Sum(Rows, n(f)) \in Nat /\ Sum(Rows', m(f)) \in Nat
    <3> HIDE DEF n, m
    <3> QED
      BY <1>1, SumType
  <2> QED
    BY <1>2, <2>1
<1>6. /\ \A c \in Counts : c.posted \in Nat /\ c.errors \in Nat
      /\ faults \in Nat /\ counts[r] \in Counts
      /\ NoCounts.posted = 0 /\ NoCounts.errors = 0
  BY DEF TypeOK, Counts, NoCounts
<1>7. ASSUME ~Commit(r)
      PROVE  /\ Tally("posted")' <= Tally("posted")
             /\ faults' = faults =>
                  /\ Tally("posted")' = Tally("posted")
                  /\ Tally("errors")' >= Tally("errors")
  <2>1. ASSUME NEW x \in Rows
        PROVE  /\ D(x).posted <= C(x).posted
               /\ faults' = faults => D(x).posted = C(x).posted /\ D(x).errors >= C(x).errors
    <3>1. pc'[r] # "idle" =>
            counts'[r].posted = counts[r].posted /\ counts'[r].errors >= counts[r].errors
      BY <1>7, CountsStep
    <3>2. C(x) \in Counts
      BY <1>1
    <3> HIDE DEF C, D
    <3> QED
      BY <1>4, <1>6, <3>1, <3>2
  <2>2. /\ \A x \in Rows : n("posted")[x] = C(x).posted /\ n("errors")[x] = C(x).errors
        /\ \A x \in Rows' : m("posted")[x] = D(x).posted /\ m("errors")[x] = D(x).errors
    OBVIOUS
  <2>3. /\ \A x \in Rows' : x \in Rows \/ (m("posted")[x] = 0 /\ m("errors")[x] = 0)
        /\ \A x \in Rows : m("posted")[x] <= n("posted")[x]
        /\ faults' = faults => \A x \in Rows :
             n("posted")[x] <= m("posted")[x] /\ n("errors")[x] <= m("errors")[x]
    <3>1. \A x \in Rows : C(x).posted \in Nat /\ C(x).errors \in Nat
                          /\ D(x).posted \in Nat /\ D(x).errors \in Nat
      BY <1>1, <1>3, <1>6
    <3> HIDE DEF C, D, n, m
    <3> QED
      BY <1>3, <1>6, <2>1, <2>2, <3>1
  <2> HIDE DEF n, m, C, D
  <2>4. Sum(Rows', m("posted")) <= Sum(Rows, n("posted"))
    <3>1. n("posted") \in [Rows -> Nat] /\ m("posted") \in [Rows' -> Nat]
      BY <1>1
    <3>2. \A x \in Rows' : m("posted")[x] = 0 \/ (x \in Rows /\ m("posted")[x] <= n("posted")[x])
      BY <2>3
    <3> QED
      BY <1>1, <3>1, <3>2, SumShrinks
  <2>5. ASSUME faults' = faults, NEW f \in Field
        PROVE  Sum(Rows, n(f)) <= Sum(Rows', m(f))
    <3>1. n(f) \in [Rows -> Nat] /\ m(f) \in [Rows' -> Nat]
      BY <1>1
    <3>2. \A x \in Rows : n(f)[x] <= m(f)[x]
      BY <2>3, <2>5
    <3> QED
      BY <1>1, <1>3, <3>1, <3>2, SumGrows
  <2>6. faults' = faults =>
          /\ Sum(Rows, n("posted")) <= Sum(Rows', m("posted"))
          /\ Sum(Rows, n("errors")) <= Sum(Rows', m("errors"))
    BY <2>5
  <2> QED
    BY <1>2, <1>5, <2>4, <2>6
<1>8. ASSUME Commit(r)
      PROVE  /\ Tally("posted")' = Tally("posted") + Posted(r)
             /\ Tally("errors")' = Tally("errors") + txn[r].errors
  <2> DEFINE a == <<r, Len(runLog[r])>>
  <2>1. /\ counts'[r].posted = counts[r].posted + Posted(r)
        /\ counts'[r].errors = counts[r].errors + txn[r].errors
        /\ UNCHANGED runLog /\ pc[r] = "commit" /\ pc'[r] # "idle"
    BY <1>8, CountsStep
  <2>2. Rows' = Rows /\ a \in Rows
    <3>1. runLog[r] # << >> /\ runLog[r] \in Seq(Row)
      BY <2>1 DEF RowsInv, TypeOK, At
    <3>2. Len(runLog[r]) \in DOMAIN runLog[r]
      BY <3>1, LenProperties, EmptySeq
    <3> QED
      BY <2>1, <3>2 DEF Rows
  <2>3. C(a) = counts[r] /\ D(a) = counts'[r]
    BY <2>1 DEF CountsOf, At
  <2>4. \A x \in Rows : x # a => D(x) = C(x)
    BY <1>4
  <2>5. /\ n("posted")[a] = counts[r].posted /\ n("errors")[a] = counts[r].errors
        /\ m("posted")[a] = counts'[r].posted /\ m("errors")[a] = counts'[r].errors
        /\ \A f \in Field : \A x \in Rows : x # a => m(f)[x] = n(f)[x]
    <3> HIDE DEF C, D, a
    <3> QED
      BY <2>2, <2>3, <2>4
  <2>6. Posted(r) \in Nat /\ txn[r].errors \in Nat
    BY DEF Posted, TypeOK, Txn
  <2> HIDE DEF n, m, C, D, a
  <2>7. ASSUME NEW f \in Field, NEW d \in Nat, m(f)[a] = n(f)[a] + d
        PROVE  Sum(Rows', m(f)) = Sum(Rows, n(f)) + d
    <3>1. n(f) \in [Rows -> Nat] /\ m(f) \in [Rows -> Nat]
      BY <1>1, <2>2
    <3>2. \A x \in Rows : x # a => m(f)[x] = n(f)[x]
      BY <2>5
    <3> QED
      BY <1>1, <2>2, <2>7, <3>1, <3>2, SumAdds
  <2> QED
    BY <1>2, <2>1, <2>5, <2>6, <2>7
<1> QED
  BY <1>5, <1>7, <1>8

LEMMA GivenUpIsFinite ==
  StoredInv => IsFiniteSet(GivenUp) /\ Cardinality(GivenUp) \in Nat
<1> SUFFICES ASSUME StoredInv PROVE IsFiniteSet(GivenUp) /\ Cardinality(GivenUp) \in Nat
  OBVIOUS
<1>1. IsFiniteSet(jobs \X Platform)
  <2>1. 1 \in Int /\ NumPlatforms \in Int
    BY PipelineRunAssumption
  <2>2. IsFiniteSet(Platform)
    BY <2>1, FS_Interval DEF Platform
  <2> QED
    BY <2>2, FS_Product DEF StoredInv
<1>2. GivenUp \subseteq jobs \X Platform
  BY DEF GivenUp
<1> QED
  BY <1>1, <1>2, FS_Subset, FS_CardinalityType

(* The commit of a job: its stamp is counted as a post, and each platform  *)
(* it was lost on has been counted as an error.                            *)
LEMMA CommitTallies ==
  ASSUME TypeOK, TypeOK', ClaimInv, CountsInv, StoredInv, StoredInv', NEW r \in Runner, Commit(r)
  PROVE  /\ Cardinality(postedAt') = Cardinality(postedAt) + Posted(r)
         /\ Cardinality(GivenUp') <= Cardinality(GivenUp) + txn[r].errors
<1> DEFINE h == txn[r].hash
           gone == {<<h, p>> : p \in Lost(r)}
<1>1. /\ Persist(r) /\ Working(r) /\ At(r, "commit") /\ h \in Hash /\ h \notin jobs
      /\ txn[r].log \in [Platform -> Seq(Status)] /\ txn[r].errors \in Nat
      /\ plog \in [Hash -> [Platform -> Seq(Status)]] /\ jobs \subseteq Hash
      /\ txn[r].stamp = txn[r].postedAny
      /\ Cardinality(Lost(r)) <= txn[r].errors
  <2>1. Persist(r) /\ At(r, "commit") /\ Working(r)
    BY DEF Commit, Working, At
  <2>2. /\ txn[r].log \in [Platform -> Seq(Status)] /\ txn[r].errors \in Nat
        /\ plog \in [Hash -> [Platform -> Seq(Status)]] /\ jobs \subseteq Hash
    BY DEF TypeOK, Txn
  <2>3. h \in Hash /\ h \notin jobs
    BY <2>1, PipelineRunAssumption DEF ClaimInv, TypeOK, Working, At
  <2>4. txn[r].stamp = txn[r].postedAny /\ Cardinality(Lost(r)) <= txn[r].errors
    BY <2>1 DEF CountsInv
  <2> QED
    BY <2>1, <2>2, <2>3, <2>4
<1>2. Cardinality(postedAt') = Cardinality(postedAt) + Posted(r)
  <2>1. IsFiniteSet(postedAt) /\ h \notin postedAt
    BY <1>1, FS_Subset DEF StoredInv
  <2>2. Cardinality(postedAt) \in Nat
    BY <2>1, FS_CardinalityType
  <2>3. CASE txn[r].stamp
    <3>1. postedAt' = postedAt \cup {h} /\ Posted(r) = 1
      BY <1>1, <2>3 DEF Persist, Posted
    <3> QED
      BY <2>1, <3>1, FS_AddElement
  <2>4. CASE ~txn[r].stamp
    <3>1. postedAt' = postedAt /\ Posted(r) = 0
      BY <1>1, <2>4 DEF Persist, Posted
    <3> QED
      BY <2>2, <3>1
  <2> QED
    BY <2>3, <2>4
<1>3. GivenUp' \subseteq GivenUp \cup gone
  <2> SUFFICES ASSUME NEW x \in GivenUp' PROVE x \in GivenUp \cup gone
    OBVIOUS
  <2>1. x \in jobs' \X Platform /\ ~Contains(plog'[x[1]][x[2]], "success")
    BY DEF GivenUp, Contains
  <2>2. CASE x[1] = h
    <3>1. plog'[x[1]] = txn[r].log
      BY <1>1, <2>2 DEF Persist
    <3>2. x[2] \in Lost(r)
      BY <1>1, <2>1, <3>1 DEF Lost, Succeeded, At
    <3>3. x = <<h, x[2]>>
      BY <2>1, <2>2
    <3> QED
      BY <3>2, <3>3
  <2>3. CASE x[1] # h
    <3>1. x[1] \in jobs /\ plog'[x[1]] = plog[x[1]]
      BY <1>1, <2>1, <2>3 DEF Persist
    <3> QED
      BY <2>1, <3>1 DEF GivenUp
  <2> QED
    BY <2>2, <2>3
<1>4. IsFiniteSet(gone) /\ Cardinality(gone) <= Cardinality(Lost(r))
  <2>1. [p \in Lost(r) |-> <<h, p>>] \in Surjection(Lost(r), gone)
    BY DEF Surjection
  <2> QED
    BY <2>1, LostIsFinite, FS_Surjection
<1>5. /\ IsFiniteSet(GivenUp) /\ Cardinality(GivenUp) \in Nat
  BY GivenUpIsFinite
<1> HIDE DEF gone
<1>6. /\ IsFiniteSet(GivenUp \cup gone)
      /\ Cardinality(GivenUp \cup gone) <= Cardinality(GivenUp) + Cardinality(gone)
      /\ Cardinality(GivenUp \cup gone) \in Nat /\ Cardinality(gone) \in Nat
  <2>1. /\ IsFiniteSet(GivenUp \cup gone)
        /\ Cardinality(GivenUp \cup gone) =
             Cardinality(GivenUp) + Cardinality(gone) - Cardinality(GivenUp \cap gone)
    BY <1>4, <1>5, FS_Union
  <2>2. Cardinality(GivenUp \cap gone) \in Nat
    BY <1>5, FS_Intersection, FS_CardinalityType
  <2>3. Cardinality(GivenUp \cup gone) \in Nat /\ Cardinality(gone) \in Nat
    BY <1>4, <2>1, FS_CardinalityType
  <2> QED
    BY <1>5, <2>1, <2>2, <2>3
<1>7. Cardinality(GivenUp') <= Cardinality(GivenUp \cup gone) /\ Cardinality(GivenUp') \in Nat
  BY <1>3, <1>6, FS_Subset, FS_CardinalityType
<1>8. Cardinality(Lost(r)) \in Nat
  BY LostIsFinite
<1> QED
  BY <1>1, <1>2, <1>4, <1>5, <1>6, <1>7, <1>8

LEMMA TallyInvStep ==
  ASSUME TypeOK, TypeOK', ClaimInv, RowsInv, CountsInv, StoredInv, StoredInv', TallyInv,
         [Next]_vars
  PROVE  TallyInv'
<1>0. faults \in Nat /\ IsFiniteSet(postedAt) /\ Cardinality(postedAt) \in Nat
  BY FS_Subset, FS_CardinalityType DEF TypeOK, StoredInv
<1>1. CASE UNCHANGED vars \/ AllRunsDone
  <2>1. UNCHANGED vars
    BY <1>1 DEF AllRunsDone
  <2>2. Tally("posted")' = Tally("posted") /\ Tally("errors")' = Tally("errors")
    BY <2>1 DEF vars, Tally, Rows, CountsOf, At
  <2>3. GivenUp' = GivenUp
    BY <2>1 DEF vars, GivenUp
  <2> QED
    BY <2>1, <2>2, <2>3 DEF TallyInv, vars
<1>2. ASSUME NEW r \in Runner, StartRun(r) \/ Step(r) \/ Failure(r)
      PROVE  TallyInv'
  <2>1. /\ Tally("posted") \in Nat /\ Tally("posted")' \in Nat
        /\ Tally("errors") \in Nat /\ Tally("errors")' \in Nat
        /\ ~Commit(r) => Tally("posted")' <= Tally("posted")
        /\ ~Commit(r) /\ faults' = faults =>
             /\ Tally("posted")' = Tally("posted")
             /\ Tally("errors")' >= Tally("errors")
        /\ Commit(r) =>
             /\ Tally("posted")' = Tally("posted") + Posted(r)
             /\ Tally("errors")' = Tally("errors") + txn[r].errors
    BY <1>2, TallyStep
  <2>2. CASE Commit(r)
    <3>1. /\ Cardinality(postedAt') = Cardinality(postedAt) + Posted(r)
          /\ Cardinality(GivenUp') <= Cardinality(GivenUp) + txn[r].errors
      BY <2>2, CommitTallies
    <3>2. faults' = faults
      BY <2>2 DEF Commit, NoFault
    <3>3. Posted(r) \in Nat /\ txn[r].errors \in Nat
      BY DEF Posted, TypeOK, Txn
    <3>4. Cardinality(GivenUp) \in Nat /\ Cardinality(GivenUp') \in Nat
      <4>1. (IsFiniteSet(GivenUp) /\ Cardinality(GivenUp) \in Nat)'
        BY GivenUpIsFinite, PTL
      <4> QED
        BY <4>1, GivenUpIsFinite
    <3> QED
      BY <1>0, <2>1, <2>2, <3>1, <3>2, <3>3, <3>4 DEF TallyInv
  <2>3. CASE ~Commit(r) /\ faults' = faults
    <3>1. UNCHANGED tables
      BY <1>0, <1>2, <2>3
      DEF Step, Failure, StartRun, StartRunFails, Ingest, RunPipeline, RunPipelineFails, InsertJob,
          InsertRejected, InsertFails, FormatAndInsertPost, FormatFails, StatementFails, Publish,
          PublishRefused, PublishAnswerLost, ConnectionLost, PublishLate, LogSuccess,
          MarkJobPosted, LogFailure, CommitFails, Rollback, RollbackFails, Finalise,
          FinaliseFails, RecordRunFailure, RecordRunFailureFails, Crash, tables, Fault
    <3>2. postedAt' = postedAt /\ GivenUp' = GivenUp
      BY <3>1 DEF tables, GivenUp
    <3>3. Cardinality(GivenUp) \in Nat
      BY GivenUpIsFinite
    <3> QED
      BY <1>0, <2>1, <2>3, <3>2, <3>3 DEF TallyInv
  <2>4. CASE ~Commit(r) /\ faults' = faults + 1
    <3>1. postedAt \subseteq postedAt'
      BY <1>2, TablesStep DEF tables, Persist
    <3>2. IsFiniteSet(postedAt')
      BY FS_Subset DEF StoredInv
    <3>3. Cardinality(postedAt) <= Cardinality(postedAt') /\ Cardinality(postedAt') \in Nat
      BY <3>1, <3>2, FS_Subset, FS_CardinalityType
    <3> QED
      BY <1>0, <2>1, <2>4, <3>3 DEF TallyInv
  <2>5. faults' = faults \/ faults' = faults + 1
    BY <1>0, FaultsStep
  <2>6. Commit(r) \/ ~Commit(r)
    OBVIOUS
  <2> QED
    BY <2>2, <2>3, <2>4, <2>5, <2>6
<1> QED
  BY <1>1, <1>2 DEF Next

LEMMA InitTallies == Init => CountsInv /\ StoredInv /\ TallyInv
<1> SUFFICES ASSUME Init PROVE CountsInv /\ StoredInv /\ TallyInv
  OBVIOUS
<1>1. CountsInv
  <2> SUFFICES ASSUME NEW r \in Runner
               PROVE  /\ pc[r] = "idle" /\ counts[r] = NoCounts /\ runLog[r] = << >>
                      /\ txn[r].stamp = txn[r].postedAny
    BY DEF CountsInv, Working, At
  <2> QED
    BY DEF Init, NewTxn
<1>2. StoredInv /\ Cardinality(postedAt) = 0
  BY FS_EmptySet DEF Init, StoredInv
<1>3. Rows = {}
  BY DEF Init, Rows
<1>4. \A f \in {"posted", "errors"} : Tally(f) = 0
  BY <1>3, FS_EmptySet DEF Tally, Sum
<1>5. GivenUp = {} /\ Cardinality({}) = 0
  BY FS_EmptySet DEF Init, GivenUp
<1> QED
  BY <1>1, <1>2, <1>4, <1>5 DEF TallyInv

LEMMA TallyInvariant == Spec => [](TypeOK /\ RowsInv /\ CountsInv /\ StoredInv /\ TallyInv)
<1> DEFINE Base == SafetyInv /\ TypeOK /\ RowsInv
           Inv == CountsInv /\ StoredInv /\ TallyInv
<1>1. Base /\ Base' /\ Inv /\ [Next]_vars => Inv'
  <2> SUFFICES ASSUME Base, Base', Inv, [Next]_vars PROVE Inv'
    OBVIOUS
  <2>1. TypeOK /\ TypeOK' /\ ClaimInv /\ LogInv
    BY DEF SafetyInv
  <2> QED
    BY <2>1, CountsInvStep, StoredStep, TallyInvStep
<1>2. Spec => []Base
  BY SafetyInvariant, RowsInvariant, PTL
<1> HIDE DEF Base
<1>3. Spec => [](Base /\ Inv)
  BY <1>1, <1>2, InitTallies, PTL DEF Spec
<1> QED
  BY <1>3, PTL DEF Base

(* However runs interleave, fail and die, run_log never claims more posts  *)
(* than there are jobs with posted_at; and as long as nothing has failed,  *)
(* once no run is active it claims exactly those, and an error for every   *)
(* job and platform that was given up (pipeline_run, _process_job).        *)
THEOREM RunLogIsTruthful == Spec => []RunLogMatchesJobs
<1>1. ASSUME TypeOK, RowsInv, CountsInv, StoredInv, TallyInv
      PROVE  RunLogMatchesJobs
  <2> DEFINE w(f) == [x \in Rows |-> runLog[x[1]][x[2]].counts[f]]
             n(f) == [x \in Rows |-> CountsOf(x[1], x[2])[f]]
             Field == {"posted", "errors"}
  <2>0. CountsOfType
    BY <1>1, TallyType
  <2>1. \A x \in Rows : /\ x[1] \in Runner /\ x[2] \in DOMAIN runLog[x[1]]
                        /\ runLog[x[1]][x[2]] \in Row
    <3>1. ASSUME NEW q \in Runner, NEW i \in DOMAIN runLog[q] PROVE runLog[q][i] \in Row
      <4>1. runLog[q] \in Seq(Row)
        BY <1>1 DEF TypeOK
      <4> QED
        BY <4>1, LenProperties, ElementOfSeq
    <3> QED
      BY <3>1 DEF Rows
  <2>2. /\ \A f \in Field : Total(f) = Sum(Rows, w(f)) /\ Tally(f) = Sum(Rows, n(f))
        /\ IsFiniteSet(Rows)
    BY <2>0 DEF Total, Tally, CountsOfType
  <2>3. \A f \in Field : w(f) \in [Rows -> Nat] /\ n(f) \in [Rows -> Nat]
    <3>1. \A c \in Counts : c["posted"] \in Nat /\ c["errors"] \in Nat
      BY DEF Counts
    <3> QED
      BY <2>0, <2>1, <3>1 DEF CountsOfType, Row
  <2>4. \A x \in Rows : w("posted")[x] <= n("posted")[x]
    <3>1. ASSUME NEW r \in Runner, NEW i \in DOMAIN runLog[r], runLog[r][i] \in Row
          PROVE  runLog[r][i].counts.posted <= CountsOf(r, i).posted
      <4>1. /\ runLog[r][i].counts.posted \in Nat /\ counts[r].posted \in Nat
            /\ NoCounts.posted = 0
        BY <1>1, <3>1 DEF Row, Counts, TypeOK, NoCounts
      <4>2. CASE ~At(r, "idle") /\ i = Len(runLog[r])
        <5>1. CountsOf(r, i) = counts[r]
          BY <4>2 DEF CountsOf
        <5>2. CASE ~runLog[r][i].finished
          <6>1. runLog[r][i].counts = NoCounts
            BY <1>1, <5>2 DEF CountsInv
          <6> QED
            BY <4>1, <5>1, <6>1
        <5>3. CASE runLog[r][i].finished
          <6>1. runLog[r][i].counts.posted <= counts[r].posted
            BY <1>1, <3>1, <4>1, <4>2, <5>3 DEF RowsInv, LastRow, At
          <6> QED
            BY <5>1, <6>1
        <5> QED
          BY <5>2, <5>3
      <4>3. CASE ~(~At(r, "idle") /\ i = Len(runLog[r]))
        BY <4>1, <4>3 DEF CountsOf
      <4> QED
        BY <4>2, <4>3
    <3> QED
      BY <2>1, <3>1
  <2>5. (\A r \in Runner : At(r, "idle")) => \A f \in Field : Total(f) = Tally(f)
    <3> SUFFICES ASSUME \A r \in Runner : At(r, "idle"), NEW f \in Field
                 PROVE  Total(f) = Tally(f)
      OBVIOUS
    <3>1. \A x \in Rows : CountsOf(x[1], x[2]) = runLog[x[1]][x[2]].counts
      BY <2>1 DEF CountsOf
    <3>2. w(f) = n(f)
      BY <3>1
    <3> QED
      BY <2>2, <3>2
  <2>6. Total("posted") <= Tally("posted") /\ Total("posted") \in Nat /\ Tally("posted") \in Nat
    <3> HIDE DEF w, n
    <3>1. w("posted") \in [Rows -> Nat] /\ n("posted") \in [Rows -> Nat]
      BY <2>3
    <3> QED
      BY <2>2, <2>4, <3>1, SumGrows, SumType
  <2>7. Cardinality(postedAt) \in Nat
    BY <1>1, FS_Subset, FS_CardinalityType DEF StoredInv
  <2>8. Tally("errors") \in Nat /\ Cardinality(GivenUp) \in Nat
    <3> HIDE DEF n
    <3>1. n("errors") \in [Rows -> Nat]
      BY <2>3
    <3> QED
      BY <1>1, <2>2, <3>1, SumType, GivenUpIsFinite
  <2> QED
    BY <1>1, <2>5, <2>6, <2>7, <2>8 DEF TallyInv, RunLogMatchesJobs
<1> QED
  BY <1>1, TallyInvariant, PTL
=============================================================================
