------------------------------ MODULE Pipeline ------------------------------
(***************************************************************************)
(* What one run selects from the listings it fetched: app/pipeline/dedup,  *)
(* filter and runner, and the cap of scheduler.pipeline_run.               *)
(*                                                                         *)
(* A batch is a sequence of listings; every stage is the set of positions  *)
(* of the batch it keeps, and the final sort is the order Before on        *)
(* positions, so that no stage has to rebuild a list.  Whether a listing   *)
(* is a scam and what it scores are constants here: Scorer computes them.  *)
(*                                                                         *)
(* NewJobsBreak, BeforeUnstable and ToPostCapFirst are broken variants of  *)
(* the definition that follows each. The specification does not use them;  *)
(* each shows that some property would notice the mistake it stands for.   *)
(***************************************************************************)
EXTENDS Integers, Sequences, FiniteSets

CONSTANTS Listing,      \* the raw listings a source can return
          Hash,         \* the values of Job.content_hash
          HashOf,       \* compute_content_hash(title, apply_url) of a listing
          Scam,         \* the listings is_scam flags
          Score,        \* score_job of a listing, in tenths
          MinScore,     \* Settings.MIN_SCORE_THRESHOLD, in tenths
          MaxPosts      \* Settings.MAX_POSTS_PER_RUN

ASSUME PipelineAssumption ==
  /\ HashOf \in [Listing -> Hash]
  /\ Scam \subseteq Listing
  /\ Score \in [Listing -> 0..10]
  /\ MinScore \in 0..10
  /\ MaxPosts \in Nat

HashAt(raw, i) == HashOf[raw[i]]

(* filter_new_jobs: not in the jobs table, and the first of its hash in    *)
(* the batch.  The filters that follow see only that first occurrence.     *)
NewJobsBreak(raw, stored) ==
  {i \in DOMAIN raw : /\ \A k \in 1..i : HashAt(raw, k) \notin stored
                      /\ \A k \in 1..(i - 1) : HashAt(raw, k) # HashAt(raw, i)}
NewJobs(raw, stored) ==
  {i \in DOMAIN raw : /\ HashAt(raw, i) \notin stored
                      /\ \A k \in 1..(i - 1) : HashAt(raw, k) # HashAt(raw, i)}

CleanJobs(raw, stored) == {i \in NewJobs(raw, stored) : raw[i] \notin Scam}

Passing(raw, stored) == {i \in CleanJobs(raw, stored) : Score[raw[i]] >= MinScore}

(* passing.sort(key=score, reverse=True) is stable: the batch order breaks *)
(* ties.                                                                   *)
BeforeUnstable(raw, i, k) ==
  \/ Score[raw[i]] > Score[raw[k]]
  \/ Score[raw[i]] = Score[raw[k]] /\ i > k
Before(raw, i, k) ==
  \/ Score[raw[i]] > Score[raw[k]]
  \/ Score[raw[i]] = Score[raw[k]] /\ i < k

Ahead(raw, S, i) == {k \in S : Before(raw, k, i)}

(* passing[:MAX_POSTS_PER_RUN]                                             *)
ToPostCapFirst(raw, stored) ==
  {i \in Passing(raw, stored) : Cardinality(Ahead(raw, Passing(raw, {}), i)) < MaxPosts}
ToPost(raw, stored) ==
  {i \in Passing(raw, stored) : Cardinality(Ahead(raw, Passing(raw, stored), i)) < MaxPosts}

(* The position the posting loop takes next from those it has left.        *)
IsNext(raw, todo, i) == i \in todo /\ Ahead(raw, todo, i) = {}
=============================================================================
