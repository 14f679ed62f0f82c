---------------------------- MODULE MCPipelineRun ----------------------------
(***************************************************************************)
(* Small instances of PipelineRun.                                         *)
(***************************************************************************)
EXTENDS PipelineRun

CONSTANTS r1, r2, a, b, c

(* Job a scores higher than b; <<b, 2>> is b under another description     *)
(* that falls below the threshold.  Job c scores highest, and cannot be    *)
(* stored.                                                                 *)
MCHash == {a, b, c}
MCListing == {<<a, 1>>, <<b, 1>>, <<b, 2>>, <<c, 1>>}
MCHashOf == [l \in MCListing |-> l[1]]
MCScore == [l \in MCListing |-> CASE l = <<a, 1>> -> 8 [] l = <<b, 1>> -> 6
                                  [] l = <<b, 2>> -> 4 [] l = <<c, 1>> -> 9]
MCUnstorable == {<<c, 1>>}
NoScam == {}

(* All of them, not in the order of their scores, and one hash twice.      *)
Backlog == {<< <<b, 1>>, <<c, 1>>, <<a, 1>>, <<b, 2>> >>}
OneJob == {<< <<a, 1>> >>}

(* Enough fault-free runs are left to store every job that passes and can  *)
(* be stored, as long as fewer than MAX_POSTS_PER_RUN cannot: the backlog  *)
(* over the cap drains, a job lost to a fault is taken again, and a        *)
(* listing that fails on every run takes one place of each.                *)
BacklogDrains ==
  <>[](\A l \in Listing \ Unstorable : Score[l] >= MinScore => HashOf[l] \in jobs)

(* "It always returns a PublishResult rather than raising": a runner in    *)
(* publish_with_retry, still alive, never finds itself in the handler of   *)
(* _process_job.                                                           *)
PublishNeverRaises ==
  [][\A r \in Runner :
       pc[r] \in {"publish", "late", "log", "mark", "logfail"} => pc'[r] # "rollback"]_vars

(* "logging every attempt to publish_log": the attempts of a job whose     *)
(* processing fails on a later platform are still in the table.            *)
AttemptsSurviveRollback ==
  \A r \in Runner :
    At(r, "rollback") =>
      \A p \in Platform : txn[r].log[p] # << >> => plog[txn[r].hash][p] = txn[r].log[p]

OneRunner == {r1}
TwoRunners == {r1, r2}
Symmetry == Permutations(TwoRunners)
=============================================================================
