----------------------------- MODULE MCPipeline -----------------------------
(***************************************************************************)
(* Grows a batch listing by listing, and the jobs table hash by hash, and  *)
(* compares what Pipeline selects with the list-by-list computation of     *)
(* runner.run, written here the way the source loops.                      *)
(***************************************************************************)
EXTENDS Pipeline, SequencesExt

CONSTANTS a, b, c, d, MaxBatch

(* Listings are (hash, text) pairs: the same title and link may come with  *)
(* another description, which may score differently or be a scam.          *)
MCHash == {a, b, c, d}
MCListing == {<<a, 1>>, <<a, 2>>, <<b, 1>>, <<b, 2>>, <<c, 1>>, <<d, 1>>}
MCHashOf == [l \in MCListing |-> l[1]]
MCScam == {<<b, 1>>}
MCScore == [l \in MCListing |->
              CASE l = <<a, 1>> -> 4 [] l = <<a, 2>> -> 7 [] l = <<d, 1>> -> 9 [] OTHER -> 6]

VARIABLES raw, stored
vars == <<raw, stored>>

Init == raw = << >> /\ stored = {}

Fetch == /\ Len(raw) < MaxBatch
         /\ \E l \in Listing : raw' = Append(raw, l)
         /\ UNCHANGED stored

Store == /\ \E h \in Hash : stored' = stored \cup {h}
         /\ UNCHANGED raw

Next == Fetch \/ Store
Spec == Init /\ [][Next]_vars

-----------------------------------------------------------------------------
(* The source's loops over lists of job objects, which are known by their  *)
(* positions in the batch: the dedup loop with seen_in_batch, two list     *)
(* comprehensions, a stable descending sort, and the slice.                *)
Dedup ==
  LET after[n \in 0..Len(raw)] ==
        IF n = 0 THEN [seen |-> {}, new |-> << >>]
        ELSE IF HashAt(raw, n) \in stored \cup after[n - 1].seen THEN after[n - 1]
        ELSE [seen |-> after[n - 1].seen \cup {HashAt(raw, n)},
              new  |-> Append(after[n - 1].new, n)]
  IN  after[Len(raw)].new

Only(jobs, S) ==
  FlattenSeq([k \in DOMAIN jobs |-> IF jobs[k] \in S THEN <<jobs[k]>> ELSE << >>])

(* By insertion: after the jobs that score as much, before the others.     *)
Inserted(sorted, i) ==
  LET asGood == {k \in DOMAIN raw : Score[raw[k]] >= Score[raw[i]]}
  IN  Only(sorted, asGood) \o <<i>> \o Only(sorted, DOMAIN raw \ asGood)
StableSort(jobs) ==
  LET after[n \in 0..Len(jobs)] ==
        IF n = 0 THEN << >> ELSE Inserted(after[n - 1], jobs[n])
  IN  after[Len(jobs)]

ReferenceToPost ==
  LET clean == Only(Dedup, {i \in DOMAIN raw : raw[i] \notin Scam})
      passing == StableSort(Only(clean, {i \in DOMAIN raw : Score[raw[i]] >= MinScore}))
  IN  SubSeq(passing, 1, IF Len(passing) < MaxPosts THEN Len(passing) ELSE MaxPosts)

-----------------------------------------------------------------------------
(* The loop over ToPost posts the listings runner.run returns, capped, in  *)
(* the order it returns them.                                              *)
MatchesReference ==
  LET jobs == ReferenceToPost
  IN  /\ ToSet(jobs) = ToPost(raw, stored)
      /\ \A k \in DOMAIN jobs :
           IsNext(raw, ToPost(raw, stored) \ {jobs[m] : m \in 1..(k - 1)}, jobs[k])

(* Storing a job never pushes another one off the selection: what a run    *)
(* would have posted and was not stored is still what the next run over    *)
(* the same batch posts, so a backlog over the cap drains.                 *)
StoringKeepsTheRest ==
  [][raw' = raw =>
       \A i \in ToPost(raw, stored) :
         HashAt(raw, i) \notin stored' => i \in ToPost(raw, stored')]_vars
=============================================================================
