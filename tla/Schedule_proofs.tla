---------------------------- MODULE Schedule_proofs ----------------------------
(***************************************************************************)
(* Theorems about Schedule, for any interval, any number of processes and  *)
(* any bound on time.                                                      *)
(***************************************************************************)
EXTENDS Schedule, SequenceTheorems, TLAPS

-----------------------------------------------------------------------------
(* A new row comes after the others and leaves them as they are.           *)
LEMMA AppendRow ==
  ASSUME NEW s \in Seq(Row), NEW row \in Row
  PROVE  /\ Append(s, row) \in Seq(Row)
         /\ DOMAIN Append(s, row) = DOMAIN s \cup {Len(s) + 1}
         /\ Len(s) + 1 \notin DOMAIN s
         /\ \A i \in DOMAIN s : Append(s, row)[i] = s[i] /\ i < Len(s) + 1
         /\ Append(s, row)[Len(s) + 1] = row
OBVIOUS

LEMMA NewRowType == TypeInv => NewRow \in Row
BY DEF TypeInv, NewRow, Row, Never

LEMMA RowFields ==
  ASSUME TypeInv, NEW i \in DOMAIN rows
  PROVE  /\ rows[i] \in Row
         /\ rows[i].started \in Nat /\ rows[i].boot \in Nat
         /\ rows[i].over \in Int /\ (rows[i].over # Never => rows[i].over \in Nat)
         /\ rows[i].finished \in Nat \cup {Never}
<1>1. rows[i] \in Row
  BY DEF TypeInv
<1>2. rows[i].over \in Nat \cup {Never} /\ rows[i].started \in Nat
      /\ rows[i].boot \in Nat /\ rows[i].finished \in Nat \cup {Never}
  BY <1>1 DEF Row
<1> QED
  BY <1>1, <1>2 DEF Never

(* The end of a run changes one row, and that of a process those that were *)
(* active; where and when a run started stays.                             *)
EndsRows(ends) ==
  /\ rows' \in Seq(Row) /\ DOMAIN rows' = DOMAIN rows
  /\ \A i \in DOMAIN rows :
       /\ rows'[i].boot = rows[i].boot /\ rows'[i].started = rows[i].started
       /\ IF i \in ends THEN Active(i) /\ rows'[i].over = clock
                        ELSE rows'[i].over = rows[i].over
       /\ rows'[i].finished = rows[i].finished \/ (Active(i) /\ rows'[i].finished = clock)

LEMMA RunEndsRows ==
  ASSUME TypeInv, NEW i \in DOMAIN rows, RunEnds(i)
  PROVE  EndsRows({i})
<1>1. clock \in Nat /\ rows \in Seq(Row) /\ rows[i] \in Row
  BY DEF TypeInv
<1>2. Finished(rows[i]) \in Row /\ Unrecorded(rows[i]) \in Row
  BY <1>1 DEF Finished, Unrecorded, Row, Never
<1>3. rows' = [rows EXCEPT ![i] = Finished(rows[i])]
      \/ rows' = [rows EXCEPT ![i] = Unrecorded(rows[i])]
  BY DEF RunEnds
<1>4. rows' \in Seq(Row) /\ DOMAIN rows' = DOMAIN rows
  BY <1>1, <1>2, <1>3
<1>5. ASSUME NEW k \in DOMAIN rows, k # i PROVE rows'[k] = rows[k]
  BY <1>1, <1>3, <1>5
<1>6. rows'[i] = Finished(rows[i]) \/ rows'[i] = Unrecorded(rows[i])
  BY <1>1, <1>3
<1>7. /\ rows'[i].boot = rows[i].boot /\ rows'[i].started = rows[i].started
      /\ rows'[i].over = clock
      /\ rows'[i].finished = rows[i].finished \/ rows'[i].finished = clock
  BY <1>1, <1>6 DEF Finished, Unrecorded, Row
<1>8. Active(i)
  BY DEF RunEnds
<1> QED
  BY <1>4, <1>5, <1>7, <1>8 DEF EndsRows

LEMMA ProcessEndsRows ==
  ASSUME TypeInv, ProcessEnds
  PROVE  EndsRows({i \in DOMAIN rows : Ours(i) /\ Active(i)})
<1>1. clock \in Nat /\ rows \in Seq(Row)
  BY DEF TypeInv
<1>2. ASSUME NEW i \in DOMAIN rows
      PROVE  /\ Killed(rows[i]) \in Row /\ rows[i] \in Row
             /\ Killed(rows[i]).boot = rows[i].boot
             /\ Killed(rows[i]).started = rows[i].started
             /\ Killed(rows[i]).finished = rows[i].finished
             /\ Killed(rows[i]).over = clock
  BY <1>1, RowFields DEF Killed, Row, Never
<1>3. rows' = [i \in DOMAIN rows |-> IF Ours(i) /\ Active(i) THEN Killed(rows[i]) ELSE rows[i]]
  BY DEF ProcessEnds
<1>4. rows' \in Seq(Row) /\ DOMAIN rows' = DOMAIN rows
  BY <1>1, <1>2, <1>3
<1> QED
  BY <1>2, <1>3, <1>4 DEF EndsRows

-----------------------------------------------------------------------------
(* How each action changes the rows, and what it leaves of the rest.       *)
LEMMA TypeStep ==
  ASSUME TypeInv, DueInv, [Next]_vars
  PROVE  TypeInv' /\ DueInv'
<1>a. Interval \in Nat /\ Interval > 0
  BY ScheduleAssumption DEF ScheduleAssumption
<1> USE <1>a
<1>1. ASSUME FireIsDue PROVE due' \in Int /\ DueInv'
  BY <1>1 DEF FireIsDue, NextDue, TypeInv, DueInv
<1>2. CASE Tick
  BY <1>2 DEF Tick, TypeInv, DueInv
<1>3. CASE Boot
  <2>1. clock' = clock /\ due' = clock /\ rows' = rows /\ boots' = boots + 1
        /\ up' = TRUE /\ missed' = FALSE
    BY <1>3 DEF Boot, FirstFire
  <2>2. DueInv'
    BY <2>1 DEF TypeInv, DueInv
  <2>3. up' \in BOOLEAN /\ missed' \in BOOLEAN
    BY <2>1, Zenon
  <2>4. TypeInv'
    BY <2>1, <2>3 DEF TypeInv
  <2> QED
    BY <2>2, <2>4
<1>4. CASE Fire
  <2>1. rows' \in Seq(Row)
    BY <1>4, NewRowType, AppendRow DEF Fire, TypeInv
  <2> QED
    BY <1>1, <1>4, <2>1 DEF Fire, FireIsDue, TypeInv
<1>5. CASE FireSkipped
  BY <1>1, <1>5 DEF FireSkipped, FireIsDue, TypeInv
<1>6. CASE FireLost
  BY <1>1, <1>6 DEF FireLost, FireIsDue, TypeInv
<1>7. CASE ProcessEnds
  BY <1>7, ProcessEndsRows DEF ProcessEnds, EndsRows, TypeInv, DueInv
<1>8. ASSUME NEW i \in DOMAIN rows, RunEnds(i) PROVE TypeInv' /\ DueInv'
  BY <1>8, RunEndsRows DEF RunEnds, EndsRows, TypeInv, DueInv
<1>9. CASE Bounded \/ UNCHANGED vars
  BY <1>9 DEF Bounded, vars, TypeInv, DueInv
<1> QED
  BY <1>2, <1>3, <1>4, <1>5, <1>6, <1>7, <1>8, <1>9 DEF Next

(* At a fire that starts a run, no run is active and the last one of this  *)
(* process started an interval ago at least.                               *)
LEMMA FreeAtFire ==
  ASSUME TypeInv, DueInv, RowInv, FireIsDue, InstanceFree, NEW i \in DOMAIN rows
  PROVE  /\ ~Active(i)
         /\ Ours(i) => rows[i].started + Interval <= clock
         /\ due = clock
<1>1. ~Active(i)
  BY DEF RowInv, InstanceFree, Busy
<1>2. due = clock /\ up
  BY DEF FireIsDue, DueInv, TypeInv
<1> QED
  BY <1>1, <1>2 DEF RowInv

LEMMA PaceStep ==
  ASSUME TypeInv, DueInv, RowInv, RunsArePaced, [Next]_vars
  PROVE  RowInv' /\ RunsArePaced'
<1>a. Interval \in Nat /\ Interval > 0
  BY ScheduleAssumption DEF ScheduleAssumption
<1> USE <1>a
<1>1. ASSUME NEW i \in DOMAIN rows
      PROVE  /\ rows[i] \in Row
             /\ rows[i].started \in Nat /\ rows[i].boot \in Nat
             /\ rows[i].over \in Int /\ (rows[i].over # Never => rows[i].over \in Nat)
  BY RowFields
<1>2. CASE Tick
  BY <1>1, <1>2 DEF Tick, TypeInv, RowInv, RunsArePaced, Active, Ours
<1>3. CASE Boot
  <2>1. ASSUME NEW i \in DOMAIN rows PROVE ~Active(i) /\ rows[i].boot # boots'
    BY <1>1, <1>3, <2>1 DEF Boot, RowInv, TypeInv
  <2> QED
    BY <1>1, <1>3, <2>1 DEF Boot, TypeInv, RowInv, RunsArePaced, Active, Ours
<1>4. CASE Fire
  <2>1. rows' = Append(rows, NewRow) /\ NewRow \in Row /\ rows \in Seq(Row)
    BY <1>4, NewRowType DEF Fire, TypeInv
  <2> DEFINE new == Len(rows) + 1
  <2>2. /\ DOMAIN rows' = DOMAIN rows \cup {new} /\ new \notin DOMAIN rows
        /\ \A i \in DOMAIN rows : rows'[i] = rows[i] /\ i < new
        /\ rows'[new] = NewRow
    BY <2>1, AppendRow
  <2>3. FireIsDue /\ InstanceFree
    BY <1>4 DEF Fire
  <2>4. /\ due' = due + Interval /\ clock' = clock /\ boots' = boots /\ up' = up /\ up
        /\ due = clock /\ clock \in Nat
    BY <2>3 DEF FireIsDue, NextDue, DueInv, TypeInv
  <2>5. NewRow.boot = boots /\ NewRow.started = clock /\ NewRow.over = Never
    BY DEF NewRow
  <2>6. RowInv'
    <3>1. ASSUME NEW i \in DOMAIN rows'
          PROVE  /\ rows'[i].started <= clock' /\ rows'[i].over <= clock'
                 /\ rows'[i].boot <= boots'
                 /\ rows'[i].over = Never => up' /\ rows'[i].boot = boots'
                 /\ up' /\ rows'[i].boot = boots' => rows'[i].started + Interval <= due'
      <4>1. CASE i = new
        BY <2>2, <2>4, <2>5, <4>1 DEF Never, TypeInv
      <4>2. CASE i \in DOMAIN rows
        BY <1>1, <2>2, <2>4, <4>2 DEF RowInv, Active, Ours
      <4> QED
        BY <2>2, <4>1, <4>2
    <3> QED
      BY <3>1 DEF RowInv, Active, Ours
  <2>7. RunsArePaced'
    <3>1. ASSUME NEW i \in DOMAIN rows', NEW k \in DOMAIN rows', i < k
          PROVE  /\ rows'[i].over # Never /\ rows'[i].over <= rows'[k].started
                 /\ rows'[i].boot = rows'[k].boot =>
                      rows'[k].started - rows'[i].started >= Interval
      <4>1. i \in DOMAIN rows
        BY <2>1, <2>2, <3>1
      <4>2. CASE k = new
        BY <1>1, <2>2, <2>3, <2>4, <2>5, <4>1, <4>2, FreeAtFire DEF RowInv, Active, Ours
      <4>3. CASE k \in DOMAIN rows
        BY <2>2, <3>1, <4>1, <4>3 DEF RunsArePaced, Active
      <4> QED
        BY <2>2, <4>2, <4>3
    <3> QED
      BY <3>1 DEF RunsArePaced, Active
  <2> QED
    BY <2>6, <2>7
<1>5. CASE FireSkipped \/ FireLost
  <2>1. UNCHANGED <<rows, clock, boots, up>> /\ due' = due + Interval /\ due \in Int
    BY <1>5 DEF FireSkipped, FireLost, FireIsDue, NextDue, TypeInv
  <2> QED
    BY <1>1, <2>1 DEF RowInv, RunsArePaced, Active, Ours
<1>6. CASE ProcessEnds
  <2> DEFINE ends == {i \in DOMAIN rows : Ours(i) /\ Active(i)}
  <2>1. EndsRows(ends) /\ ~up' /\ UNCHANGED <<clock, boots, due>>
    BY <1>6, ProcessEndsRows DEF ProcessEnds
  <2>2. ASSUME NEW i \in DOMAIN rows PROVE ~Active(i)'
    BY <1>1, <2>1, <2>2 DEF EndsRows, RowInv, Active, Never, TypeInv
  <2> QED
    BY <1>1, <2>1, <2>2 DEF EndsRows, RowInv, RunsArePaced, Active, Ours, TypeInv
<1>7. ASSUME NEW e \in DOMAIN rows, RunEnds(e) PROVE RowInv' /\ RunsArePaced'
  <2>1. EndsRows({e}) /\ UNCHANGED <<clock, boots, up, due>>
    BY <1>7, RunEndsRows DEF RunEnds
  <2>2. ASSUME NEW i \in DOMAIN rows
        PROVE  rows'[i].over = rows[i].over
               \/ (rows[i].over = Never /\ rows'[i].over = clock)
    BY <2>1 DEF EndsRows, Active
  <2>3. clock \in Nat
    BY DEF TypeInv
  <2>4. RowInv'
    BY <1>1, <2>1, <2>2, <2>3 DEF EndsRows, RowInv, Active, Ours, Never
  <2>5. RunsArePaced'
    BY <1>1, <2>1, <2>2, <2>3 DEF EndsRows, RunsArePaced, Active
  <2> QED
    BY <2>4, <2>5
<1>8. CASE Bounded \/ UNCHANGED vars
  BY <1>8 DEF Bounded, vars, RowInv, RunsArePaced, Active, Ours
<1> QED
  BY <1>2, <1>3, <1>4, <1>5, <1>6, <1>7, <1>8 DEF Next


(* After a run that was not too late, the last run of the process is       *)
(* active, or ended no more than an interval before the next fire.         *)
LEMMA RecentStep ==
  ASSUME TypeInv, DueInv, RowInv, RecentInv, [Next]_vars
  PROVE  RecentInv'
<1>a. Interval \in Nat /\ Interval > 0 /\ clock \in Nat /\ due \in Int
  BY ScheduleAssumption DEF ScheduleAssumption, TypeInv
<1>1. CASE Tick
  BY <1>a, <1>1 DEF Tick, RecentInv, Active, Ours
<1>2. CASE Boot
  BY <1>a, <1>2 DEF Boot, FirstFire, RecentInv
<1>3. CASE Fire
  <2>1. rows' = Append(rows, NewRow) /\ NewRow \in Row /\ rows \in Seq(Row)
    BY <1>3, NewRowType DEF Fire, TypeInv
  <2>2. Len(rows) + 1 \in DOMAIN rows' /\ rows'[Len(rows) + 1] = NewRow
    BY <2>1, AppendRow
  <2>3. NewRow.boot = boots' /\ NewRow.over = Never
    BY <1>3 DEF Fire, FireIsDue, NewRow
  <2> QED
    BY <2>2, <2>3 DEF RecentInv, Active, Ours
<1>4. CASE FireSkipped
  <2>1. PICK i \in DOMAIN rows : Ours(i) /\ Active(i)
    BY <1>4 DEF FireSkipped, InstanceFree, Busy
  <2> QED
    BY <1>4, <2>1 DEF FireSkipped, FireIsDue, RecentInv, Active, Ours
<1>5. CASE FireLost
  BY <1>5 DEF FireLost, RecentInv
<1>6. CASE ProcessEnds
  BY <1>6 DEF ProcessEnds, RecentInv
<1>7. ASSUME NEW e \in DOMAIN rows, RunEnds(e), up, ~missed, due > clock
      PROVE  RecentInv'
  <2>1. EndsRows({e}) /\ UNCHANGED <<clock, boots, up, due, missed>>
    BY <1>7, RunEndsRows DEF RunEnds
  <2>2. PICK i \in DOMAIN rows : Ours(i) /\ (Active(i) \/ rows[i].over >= due - Interval)
    BY <1>7 DEF RecentInv
  <2>3. i \in DOMAIN rows' /\ rows'[i].boot = boots'
    BY <2>1, <2>2 DEF EndsRows, Ours
  <2>4. rows'[i].over = rows[i].over \/ rows'[i].over = clock
    BY <2>1 DEF EndsRows
  <2>5. due - Interval <= clock
    BY <1>a, <1>7 DEF DueInv
  <2>6. rows'[i].over = Never \/ rows'[i].over >= due' - Interval
    BY <1>a, <2>1, <2>2, <2>4, <2>5 DEF Active
  <2> QED
    BY <2>3, <2>6 DEF RecentInv, Active, Ours
<1>8. ASSUME NEW e \in DOMAIN rows, RunEnds(e) PROVE RecentInv'
  <2>1. UNCHANGED <<clock, up, due, missed>>
    BY <1>8 DEF RunEnds
  <2> QED
    BY <1>7, <1>8, <2>1 DEF RecentInv
<1>9. CASE Bounded \/ UNCHANGED vars
  BY <1>9 DEF Bounded, vars, RecentInv, Active, Ours
<1> QED
  BY <1>1, <1>2, <1>3, <1>4, <1>5, <1>6, <1>8, <1>9 DEF Next

(* A row stays, with the time its run started; its end is recorded once,   *)
(* and the clock never goes back.                                          *)
LEMMA RowsStand ==
  ASSUME TypeInv, [Next]_vars, NEW i \in DOMAIN rows
  PROVE  /\ rows'[i].started = rows[i].started
         /\ rows'[i].finished = rows[i].finished \/ rows'[i].finished = clock
         /\ clock' \in Nat /\ clock <= clock'
<1>1. clock \in Nat
  BY DEF TypeInv
<1>2. CASE Fire
  <2>1. rows'[i] = rows[i]
    BY <1>2, NewRowType, AppendRow DEF Fire, TypeInv
  <2> QED
    BY <1>1, <1>2, <2>1 DEF Fire, FireIsDue
<1>3. CASE ProcessEnds
  <2>1. EndsRows({k \in DOMAIN rows : Ours(k) /\ Active(k)}) /\ clock' = clock
    BY <1>3, ProcessEndsRows DEF ProcessEnds
  <2> QED
    BY <1>1, <2>1 DEF EndsRows
<1>4. ASSUME NEW e \in DOMAIN rows, RunEnds(e)
      PROVE  /\ rows'[i].started = rows[i].started
             /\ rows'[i].finished = rows[i].finished \/ rows'[i].finished = clock
             /\ clock' \in Nat /\ clock <= clock'
  BY <1>1, <1>4, RunEndsRows DEF EndsRows, RunEnds
<1>5. CASE Tick \/ Boot \/ FireSkipped \/ FireLost \/ Bounded \/ UNCHANGED vars
  BY <1>1, <1>5 DEF Tick, Boot, FireSkipped, FireLost, FireIsDue, Bounded, vars
<1> QED
  BY <1>2, <1>3, <1>4, <1>5 DEF Next

-----------------------------------------------------------------------------
(* The inductive invariant of the schedule.                                *)
THEOREM PaceInvariant == Spec => []PaceInv
<1>1. Init => PaceInv
  <2> SUFFICES ASSUME Init PROVE PaceInv
    OBVIOUS
  <2>1. rows \in Seq(Row) /\ DOMAIN rows = {}
    BY EmptySeq DEF Init
  <2>2. up \in BOOLEAN /\ missed \in BOOLEAN /\ ~up
    BY Zenon DEF Init
  <2>3. TypeInv
    BY <2>1, <2>2 DEF Init, TypeInv, Never
  <2> QED
    BY <2>1, <2>2, <2>3 DEF PaceInv, DueInv, RowInv, RecentInv, RunsArePaced
<1>2. PaceInv /\ [Next]_vars => PaceInv'
  BY TypeStep, PaceStep, RecentStep DEF PaceInv
<1> QED
  BY <1>1, <1>2, PTL DEF Spec

(* Runs of the scheduler never overlap, and those of one process start an  *)
(* interval apart (add_job with max_instances=1 and an interval trigger).  *)
THEOREM RunsPaced == Spec => []RunsArePaced
<1>1. PaceInv => RunsArePaced
  BY DEF PaceInv
<1> QED
  BY <1>1, PaceInvariant, PTL

(* A process that lost no fire runs at once, and is never idle for longer  *)
(* than an interval after a run (next_run_time=now, and the interval).     *)
THEOREM NeverIdle == Spec => []NeverIdleForLong
<1>1. ASSUME PaceInv, up, ~missed, due > clock
      PROVE  \E i \in DOMAIN rows :
               Ours(i) /\ (Active(i) \/ clock - rows[i].over <= Interval)
  <2>1. PICK i \in DOMAIN rows : Ours(i) /\ (Active(i) \/ rows[i].over >= due - Interval)
    BY <1>1 DEF PaceInv, RecentInv
  <2>2. rows[i].over \in Int /\ due \in Int /\ clock \in Nat /\ Interval \in Nat
    BY <1>1, RowFields, ScheduleAssumption DEF PaceInv, TypeInv, ScheduleAssumption
  <2> QED
    BY <1>1, <2>1, <2>2
<1>2. PaceInv => NeverIdleForLong
  BY <1>1 DEF NeverIdleForLong
<1> QED
  BY <1>2, PaceInvariant, PTL

(* What RunLogSchema.status says of a run never goes back: a completed run *)
(* stays so, an interrupted one is never running again.                    *)
THEOREM StatusForward == Spec => StatusMovesForward
<1>1. ASSUME PaceInv, [Next]_vars, NEW i \in DOMAIN rows
      PROVE  /\ Status(i) = "completed" => Status(i)' = "completed"
             /\ Status(i) = "interrupted" => Status(i)' # "running"
  <2>1. /\ rows'[i].started = rows[i].started
        /\ rows'[i].finished = rows[i].finished \/ rows'[i].finished = clock
        /\ clock' \in Nat /\ clock <= clock'
    BY <1>1, RowsStand DEF PaceInv
  <2>2. clock \in Nat /\ rows[i].started \in Nat /\ RecentFor \in Nat
    BY <1>1, RowFields, ScheduleAssumption DEF PaceInv, TypeInv, ScheduleAssumption
  <2>3. Status(i) = "completed" => Status(i)' = "completed"
    BY <2>1, <2>2 DEF Status, Never
  <2>4. Status(i) = "interrupted" => Status(i)' # "running"
    BY <2>1, <2>2 DEF Status
  <2> QED
    BY <2>3, <2>4
<1>2. PaceInv /\ [Next]_vars =>
        [\A i \in DOMAIN rows :
           /\ Status(i) = "completed" => Status(i)' = "completed"
           /\ Status(i) = "interrupted" => Status(i)' # "running"]_vars
  BY <1>1
<1> QED
  BY <1>2, PaceInvariant, PTL DEF Spec, StatusMovesForward

=============================================================================
