------------------------------ MODULE JobLedger ------------------------------
(***************************************************************************)
(* What the runs of app/scheduler.py promise about a job, whatever the     *)
(* number of runners and whatever fails: one runner at a time owns it,     *)
(* only the owner posts it, and it is stored by its owner, once.  The      *)
(* promise has one gap: an owner may be evicted without knowing, and the   *)
(* attempt it is making then may still go out.                             *)
(***************************************************************************)
EXTENDS Naturals

CONSTANTS Runner, Hash, Platform,
          NoHash      \* stands for "no job": not a member of Hash

VARIABLES owners,     \* the runners that own a job: none or one
          late,       \* the job an evicted runner may still post, or NoHash
          stored,     \* the jobs that are in the table for good
          delivered   \* posts of a job that are out on a platform

vars == <<owners, late, stored, delivered>>

Init ==
  /\ owners = [h \in Hash |-> {}]
  /\ late = [r \in Runner |-> NoHash]
  /\ stored = {}
  /\ delivered = [h \in Hash |-> [p \in Platform |-> 0]]

Owned(r) == {h \in Hash : r \in owners[h]}
Post(h, p) == delivered' = [delivered EXCEPT ![h][p] = @ + 1]

Claim(r, h) ==
  /\ owners[h] = {} /\ h \notin stored
  /\ Owned(r) = {} /\ late[r] = NoHash
  /\ owners' = [owners EXCEPT ![h] = {r}]
  /\ UNCHANGED <<late, stored, delivered>>

Deliver(r, h, p) ==
  /\ r \in owners[h]
  /\ Post(h, p)
  /\ UNCHANGED <<owners, late, stored>>

Evict(r, h) ==
  /\ r \in owners[h]
  /\ owners' = [owners EXCEPT ![h] = {}]
  /\ late' = [late EXCEPT ![r] = h]
  /\ UNCHANGED <<stored, delivered>>

EndLate(r) ==
  /\ late[r] # NoHash
  /\ late' = [late EXCEPT ![r] = NoHash]
  /\ UNCHANGED delivered \/ \E p \in Platform : Post(late[r], p)
  /\ UNCHANGED <<owners, stored>>

Release(r, h) ==
  /\ r \in owners[h]
  /\ owners' = [owners EXCEPT ![h] = {}]
  /\ UNCHANGED <<late, stored, delivered>>

Store(r, h) ==
  /\ r \in owners[h]
  /\ owners' = [owners EXCEPT ![h] = {}]
  /\ stored' = stored \cup {h}
  /\ UNCHANGED <<late, delivered>>

Next ==
  \E r \in Runner :
    \/ EndLate(r)
    \/ \E h \in Hash :
         \/ Claim(r, h) \/ Evict(r, h) \/ Release(r, h) \/ Store(r, h)
         \/ \E p \in Platform : Deliver(r, h, p)

Spec == Init /\ [][Next]_vars
=============================================================================
