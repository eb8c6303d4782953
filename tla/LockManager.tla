---------------------------- MODULE LockManager ----------------------------
(***************************************************************************)
(* What mutex_guard.c promises, without saying how: locks that tasks ask   *)
(* for one at a time, and no task is left asking when the tasks it would   *)
(* wait for are, directly or not, waiting for it.  There is no graph, no   *)
(* table and no s_guard here, only the locks and who wants them.           *)
(***************************************************************************)
CONSTANTS Tasks, Locks, None     \* None is neither a task nor a lock

VARIABLES
  held,     \* the task holding each lock, or None
  wants     \* the lock each task is blocked on, or None

lockVars == << held, wants >>

TypeInvariant ==
  /\ held  \in [Locks -> Tasks \cup {None}]
  /\ wants \in [Tasks -> Locks \cup {None}]

(* The tasks of D, which is not empty, can only be woken by one another.   *)
Stuck(D, h, w) ==
  /\ D # {}
  /\ \A t \in D : w[t] \in Locks /\ h[w[t]] \in D

Deadlocked(h, w) == \E D \in SUBSET Tasks : Stuck(D, h, w)

Init ==
  /\ held  = [l \in Locks |-> None]
  /\ wants = [t \in Tasks |-> None]

(* A task starts to wait, unless that would close a circle. *)
Request(t, l) ==
  /\ wants[t] = None
  /\ wants' = [wants EXCEPT ![t] = l]
  /\ ~Deadlocked(held, wants')
  /\ UNCHANGED held

Acquire(t) ==
  /\ wants[t] \in Locks
  /\ held[wants[t]] = None
  /\ held'  = [held EXCEPT ![wants[t]] = t]
  /\ wants' = [wants EXCEPT ![t] = None]

(* A wait may be given up, but only while the lock is somebody's. *)
Abandon(t) ==
  /\ wants[t] \in Locks
  /\ held[wants[t]] # None
  /\ wants' = [wants EXCEPT ![t] = None]
  /\ UNCHANGED held

(* Only the holder releases, and a task that waits releases nothing. *)
Release(t, l) ==
  /\ wants[t] = None
  /\ held[l] = t
  /\ held' = [held EXCEPT ![l] = None]
  /\ UNCHANGED wants

Next ==
  \E t \in Tasks :
    \/ Acquire(t)
    \/ Abandon(t)
    \/ \E l \in Locks : Request(t, l) \/ Release(t, l)

Spec == Init /\ [][Next]_lockVars

(* No set of tasks ever waits only for itself. *)
NeverDeadlocked == ~Deadlocked(held, wants)
=============================================================================
