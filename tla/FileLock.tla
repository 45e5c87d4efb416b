------------------------------- MODULE FileLock -------------------------------
(***************************************************************************)
(* FileLock (src/src/utils/service/file_lock.cpp): an exclusive lock on a  *)
(* path, taken in two layers.  A process-local registry entry counts the   *)
(* owners and the waiters among the threads of the process; the thread     *)
(* that owns the entry then takes flock on the .lock file.  A caller       *)
(* blocks, blocks with a timeout, or tries once.                           *)
(*                                                                         *)
(* There is one path.  g_proc_registry_mtx is held over each step here; a  *)
(* waiter sleeps on the entry's condition variable with the mutex          *)
(* released.                                                               *)
(***************************************************************************)
EXTENDS Naturals, FiniteSets

CONSTANTS Threads,
          ProcOf,     \* the process of a thread
          NoThread

Processes == {ProcOf[t] : t \in Threads}

VARIABLES reg,        \* g_proc_locks, per process: the entry of the path
          flock,      \* the thread whose descriptor holds the OS lock
          lock        \* FileLockImpl of a thread

lockVars == <<reg, flock, lock>>

NoEntry == [owners |-> 0, waiters |-> {}]

NoLock == [pc |-> "none", mode |-> "none", woken |-> FALSE, error |-> "none"]

LockInit ==
    /\ reg = [p \in Processes |-> NoEntry]
    /\ flock = NoThread
    /\ lock = [t \in Threads |-> NoLock]

Mine(t) == reg[ProcOf[t]]

Fails(t, error) == [lock EXCEPT ![t] = [NoLock EXCEPT !.pc = "failed", !.error = error]]

\* open_and_lock after prepare_lock_path: the process-local layer.
AcquireProcessLocalLock(t, mode) ==
    /\ lock[t].pc = "none"
    /\ IF Mine(t).owners = 0
       THEN /\ reg' = [reg EXCEPT ![ProcOf[t]].owners = 1]
            /\ lock' = [lock EXCEPT ![t] = [NoLock EXCEPT !.pc = "owner", !.mode = mode]]
       ELSE IF mode = "try"
       THEN UNCHANGED reg /\ lock' = Fails(t, "again")
       ELSE /\ reg' = [reg EXCEPT ![ProcOf[t]].waiters = @ \cup {t}]
            /\ lock' = [lock EXCEPT ![t] = [NoLock EXCEPT !.pc = "wait", !.mode = mode]]
    /\ UNCHANGED flock

\* The waiter was notified: it becomes the owner if the entry is still free and
\* sleeps again if not.
WaiterWakes(t) ==
    /\ lock[t].pc = "wait" /\ lock[t].woken
    /\ IF Mine(t).owners = 0
       THEN /\ reg' = [reg EXCEPT ![ProcOf[t]] = [owners |-> 1, waiters |-> @.waiters \ {t}]]
            /\ lock' = [lock EXCEPT ![t].pc = "owner", ![t].woken = FALSE]
       ELSE UNCHANGED reg /\ lock' = [lock EXCEPT ![t].woken = FALSE]
    /\ UNCHANGED flock

\* wait_for runs out; its predicate is evaluated a last time.
WaiterTimesOut(t) ==
    /\ lock[t].pc = "wait" /\ lock[t].mode = "timed"
    /\ IF Mine(t).owners = 0
       THEN /\ reg' = [reg EXCEPT ![ProcOf[t]] = [owners |-> 1, waiters |-> @.waiters \ {t}]]
            /\ lock' = [lock EXCEPT ![t].pc = "owner", ![t].woken = FALSE]
       ELSE /\ reg' = [reg EXCEPT ![ProcOf[t]].waiters = @ \ {t}]
            /\ lock' = Fails(t, "timeout")
    /\ UNCHANGED flock

\* The owner gives the entry back and notifies every waiter.
Disown(t) == [reg EXCEPT ![ProcOf[t]].owners = @ - 1]

NotifyAll(t, l) == [u \in Threads |-> IF u \in Mine(t).waiters THEN [l[u] EXCEPT !.woken = TRUE] ELSE l[u]]

\* ensure_lock_directory or open fails; rollback_process_local_lock.
OpenFails(t) ==
    /\ lock[t].pc = "owner"
    /\ reg' = Disown(t)
    /\ lock' = NotifyAll(t, Fails(t, "io"))
    /\ UNCHANGED flock

\* run_os_lock_loop: flock succeeds on a descriptor of its own.
OsLock(t) ==
    /\ lock[t].pc = "owner" /\ flock = NoThread
    /\ flock' = t
    /\ lock' = [lock EXCEPT ![t].pc = "held"]
    /\ UNCHANGED reg

\* Another process holds it: one attempt, or the timeout has passed.
OsLockRefused(t) ==
    /\ lock[t].pc = "owner" /\ flock # NoThread /\ lock[t].mode # "block"
    /\ reg' = Disown(t)
    /\ lock' = NotifyAll(t, Fails(t, IF lock[t].mode = "try" THEN "again" ELSE "timeout"))
    /\ UNCHANGED flock

\* FileLockImplDeleter of a valid lock: flock is dropped, then the entry.
Unlock(t) ==
    /\ flock' = NoThread
    /\ reg' = Disown(t)
    /\ lock' = NotifyAll(t, [lock EXCEPT ![t] = NoLock])

LockSteps(t) ==
    WaiterWakes(t) \/ WaiterTimesOut(t) \/ OpenFails(t) \/ OsLock(t) \/ OsLockRefused(t)

\* The process of t is gone: its registry with it, and its descriptors closed.
LockCrash(p) ==
    /\ reg' = [reg EXCEPT ![p] = NoEntry]
    /\ flock' = IF flock # NoThread /\ ProcOf[flock] = p THEN NoThread ELSE flock
    /\ lock' = [t \in Threads |-> IF ProcOf[t] = p THEN NoLock ELSE lock[t]]

-----------------------------------------------------------------------------
(* Properties *)

\* Whoever holds the lock owns its process's entry, nobody else holds it, and
\* no thread is asleep on an entry that is free: the release that freed the
\* entry has notified it.
LockIsHandedOn ==
    /\ \A t \in Threads : lock[t].pc = "held" <=> flock = t
    /\ \A p \in Processes :
          reg[p].owners = Cardinality({t \in Threads : ProcOf[t] = p /\ lock[t].pc \in {"owner", "held"}})
    /\ \A p \in Processes : reg[p].owners <= 1
    /\ \A t \in Threads :
          (lock[t].pc = "wait" /\ Mine(t).owners = 0) =>
              \E u \in Mine(t).waiters : lock[u].woken
====
