------------------------------ MODULE JsonConfig ------------------------------
(***************************************************************************)
(* JsonConfig (src/src/utils/config/json_config.cpp and its header): a     *)
(* JSON file with a copy in memory in each process that uses it.  A        *)
(* process's threads share one object: a shared mutex over the copy, and a *)
(* FileLock for what touches the disk.  A write goes to a temporary file   *)
(* that is renamed over the target.                                        *)
(*                                                                         *)
(* A content is the set of edits that went into it; "torn" is a file that  *)
(* does not parse.  A call is a record:                                    *)
(*   kind    read, write, reload, overwrite, commit (lock_for_write,       *)
(*           json(), WriteLock::commit), or hold (FileLock::try_lock on    *)
(*           the path by someone else)                                     *)
(*   reload, commit   the AccessFlags of a transaction                     *)
(*   ec      does the caller pass an error code?                           *)
(* A transaction inside the lambda of another is refused and changes       *)
(* nothing, so lambdas here make none.                                     *)
(***************************************************************************)
EXTENDS FileLock

VARIABLES disk,       \* the content of the file
          temp,       \* per thread: the content of its temporary file
          mem,        \* per process: Impl (copy, shared mutex, dirty flag)
          thr,        \* per thread: program counter, call, snapshot, result
          acked,      \* edits whose FullSync write has returned without error
          onlySync    \* do all calls that write the file use FullSync?

configVars == <<lockVars, disk, temp, mem, thr, acked, onlySync>>
memVars == <<disk, temp, mem, acked, onlySync>>

Torn == {<<"torn">>}
NoTemp == {<<"none">>}

Reads(flag) == [kind |-> "read", reload |-> flag, commit |-> FALSE, ec |-> TRUE]
Writes(reload, commit, ec) == [kind |-> "write", reload |-> reload, commit |-> commit, ec |-> ec]
Other(kind, ec) == [kind |-> kind, reload |-> FALSE, commit |-> FALSE, ec |-> ec]
NoCall == Other("none", FALSE)

Idle == [pc |-> "idle", call |-> NoCall, edit |-> "none", before |-> {}, snap |-> {},
         tries |-> 0, result |-> "none"]

FreshImpl == [value |-> {}, dirty |-> FALSE, writer |-> NoThread, readers |-> {}, base |-> {}]

ConfigInit ==
    /\ LockInit
    /\ disk = {} /\ acked = {} /\ onlySync = TRUE
    /\ temp = [t \in Threads |-> NoTemp]
    /\ mem = [p \in Processes |-> FreshImpl]
    /\ thr = [t \in Threads |-> Idle]

Copy(t) == mem[ProcOf[t]]

Goto(t, pc) == [thr EXCEPT ![t].pc = pc]
At(t, pc) == thr[t].pc = pc

\* The call returns; every lock it still holds has been released.
Returns(t, result) == [thr EXCEPT ![t] = [Idle EXCEPT !.result = result]]

-----------------------------------------------------------------------------
(* The locks *)

\* lock_for_write and lock_for_read wait for the shared mutex.
LockForWrite(t, next) ==
    /\ Copy(t).writer = NoThread /\ Copy(t).readers = {}
    /\ mem' = [mem EXCEPT ![ProcOf[t]].writer = t]
    /\ thr' = Goto(t, next)

LockForRead(t, next) ==
    /\ Copy(t).writer = NoThread
    /\ mem' = [mem EXCEPT ![ProcOf[t]].readers = @ \cup {t}]
    /\ thr' = Goto(t, next)

Released(t) == [mem EXCEPT ![ProcOf[t]].writer = IF @ = t THEN NoThread ELSE @,
                           ![ProcOf[t]].readers = @ \ {t}]

\* A FileLock of the thread is taken, held, or has failed.
TakeFileLock(t, mode) == AcquireProcessLocalLock(t, mode) /\ UNCHANGED <<memVars, thr>>
FileHeld(t) == lock[t].pc = "held"
FileFailed(t) == lock[t].pc = "failed"
ForgetFailure(t) == UNCHANGED <<reg, flock>> /\ lock' = [lock EXCEPT ![t] = NoLock]

-----------------------------------------------------------------------------
(* Calls *)

\* A transaction is created and consumed at once.  A write that needs the disk
\* takes the file lock first; reload takes the mutex first.
Start(t, call, edit) ==
    /\ At(t, "idle")
    /\ thr' = [thr EXCEPT ![t] = [Idle EXCEPT !.call = call, !.edit = edit, !.pc =
          CASE call.kind = "read" -> IF call.reload THEN "reload" ELSE "rlock"
            [] call.kind = "write" -> IF call.reload \/ call.commit THEN "wfile" ELSE "wlock"
            [] call.kind = "reload" -> "reload"
            [] call.kind = "overwrite" -> "rlock"
            [] call.kind = "commit" -> "wlock"
            [] call.kind = "hold" -> "hold"]]
    /\ onlySync' = (onlySync /\ call.kind \notin {"overwrite", "commit"} /\ (call.commit => call.reload))
    /\ UNCHANGED <<lockVars, disk, temp, mem, acked>>

\* reload: the mutex, then the file lock, which it waits for without a limit.
ReloadLocks(t) == At(t, "reload") /\ LockForWrite(t, "rfile") /\ UNCHANGED <<lockVars, disk, temp, acked, onlySync>>

\* consume_write_ asks for the file lock three times, with a timeout.
FileLockFor(t) ==
    /\ \/ At(t, "rfile") /\ TakeFileLock(t, "block")
       \/ At(t, "cfile") /\ TakeFileLock(t, "block")
       \/ At(t, "wfile") /\ TakeFileLock(t, "timed")
       \/ At(t, "hold") /\ TakeFileLock(t, "try")

FileLockFails(t) ==
    /\ At(t, "rfile") \/ At(t, "cfile") \/ At(t, "wfile") \/ At(t, "hold")
    /\ FileFailed(t) /\ ForgetFailure(t)
    /\ IF At(t, "wfile") /\ thr[t].tries < 2
       THEN thr' = [thr EXCEPT ![t].tries = @ + 1] /\ UNCHANGED mem
       ELSE thr' = Returns(t, "lock") /\ mem' = Released(t)
    /\ UNCHANGED <<disk, temp, acked, onlySync>>

HoldEnds(t) ==
    /\ At(t, "hold") /\ FileHeld(t)
    /\ Unlock(t) /\ thr' = Returns(t, "ok")
    /\ UNCHANGED memVars

\* private_load_from_disk_unsafe, under both locks.
Loaded(t) ==
    IF disk = Torn THEN mem
    ELSE [mem EXCEPT ![ProcOf[t]].value = disk, ![ProcOf[t]].dirty = FALSE,
                     ![ProcOf[t]].base = disk]

ReloadReads(t) ==
    /\ At(t, "rfile") /\ FileHeld(t)
    /\ Unlock(t)
    /\ mem' = [Loaded(t) EXCEPT ![ProcOf[t]].writer = NoThread]
    /\ thr' = IF disk = Torn THEN Returns(t, "io")
              ELSE IF thr[t].call.kind = "read" THEN Goto(t, "rlock") ELSE Returns(t, "ok")
    /\ UNCHANGED <<disk, temp, acked, onlySync>>

\* The lambda of a read, or the snapshot overwrite takes before it locks the file.
ReadLock(t) == At(t, "rlock") /\ LockForRead(t, "rbody") /\ UNCHANGED <<lockVars, disk, temp, acked, onlySync>>

ReadBody(t) ==
    /\ At(t, "rbody")
    /\ mem' = Released(t)
    /\ thr' = IF thr[t].call.kind = "read" THEN Returns(t, "ok")
              ELSE [thr EXCEPT ![t].pc = "cfile", ![t].snap = Copy(t).value]
    /\ UNCHANGED <<lockVars, disk, temp, acked, onlySync>>

\* consume_write_ and lock_for_write.
WriteFileHeld(t) ==
    At(t, "wfile") /\ FileHeld(t) /\ thr' = Goto(t, "wlock") /\ UNCHANGED <<lockVars, memVars>>

WriteLock(t) == At(t, "wlock") /\ LockForWrite(t, "wbody") /\ UNCHANGED <<lockVars, disk, temp, acked, onlySync>>

\* The reload of a write transaction, before the lambda.
Base(t) == IF thr[t].call.reload THEN Loaded(t) ELSE mem

Torn_(t) == thr[t].call.reload /\ disk = Torn

\* A file lock held by the call is released with it.
UnlockIfHeld(t) == IF FileHeld(t) THEN Unlock(t) ELSE UNCHANGED lockVars

LoadFails(t) ==
    /\ At(t, "wbody") /\ Torn_(t)
    /\ mem' = Released(t) /\ thr' = Returns(t, "io") /\ UnlockIfHeld(t)
    /\ UNCHANGED <<disk, temp, acked, onlySync>>

\* The lambda throws, or what it made cannot be dumped: the copy is put back and
\* the dirty flag cleared.
LambdaThrows(t) ==
    /\ At(t, "wbody") /\ ~Torn_(t) /\ thr[t].call.kind = "write"
    /\ mem' = [Base(t) EXCEPT ![ProcOf[t]].dirty = FALSE, ![ProcOf[t]].writer = NoThread]
    /\ thr' = Returns(t, "throw") /\ UnlockIfHeld(t)
    /\ UNCHANGED <<disk, temp, acked, onlySync>>

\* The lambda edits the copy; it may say not to commit.  The mutex is released
\* before the snapshot is written.
LambdaEdits(t) ==
    /\ At(t, "wbody") /\ ~Torn_(t)
    /\ mem' = [Base(t) EXCEPT ![ProcOf[t]].value = @ \cup {thr[t].edit},
                              ![ProcOf[t]].dirty = TRUE, ![ProcOf[t]].writer = NoThread]
    /\ \/ /\ thr[t].call.kind = "commit" \/ thr[t].call.commit
          /\ thr' = [thr EXCEPT ![t].pc = IF thr[t].call.kind = "commit" THEN "cfile" ELSE "temp",
                                ![t].snap = mem'[ProcOf[t]].value]
          /\ UNCHANGED lockVars
       \/ /\ thr[t].call.kind = "write"
          /\ thr' = Returns(t, IF thr[t].call.commit THEN "skipped" ELSE "ok")
          /\ UnlockIfHeld(t)
    /\ UNCHANGED <<disk, temp, acked, onlySync>>

-----------------------------------------------------------------------------
(* atomic_write_json *)

CommitFileHeld(t) ==
    At(t, "cfile") /\ FileHeld(t) /\ thr' = Goto(t, "temp") /\ UNCHANGED <<lockVars, memVars>>

\* mkstemp, then write, fsync and close.
WriteTemp(t) ==
    /\ At(t, "temp")
    /\ \/ temp[t] = NoTemp /\ temp' = [temp EXCEPT ![t] = Torn] /\ UNCHANGED thr
       \/ temp[t] = Torn /\ temp' = [temp EXCEPT ![t] = thr[t].snap] /\ thr' = Goto(t, "rename")
    /\ UNCHANGED <<lockVars, disk, mem, acked, onlySync>>


Rename(t) ==
    /\ At(t, "rename")
    /\ disk' = temp[t]
    /\ temp' = [temp EXCEPT ![t] = NoTemp]
    /\ thr' = Goto(t, "sync")
    /\ UNCHANGED <<lockVars, mem, acked, onlySync>>

\* What the caller does after atomic_write_json.  Without an error code a failure
\* is not noticed and the copy counts as saved.
AfterWrite(t, failed) ==
    LET noticed == failed /\ thr[t].call.ec
    IN /\ mem' = IF noticed THEN mem
                 ELSE [mem EXCEPT ![ProcOf[t]].dirty = FALSE,
                                  ![ProcOf[t]].base = IF failed THEN @ ELSE thr[t].snap]
       /\ thr' = Returns(t, IF noticed THEN "io" ELSE "ok")
       /\ acked' = IF ~failed /\ thr[t].call.reload THEN acked \cup {thr[t].edit} ELSE acked
       /\ Unlock(t)

\* A step fails and the temporary file is removed.
WriteFails(t) ==
    /\ At(t, "temp") \/ At(t, "rename")
    /\ temp' = [temp EXCEPT ![t] = NoTemp]
    /\ AfterWrite(t, TRUE)
    /\ UNCHANGED <<disk, onlySync>>

\* The directory is synced, or that fails with the new file in place.
SyncParent(t) ==
    /\ At(t, "sync")
    /\ \E failed \in BOOLEAN : AfterWrite(t, failed)
    /\ UNCHANGED <<disk, temp, onlySync>>

\* A process dies; temporary files stay behind.
Crash(p) ==
    /\ LockCrash(p)
    /\ mem' = [mem EXCEPT ![p] = FreshImpl]
    /\ thr' = [t \in Threads |-> IF ProcOf[t] = p THEN [Idle EXCEPT !.pc = "dead"] ELSE thr[t]]
    /\ temp' = [t \in Threads |-> IF ProcOf[t] = p THEN NoTemp ELSE temp[t]]
    /\ UNCHANGED <<disk, acked, onlySync>>

ThreadSteps(t) ==
    \/ LockSteps(t) /\ UNCHANGED <<memVars, thr>>
    \/ ReloadLocks(t) \/ FileLockFor(t) \/ FileLockFails(t) \/ HoldEnds(t) \/ ReloadReads(t)
    \/ ReadLock(t) \/ ReadBody(t)
    \/ WriteFileHeld(t) \/ WriteLock(t) \/ LoadFails(t) \/ LambdaThrows(t) \/ LambdaEdits(t)
    \/ CommitFileHeld(t) \/ WriteTemp(t) \/ Rename(t) \/ WriteFails(t) \/ SyncParent(t)

-----------------------------------------------------------------------------
(* Properties *)

\* "Guarantees a full, atomic read-modify-write cycle": the edit of a FullSync
\* write that returned without an error is on the disk and stays there, whatever
\* the threads of this and other processes do as long as they commit with
\* FullSync, and the file parses at every moment, also after a crash between
\* the steps of a write.
FullSyncIsKept == disk # Torn /\ (onlySync => acked \subseteq disk)

\* The copy of a process that does not count as dirty is what the process last
\* loaded or saved.
CleanMeansSaved ==
    \A p \in Processes : ~mem[p].dirty => mem[p].value = mem[p].base

\* "This operation is thread-safe": no two threads of a process each wait for
\* the lock the other holds.
LocksAreOrdered ==
    \A t, u \in Threads :
        ~(/\ ProcOf[t] = ProcOf[u]
          /\ At(t, "rfile") /\ Copy(t).writer = t /\ lock[t].mode = "block" /\ ~FileHeld(t)
          /\ At(u, "wlock") /\ FileHeld(u))
====
