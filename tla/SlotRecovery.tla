---------------------------- MODULE SlotRecovery ----------------------------
(***************************************************************************)
(* The slot recovery operations an operator's tool runs on a ring whose    *)
(* processes died (src/src/utils/shm/data_block_recovery.cpp):             *)
(* datablock_force_reset_slot, datablock_release_zombie_readers and        *)
(* datablock_release_zombie_writer, beside the slot protocol of SlotRW.    *)
(*                                                                         *)
(* The tool is another process that reads and writes the words of a        *)
(* SlotRWState one after the other, without a lock and without a CAS: what *)
(* it decides on may have changed when it stores.  Concurrent says whether *)
(* the ring may be used meanwhile.  When it may not, live writers stay out *)
(* of the tool's way, and live readers too unless the tool releases a      *)
(* writer, which only touches slots that no reader can enter.              *)
(***************************************************************************)
EXTENDS SlotRW

CONSTANT Concurrent

VARIABLE tool   \* the tool's call: operation, slot, force, what it loaded

recoveryVars == <<slotRWVars, tool>>

Operations == {"reset", "readers", "writer"}

IdleTool == [pc |-> "idle", op |-> "none", slot |-> NoSlot, force |-> FALSE,
             lock |-> NoPid, count |-> 0, state |-> "FREE", result |-> "none"]

RecoveryInit == SlotInit /\ tool = IdleTool

-----------------------------------------------------------------------------
LiveWriterAt(s) == \E w \in Writers : wpc[w] \notin {"idle", "dead"} /\ wslot[w] = s

LiveReaderAt(s) ==
    \E r \in Readers : rpc[r] \notin {"idle", "dead", "dead_registered"} /\ rslot[r] = s

\* is_writer_alive: the heartbeat is fresh or the process exists.
IsWriterAlive(pid) == pid # NoPid /\ (pid # NoPid => wpc[pid] # "dead")

To(pc) == tool' = [tool EXCEPT !.pc = pc]

Return(result) == tool' = [IdleTool EXCEPT !.result = result]

\* The call, with the load of write_lock that all three operations begin with.
Call(op, s, force) ==
    /\ tool.pc = "idle"
    /\ Concurrent \/ (~LiveWriterAt(s) /\ (op = "writer" \/ ~LiveReaderAt(s)))
    /\ tool' = [IdleTool EXCEPT !.pc = IF op = "writer" THEN "decide" ELSE "count",
                                !.op = op, !.slot = s, !.force = force,
                                !.lock = write_lock[s]]
    /\ UNCHANGED slotRWVars

LoadCount ==
    /\ tool.pc = "count"
    /\ tool' = [tool EXCEPT !.pc = "state", !.count = reader_count[tool.slot]]
    /\ UNCHANGED slotRWVars

LoadSlotState ==
    /\ tool.pc = "state"
    /\ tool' = [tool EXCEPT !.pc = "decide", !.state = slot_state[tool.slot]]
    /\ UNCHANGED slotRWVars

\* force_reset_slot: refused for a live writer or any reader, unless forced.
DecideReset ==
    /\ tool.pc = "decide" /\ tool.op = "reset"
    /\ IF ~tool.force /\ (IsWriterAlive(tool.lock) \/ tool.count > 0)
       THEN Return("UNSAFE")
       ELSE To("store_lock")
    /\ UNCHANGED slotRWVars

\* release_zombie_readers: refused for a live writer unless forced.  Whether the
\* readers are alive is not examined.
DecideReaders ==
    /\ tool.pc = "decide" /\ tool.op = "readers"
    /\ \/ tool.count = 0 /\ Return("NOT_STUCK")
       \/ tool.count > 0 /\ ~tool.force /\ IsWriterAlive(tool.lock) /\ Return("UNSAFE")
       \/ tool.count > 0 /\ (tool.force \/ ~IsWriterAlive(tool.lock)) /\ To("store_count")
    /\ UNCHANGED slotRWVars

\* release_zombie_writer: the state is loaded after the decision.
DecideWriter ==
    /\ tool.pc = "decide" /\ tool.op = "writer"
    /\ \/ tool.lock = NoPid /\ Return("NOT_STUCK")
       \/ IsWriterAlive(tool.lock) /\ Return("UNSAFE")
       \/ /\ tool.lock # NoPid /\ ~IsWriterAlive(tool.lock)
          /\ IF slot_state[tool.slot] # "COMMITTED" THEN To("store_state") ELSE To("store_lock")
    /\ UNCHANGED slotRWVars

StoreLock ==
    /\ tool.pc = "store_lock"
    /\ write_lock' = [write_lock EXCEPT ![tool.slot] = NoPid]
    /\ IF tool.op = "reset" THEN To("store_count") ELSE Return("SUCCESS")
    /\ UNCHANGED <<slot_state, reader_count, write_generation, commit_index, buffer,
                   writerVars, readerVars>>

\* A dead reader's registration is gone with the count.
StoreCount ==
    /\ tool.pc = "store_count"
    /\ reader_count' = [reader_count EXCEPT ![tool.slot] = 0]
    /\ rpc' = [r \in Readers |->
                 IF rpc[r] = "dead_registered" /\ rslot[r] = tool.slot THEN "dead" ELSE rpc[r]]
    /\ IF tool.op = "reset" \/ tool.state = "DRAINING" THEN To("store_state")
                                                       ELSE Return("SUCCESS")
    /\ UNCHANGED <<write_lock, slot_state, write_generation, commit_index, buffer,
                   writerVars, rslot, captured_generation, seen>>

\* Variant: a released slot is committed again whoever is released.
StoreStateCommits ==
    /\ tool.pc = "store_state"
    /\ slot_state' = [slot_state EXCEPT ![tool.slot] = "COMMITTED"]
    /\ IF tool.op = "writer" THEN To("store_lock") ELSE Return("SUCCESS")
    /\ UNCHANGED <<write_lock, reader_count, write_generation, commit_index, buffer,
                   writerVars, readerVars>>

\* What the operation leaves in slot_state: a drained slot is committed again
\* when its readers are released, and free otherwise.
StoreState ==
    /\ tool.pc = "store_state"
    /\ slot_state' = [slot_state EXCEPT ![tool.slot] =
                        IF tool.op = "readers" THEN "COMMITTED" ELSE "FREE"]
    /\ IF tool.op = "writer" THEN To("store_lock") ELSE Return("SUCCESS")
    /\ UNCHANGED <<write_lock, reader_count, write_generation, commit_index, buffer,
                   writerVars, readerVars>>

ToolNext ==
    \/ \E op \in Operations, s \in Slots, force \in BOOLEAN : Call(op, s, force)
    \/ LoadCount \/ LoadSlotState \/ DecideReset \/ DecideReaders \/ DecideWriter
    \/ StoreLock \/ StoreCount \/ StoreState

\* Steps of the ring's processes; while the tool is at work and the ring is not
\* to be used, only what the operation allows.
RingNext ==
    /\ SlotNext
    /\ UNCHANGED tool
    /\ \/ Concurrent \/ tool.pc = "idle"
       \/ tool.op = "writer" /\ UNCHANGED writerVars

RecoveryNext == ToolNext \/ RingNext

RecoverySpec == RecoveryInit /\ [][RecoveryNext]_recoveryVars

====
