------------------------------- MODULE ShmQueue -------------------------------
(***************************************************************************)
(* The shared-memory queue (src/src/utils/hub/hub_shm_queue.cpp): the      *)
(* QueueWriter and QueueReaders of a channel over one DataBlock.  A queue  *)
(* is created in standby, gets a descriptor, starts, acquires and gives    *)
(* back one slot at a time, and stops.  What the ring itself does with     *)
(* slots is the module DataBlock; here it is a sequence of committed items *)
(* that every reader goes through in order, and the set of slots in use.   *)
(*                                                                         *)
(* A slot carries a checksum that is good, absent (all zero) or of older   *)
(* content.  The flexible zone has a version, the version its checksum was *)
(* computed of, and the flag "already verified".                           *)
(***************************************************************************)
EXTENDS Naturals, Sequences

CONSTANTS ShmReaders, Policies, MaxItems, MaxZone

VARIABLES policy,     \* ChecksumPolicy, and whether the zone is checked
          writer,     \* the writer's ShmQueueImpl
          reader,     \* the readers'
          slots,      \* committed slots
          held,       \* slots acquired: writer and readers
          zone        \* the flexible zone

shmQueueVars == <<policy, writer, reader, slots, held, zone>>

\* create_writer_standby / create_reader_standby.
Standby == [fd |-> FALSE, active |-> FALSE, handle |-> 0, stamp |-> "old", got |-> <<>>, errors |-> 0,
            next |-> 1]

ShmInit ==
    /\ policy \in [slot : Policies, zone : BOOLEAN]
    /\ writer = Standby
    /\ reader = [r \in ShmReaders |-> Standby]
    /\ slots = <<>>
    /\ held = [writer |-> FALSE, readers |-> [r \in ShmReaders |-> 0]]
    /\ zone = [value |-> 0, sum |-> 0, valid |-> FALSE]

\* set_checksum_policy: who stamps, who verifies.
Stamps == policy.slot = "Enforced"
Verifies == policy.slot # "None"

-----------------------------------------------------------------------------
(* set_shm_capability_fd, start, stop *)

SetFd(q) == [q EXCEPT !.fd = IF q.active THEN @ ELSE TRUE]

\* start on a running queue does nothing, without a descriptor it is refused,
\* and attaching or creating the block may fail.
Started(q) == IF ~q.active /\ q.fd THEN {[q EXCEPT !.active = TRUE], q} ELSE {q}

\* The slot in hand is released before the block goes.
Stopped(q) == [q EXCEPT !.fd = FALSE, !.active = FALSE, !.handle = 0]

Writer(q, h) == writer' = q /\ held' = [held EXCEPT !.writer = h]
Reader(r, q, h) == reader' = [reader EXCEPT ![r] = q] /\ held' = [held EXCEPT !.readers[r] = h]

WriterSetFd == Writer(SetFd(writer), held.writer) /\ UNCHANGED <<policy, reader, slots, zone>>
WriterStart == (\E q \in Started(writer) : Writer(q, held.writer)) /\ UNCHANGED <<policy, reader, slots, zone>>
WriterStop == Writer(Stopped(writer), FALSE) /\ UNCHANGED <<policy, reader, slots, zone>>

ReaderSetFd(r) == Reader(r, SetFd(reader[r]), held.readers[r]) /\ UNCHANGED <<policy, writer, slots, zone>>
ReaderStart(r) ==
    /\ \E q \in Started(reader[r]) : Reader(r, q, held.readers[r])
    /\ UNCHANGED <<policy, writer, slots, zone>>
ReaderStop(r) == Reader(r, Stopped(reader[r]), 0) /\ UNCHANGED <<policy, writer, slots, zone>>

-----------------------------------------------------------------------------
(* The writer *)

\* write_acquire: a handle that is still there is replaced, which releases it.
WriteAcquire ==
    /\ writer.active /\ Len(slots) < MaxItems
    /\ Writer([writer EXCEPT !.handle = Len(slots) + 1, !.stamp = "old"], TRUE)
    /\ UNCHANGED <<policy, reader, slots, zone>>

\* update_checksum, by a script under the Manual policy.
UpdateChecksum ==
    /\ writer.handle # 0
    /\ Writer([writer EXCEPT !.stamp = "good"], held.writer)
    /\ UNCHANGED <<policy, reader, slots, zone>>

ZoneStamped == [zone EXCEPT !.sum = zone.value, !.valid = FALSE]

\* write_commit: the checksum is computed or zeroed, then the zone's, then the
\* slot is published and released.
WriteCommit ==
    /\ writer.active /\ writer.handle # 0
    /\ slots' = Append(slots, [stamped |-> writer.stamp,
                               sum |-> IF Stamps THEN "good" ELSE "zero"])
    /\ zone' = IF policy.zone THEN ZoneStamped ELSE zone
    /\ Writer([writer EXCEPT !.handle = 0], FALSE)
    /\ UNCHANGED <<policy, reader>>

WriteDiscard ==
    /\ writer.active /\ writer.handle # 0
    /\ Writer([writer EXCEPT !.handle = 0], FALSE)
    /\ UNCHANGED <<policy, reader, slots, zone>>

\* A script of either side writes the zone, which both map writable.
ZoneWrite ==
    /\ writer.active \/ \E r \in ShmReaders : reader[r].active
    /\ zone.value < MaxZone
    /\ zone' = [zone EXCEPT !.value = @ + 1]
    /\ UNCHANGED <<policy, writer, reader, slots, held>>

\* sync_flexzone_checksum, after on_init.
SyncZone ==
    /\ writer.active
    /\ zone' = ZoneStamped
    /\ UNCHANGED <<policy, writer, reader, slots, held>>

-----------------------------------------------------------------------------
(* The reader *)

SlotVerifies(r) == Verifies => slots[reader[r].next].sum = "good"

\* Verified once, the zone's checksum is not computed again until it is stamped.
ZoneVerifies == policy.zone => zone.valid \/ zone.sum = zone.value


\* The slot is counted, released and skipped.
SlotError(r) ==
    Reader(r, [reader[r] EXCEPT !.next = @ + 1, !.errors = @ + 1, !.handle = 0], 0)

\* read_acquire.
ReadAcquire(r) ==
    /\ reader[r].active /\ reader[r].next <= Len(slots)
    /\ IF ~SlotVerifies(r)
       THEN SlotError(r) /\ UNCHANGED zone
       ELSE IF ~ZoneVerifies
       THEN SlotError(r) /\ zone' = [zone EXCEPT !.valid = FALSE]
       ELSE /\ Reader(r, [reader[r] EXCEPT !.next = @ + 1, !.handle = reader[r].next,
                                           !.got = Append(@, reader[r].next)], reader[r].next)
            /\ zone' = IF policy.zone THEN [zone EXCEPT !.valid = TRUE] ELSE zone
    /\ UNCHANGED <<policy, writer, slots>>

ReadRelease(r) ==
    /\ reader[r].active /\ reader[r].handle # 0
    /\ Reader(r, [reader[r] EXCEPT !.handle = 0], 0)
    /\ UNCHANGED <<policy, writer, slots, zone>>

ShmNext ==
    \/ WriterSetFd \/ WriterStart \/ WriterStop
    \/ WriteAcquire \/ UpdateChecksum \/ WriteCommit \/ WriteDiscard \/ ZoneWrite \/ SyncZone
    \/ \E r \in ShmReaders :
          ReaderSetFd(r) \/ ReaderStart(r) \/ ReaderStop(r) \/ ReadAcquire(r) \/ ReadRelease(r)

ShmSpec == ShmInit /\ [][ShmNext]_shmQueueVars

-----------------------------------------------------------------------------
(* Properties *)


\* The policy table: under Manual the caller stamps the slot with
\* update_checksum and the reader verifies it.  A stamped slot is one a reader
\* accepts.
StampedIsReadable ==
    \A i \in DOMAIN slots :
        (Verifies /\ slots[i].stamped = "good") => slots[i].sum = "good"
====
